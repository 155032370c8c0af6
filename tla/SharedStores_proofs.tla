------------------------- MODULE SharedStores_proofs -------------------------
(***************************************************************************)
(* The shared backends for any number of callers, messages and queue       *)
(* items, and for any number of faults: in Redis the lock is exclusive     *)
(* while its lease runs and the compare-and-set keeps what others added    *)
(* once it ran out; in PostgreSQL no message that landed is hidden, but by *)
(* writing back a session without it; on either backend an item of the     *)
(* queue is given out once, and the end of a session is not replaced by    *)
(* another.                                                                *)
(*                                                                         *)
(* First Redis, then PostgreSQL, then both.                                *)
(***************************************************************************)
EXTENDS SharedStores, FiniteSetTheorems, TLAPS

-----------------------------------------------------------------------------
(***************************************************************************)
(* Redis                                                                   *)
(***************************************************************************)

Sessions == [msgs : SUBSET Msg, state : SessionState]

MaybeSession == Sessions \cup {None}

Arg == Msg \cup Item \cup Ends \cup {None}

Op == {"none", "append", "finalize", "fork", "delete", "restore", "dequeue",
       "cancel", "replace", "cleanup"}

Pc == {"idle", "acquire", "get", "cas", "release", "unindex", "unindexing",
       "del", "stage", "publish", "popped", "zrem", "hdel", "zrange", "swap",
       "entries", "entry", "score", "drop"}

Result == {"none", "ok", "error", "again"}

Calls == [op : Op, pc : Pc, arg : Arg, seen : MaybeSession,
          todo : SUBSET Item, tries : Nat, lease : BOOLEAN, result : Result]

Tales == [landed : SUBSET Msg, kept : SUBSET Msg, acked : SUBSET Msg,
          used : SUBSET (Msg \cup Item \cup UNION Spent),
          given : SUBSET Arg, cancelled : SUBSET Arg]

\* What a call knows at the places where it writes or reports: a session it
\* read to change can be changed, a bundle is a session, a message of which it
\* will report success has landed.
Knows(k, landed) ==
    /\ k.pc \in {"acquire", "get", "cas", "release"}
         <=> k.op \in {"append", "finalize", "fork"}
    /\ k.pc = "popped" <=> k.op = "dequeue"
    /\ k.op = "append" => k.arg \in Msg
    /\ k.op = "finalize" => k.arg \in Terminal
    /\ k.pc = "cas" => k.seen \in Sessions /\ Mutated(k.seen, k.op, k.arg) # None
    /\ k.pc \in {"stage", "publish"} => k.seen \in Sessions
    /\ k.op = "append" /\ k.result = "ok" => k.arg \in landed

RedisCalling ==
    /\ call \in [Caller -> Calls]
    /\ \A c \in Caller : Knows(call[c], told.landed)
    /\ LeaseHolds

RedisStored ==
    /\ copy \in MaybeSession
    /\ session \in MaybeSession
    /\ queue \subseteq Item
    /\ index \subseteq Item
    /\ told \in Tales
    /\ MutationsKept

RedisIInv == RedisCalling /\ RedisStored

-----------------------------------------------------------------------------
(* Operators *)

LEMMA FinalizeTyped ==
  ASSUME NEW s \in SessionState, NEW t \in Terminal
  PROVE  Finalize(s, t) \in SessionState \cup {"Illegal"}
  BY DEF Finalize, Transition, CanTransitionTo, ForwardMoves, FinalizingPhase,
         SessionState, Finalizing, Terminal

\* A mutation that succeeds gives a session with the messages of the one it was
\* given, and with its own.
LEMMA MutatedTyped ==
  ASSUME NEW s \in Sessions, NEW op \in {"append", "finalize", "fork"}, NEW arg,
         op = "append" => arg \in Msg, op = "finalize" => arg \in Terminal,
         Mutated(s, op, arg) # None
  PROVE  /\ Mutated(s, op, arg) \in Sessions
         /\ Mutated(s, op, arg).msgs =
              IF op = "append" THEN s.msgs \cup {arg} ELSE s.msgs
<1>1. CASE op = "append"
  BY <1>1 DEF Mutated, Sessions
<1>2. CASE op = "finalize"
  <2>1. Finalize(s.state, arg) \in SessionState \cup {"Illegal"}
    BY <1>2, FinalizeTyped DEF Sessions
  <2>2. QED
    BY <1>2, <2>1 DEF Mutated, Sessions
<1>3. CASE op = "fork"
  BY <1>3 DEF Mutated
<1>4. QED
  BY <1>1, <1>2, <1>3

LEMMA ArgParts ==
  /\ Msg \subseteq Arg
  /\ Item \subseteq Arg
  /\ Ends \subseteq Arg
  /\ None \in Arg
  /\ None \in MaybeSession
  BY DEF Arg, MaybeSession

\* What callers were told after each kind of write.
LEMMA LandedTyped ==
  ASSUME told \in Tales, NEW m \in Msg
  PROVE  /\ Landed(m) \in Tales
         /\ Landed(m).landed = told.landed \cup {m}
         /\ Landed(m).kept = told.kept \cup {m}
         /\ Landed(m).acked = told.acked
  BY DEF Landed, Tales

LEMMA OverwrittenTyped ==
  ASSUME told \in Tales, NEW msgs \in SUBSET Msg, NEW new \in SUBSET Msg
  PROVE  /\ Overwritten(msgs, new) \in Tales
         /\ Overwritten(msgs, new).landed = told.landed \cup msgs \cup new
         /\ Overwritten(msgs, new).kept = (told.kept \cap msgs) \cup new
         /\ Overwritten(msgs, new).acked = told.acked
  BY DEF Overwritten, Tales

LEMMA GoneTyped ==
  ASSUME told \in Tales
  PROVE  /\ Gone \in Tales
         /\ Gone.landed = told.landed
         /\ Gone.kept = {}
         /\ Gone.acked = told.acked
  BY DEF Gone, Tales

\* The records of what was used, given out and cancelled.
LEMMA OthersTyped ==
  ASSUME NEW t \in Tales, NEW ids \in SUBSET (Msg \cup Item), NEW i \in Arg
  PROVE  /\ [t EXCEPT !.used = @ \cup ids] \in Tales
         /\ [t EXCEPT !.used = @ \cup ids].landed = t.landed
         /\ [t EXCEPT !.used = @ \cup ids].kept = t.kept
         /\ [t EXCEPT !.used = @ \cup ids].acked = t.acked
         /\ [t EXCEPT !.given = @ \cup {i}] \in Tales
         /\ [t EXCEPT !.given = @ \cup {i}].landed = t.landed
         /\ [t EXCEPT !.given = @ \cup {i}].kept = t.kept
         /\ [t EXCEPT !.given = @ \cup {i}].acked = t.acked
         /\ [t EXCEPT !.cancelled = @ \cup {i}] \in Tales
         /\ [t EXCEPT !.cancelled = @ \cup {i}].landed = t.landed
         /\ [t EXCEPT !.cancelled = @ \cup {i}].kept = t.kept
         /\ [t EXCEPT !.cancelled = @ \cup {i}].acked = t.acked
  BY DEF Tales

-----------------------------------------------------------------------------
(* How a call moves on *)

\* A caller goes to `next`: what it knows there holds, what the others know
\* still holds, and the lock stays with whoever has a lease on it.
LEMMA RedisMoved ==
  ASSUME RedisCalling, NEW c \in Caller, NEW next \in Calls, Goto(c, next),
         told.landed \subseteq told'.landed,
         Knows(next, told'.landed),
         \A d \in Caller \ {c} : call[d].lease => lock' = d,
         next.lease => lock' = c
  PROVE  RedisCalling'
<1>1. /\ call' \in [Caller -> Calls]
      /\ \A d \in Caller : call'[d] = IF d = c THEN next ELSE call[d]
  BY DEF RedisCalling, Goto
<1>2. ASSUME NEW d \in Caller PROVE Knows(call'[d], told'.landed)
  BY <1>1 DEF RedisCalling, Knows
<1>3. LeaseHolds'
  BY <1>1 DEF LeaseHolds
<1> QED
  BY <1>1, <1>2, <1>3 DEF RedisCalling

\* The same where the lock stays as it is.
LEMMA MovedUnlocked ==
  ASSUME RedisCalling, NEW c \in Caller, NEW next \in Calls, Goto(c, next),
         told.landed \subseteq told'.landed,
         Knows(next, told'.landed),
         lock' = lock, next.lease => call[c].lease
  PROVE  RedisCalling'
<1>1. /\ \A d \in Caller \ {c} : call[d].lease => lock' = d
      /\ next.lease => lock' = c
  BY DEF RedisCalling, LeaseHolds
<1> QED
  BY <1>1, RedisMoved

LEMMA Unmoved ==
  ASSUME RedisCalling, UNCHANGED call, lock' = lock,
         told.landed \subseteq told'.landed
  PROVE  RedisCalling'
<1>1. ASSUME NEW c \in Caller PROVE Knows(call[c], told'.landed)
  BY DEF RedisCalling, Knows
<1> QED
  BY <1>1 DEF RedisCalling, LeaseHolds

LEMMA IdleTyped == Idle \in Calls /\ ~Idle.lease /\ \A landed : Knows(Idle, landed)
<1>1. Idle \in Calls
  BY ArgParts DEF Idle, Calls, Op, Pc, Result
<1>2. ~Idle.lease /\ \A landed : Knows(Idle, landed)
  BY DEF Idle, Knows
<1> QED  BY <1>1, <1>2

LEMMA EndedTyped ==
  ASSUME NEW k \in Calls, NEW r \in Result
  PROVE  /\ Ended(k, r) \in Calls
         /\ Ended(k, r).op = k.op /\ Ended(k, r).arg = k.arg
         /\ Ended(k, r).pc = "release" /\ Ended(k, r).result = r
         /\ Ended(k, r).lease = k.lease
  BY ArgParts DEF Ended, Calls, Pc

LEMMA FailuresTyped ==
  ASSUME NEW k \in Calls, NEW landed, Knows(k, landed),
         k.op \in {"append", "finalize", "fork"}, NEW next \in Failures(k)
  PROVE  next \in Calls /\ next.lease = k.lease /\ Knows(next, landed)
<1>1. PICK r \in {"error", "again"} : next = Ended(k, r)
  BY DEF Failures
<1>2. r \in Result
  BY DEF Result
<1>3. /\ next \in Calls
      /\ next.op = k.op /\ next.arg = k.arg
      /\ next.pc = "release" /\ next.result = r
      /\ next.lease = k.lease
  BY <1>1, <1>2, EndedTyped
<1> QED
  BY <1>3 DEF Knows

\* A call that begins knows all it has to.
LEMMA RedisBegins ==
  ASSUME RedisCalling, NEW c \in Caller, NEW op \in Op, NEW i \in Arg, NEW p \in Pc,
         Begin(c, op, i, p), UNCHANGED lock,
         told.landed \subseteq told'.landed,
         p \notin {"get", "cas", "release", "stage", "publish"},
         p = "acquire" <=> op \in {"append", "finalize", "fork"},
         p = "popped" <=> op = "dequeue",
         op = "append" => i \in Msg, op = "finalize" => i \in Terminal
  PROVE  RedisCalling'
<1> DEFINE next == [Idle EXCEPT !.op = op, !.arg = i, !.pc = p]
<1>1. /\ next \in Calls
      /\ next.op = op /\ next.arg = i /\ next.pc = p
      /\ ~next.lease /\ next.result = "none"
  <2>1. Idle \in Calls /\ ~Idle.lease /\ Idle.result = "none"
    BY IdleTyped DEF Idle
  <2> QED  BY <2>1 DEF Calls
<1>2. Goto(c, next)
  BY DEF Begin
<1> HIDE DEF next
<1>3. Knows(next, told'.landed)
  BY <1>1 DEF Knows
<1> QED
  BY <1>1, <1>2, <1>3, MovedUnlocked

\* A call ends.
LEMMA RedisReturns ==
  ASSUME RedisCalling, NEW c \in Caller, Goto(c, Idle), UNCHANGED lock,
         told.landed \subseteq told'.landed
  PROVE  RedisCalling'
  BY IdleTyped, MovedUnlocked

\* A call that is no mutation goes on.
LEMMA RedisGoesOn ==
  ASSUME RedisCalling, NEW c \in Caller, NEW next \in Calls, Goto(c, next),
         UNCHANGED lock, told.landed \subseteq told'.landed,
         call[c].op \notin {"append", "finalize", "fork", "dequeue"},
         next.op = call[c].op, next.lease = call[c].lease,
         next.pc \notin {"acquire", "get", "cas", "release", "stage", "publish",
                          "popped"}
  PROVE  RedisCalling'
<1>1. Knows(next, told'.landed)
  BY DEF Knows
<1> QED
  BY <1>1, MovedUnlocked

\* What is stored stays typed and kept where no session is written.
LEMMA StoredStays ==
  ASSUME RedisStored, UNCHANGED <<copy, session>>,
         queue' \subseteq Item, index' \subseteq Item,
         told' \in Tales, told'.landed = told.landed,
         told'.kept = told.kept, told'.acked = told.acked
  PROVE  RedisStored'
  BY DEF RedisStored, MutationsKept

LEMMA StoredUnchanged ==
  ASSUME RedisStored, UNCHANGED <<copy, told, session>>,
         queue' \subseteq Item, index' \subseteq Item
  PROVE  RedisStored'
  BY StoredStays DEF RedisStored

LEMMA StoredAll ==
  ASSUME RedisStored, UNCHANGED <<copy, told, dataVars>>
  PROVE  RedisStored'
  BY DEF RedisStored, MutationsKept, dataVars

-----------------------------------------------------------------------------
(* The mutations *)

LEMMA RedisMutateKeeps ==
  ASSUME RedisIInv, NEW c \in Caller, RedisMutate(c)
  PROVE  RedisIInv'
<1> USE DEF RedisIInv
<1>1. CASE \E m \in Msg \cap Fresh : Begin(c, "append", m, "acquire") /\ Use({m})
  <2>1. PICK m \in Msg \cap Fresh : Begin(c, "append", m, "acquire") /\ Use({m})
    BY <1>1
  <2>2. /\ told' \in Tales /\ told'.landed = told.landed
        /\ told'.kept = told.kept /\ told'.acked = told.acked
    <3>1. {m} \in SUBSET (Msg \cup Item) /\ told \in Tales /\ None \in Arg
      BY ArgParts DEF RedisStored
    <3> QED  BY <2>1, <3>1, OthersTyped DEF Use
  <2>3. RedisCalling'
    <3>1. "append" \in Op /\ "acquire" \in Pc /\ m \in Arg /\ m \in Msg
      BY ArgParts DEF Op, Pc
    <3> QED  BY <2>1, <2>2, <3>1, RedisBegins DEF RedisMutate
  <2>4. RedisStored'
    BY <2>2, StoredStays DEF RedisMutate, RedisStored, dataVars
  <2> QED  BY <2>3, <2>4
<1>2. CASE UNCHANGED told /\ \E t \in Ends \ told.used : Begin(c, "finalize", t, "acquire")
  <2>1. PICK t \in Ends : Begin(c, "finalize", t, "acquire")
    BY <1>2
  <2>2. "finalize" \in Op /\ "acquire" \in Pc /\ t \in Arg /\ t \in Terminal
    BY ArgParts, SharedAssumption DEF Op, Pc, SharedAssumption
  <2>3. RedisCalling'
    BY <1>2, <2>1, <2>2, RedisBegins DEF RedisMutate
  <2> QED  BY <1>2, <2>3, StoredAll DEF RedisMutate
<1>3. CASE UNCHANGED told /\ Begin(c, "fork", None, "acquire")
  <2>1. "fork" \in Op /\ "acquire" \in Pc /\ None \in Arg
    BY ArgParts DEF Op, Pc
  <2>2. RedisCalling'
    BY <1>3, <2>1, RedisBegins DEF RedisMutate
  <2> QED  BY <1>3, <2>2, StoredAll DEF RedisMutate
<1> QED  BY <1>1, <1>2, <1>3 DEF RedisMutate

LEMMA AcquireKeeps ==
  ASSUME RedisIInv, NEW c \in Caller, Acquire(c)
  PROVE  RedisIInv'
<1> DEFINE k == call[c]
<1>1. k \in Calls /\ Knows(k, told.landed) /\ k.pc = "acquire"
  BY DEF Acquire, RedisIInv, RedisCalling
<1>2. /\ lock = None /\ \A d \in Caller : ~call[d].lease
      /\ told.landed \subseteq told'.landed /\ told' = told
  BY SharedAssumption DEF Acquire, RedisIInv, RedisCalling, LeaseHolds, SharedAssumption
<1>3. RedisStored'
  BY StoredAll DEF Acquire, RedisIInv
<1>4. CASE lock' = c /\ Goto(c, [k EXCEPT !.pc = "get", !.lease = TRUE])
  <2> DEFINE next == [k EXCEPT !.pc = "get", !.lease = TRUE]
  <2>1. next \in Calls /\ Knows(next, told'.landed)
    <3> HIDE DEF k
    <3>1. /\ next \in Calls /\ next.pc = "get" /\ next.op = k.op
          /\ next.arg = k.arg /\ next.result = k.result
      BY <1>1 DEF Calls, Pc
    <3> HIDE DEF next
    <3> QED  BY <1>1, <1>2, <3>1 DEF Knows
  <2>2. Goto(c, next)
    BY <1>4
  <2> HIDE DEF next
  <2>3. RedisCalling'
    BY <1>2, <1>4, <2>1, <2>2, RedisMoved DEF RedisIInv
  <2> QED  BY <1>3, <2>3 DEF RedisIInv
<1>5. CASE \E next \in Failures(k) : Goto(c, next)
  <2>1. PICK next \in Failures(k) : Goto(c, next)
    BY <1>5
  <2>2. k.op \in {"append", "finalize", "fork"}
    BY <1>1 DEF Knows
  <2> HIDE DEF k
  <2>3. next \in Calls /\ next.lease = k.lease /\ Knows(next, told'.landed)
    BY <1>1, <1>2, <2>1, <2>2, FailuresTyped
  <2>4. ~k.lease
    BY <1>2 DEF k
  <2>5. RedisCalling'
    BY <1>2, <2>1, <2>3, <2>4, RedisMoved DEF RedisIInv
  <2> QED  BY <1>3, <2>5 DEF RedisIInv
<1> QED  BY <1>4, <1>5 DEF Acquire

LEMMA AcquireFailsKeeps ==
  ASSUME RedisIInv, NEW c \in Caller, AcquireFails(c)
  PROVE  RedisIInv'
  BY RedisReturns, StoredAll DEF AcquireFails, RedisIInv

LEMMA GetKeeps ==
  ASSUME RedisIInv, NEW c \in Caller, Get(c)
  PROVE  RedisIInv'
<1> DEFINE k == call[c]
<1>1. k \in Calls /\ Knows(k, told.landed) /\ k.pc = "get"
  BY DEF Get, RedisIInv, RedisCalling
<1>2. RedisStored' /\ UNCHANGED <<told, lock>>
  BY StoredAll DEF Get, RedisIInv
<1>3. k.op \in {"append", "finalize", "fork"}
  BY <1>1 DEF Knows
<1>4. CASE Goto(c, Ended(k, "error"))
  <2>1. Ended(k, "error") \in Failures(k)
    BY DEF Failures
  <2> DEFINE next == Ended(k, "error")
  <2> HIDE DEF k
  <2>2. next \in Calls /\ next.lease = k.lease /\ Knows(next, told'.landed)
    BY <1>1, <1>2, <1>3, <2>1, FailuresTyped
  <2>3. Goto(c, next) /\ next.lease = call[c].lease
    BY <1>4, <2>2 DEF k
  <2> HIDE DEF next
  <2>4. RedisCalling'
    BY <1>2, <2>2, <2>3, MovedUnlocked DEF RedisIInv
  <2> QED  BY <1>2, <2>4 DEF RedisIInv
<1>5. CASE /\ session # None /\ Mutated(session, k.op, k.arg) # None
           /\ Goto(c, [k EXCEPT !.pc = "cas", !.seen = session])
  <2>1. session \in Sessions /\ session \in MaybeSession
    BY <1>5 DEF RedisIInv, RedisStored, MaybeSession
  <2> DEFINE next == [k EXCEPT !.pc = "cas", !.seen = session]
  <2>2. /\ next \in Calls /\ Knows(next, told'.landed)
        /\ next.lease = k.lease
    <3>1. Mutated(session, k.op, k.arg) # None
      BY <1>5
    <3> HIDE DEF k
    <3>2. /\ next \in Calls /\ next.pc = "cas" /\ next.op = k.op
          /\ next.arg = k.arg /\ next.result = k.result
          /\ next.seen = session /\ next.lease = k.lease
      BY <1>1, <2>1 DEF Calls, Pc
    <3> HIDE DEF next
    <3> QED  BY <1>1, <1>2, <2>1, <3>1, <3>2 DEF Knows
  <2>3. Goto(c, next) /\ next.lease = call[c].lease
    BY <1>5, <2>2
  <2> HIDE DEF next
  <2>4. RedisCalling'
    BY <1>2, <2>2, <2>3, MovedUnlocked DEF RedisIInv
  <2> QED  BY <1>2, <2>4 DEF RedisIInv
<1> QED  BY <1>4, <1>5 DEF Get

LEMMA CommandFailsKeeps ==
  ASSUME RedisIInv, NEW c \in Caller, CommandFails(c)
  PROVE  RedisIInv'
<1> DEFINE k == call[c]
<1>1. k \in Calls /\ Knows(k, told.landed) /\ k.pc \in {"get", "cas"}
  BY DEF CommandFails, RedisIInv, RedisCalling
<1>2. RedisStored' /\ UNCHANGED <<told, lock>>
  BY StoredAll DEF CommandFails, RedisIInv
<1>3. k.op \in {"append", "finalize", "fork"}
  BY <1>1 DEF Knows
<1>4. PICK next \in Failures(k) : Goto(c, next)
  BY DEF CommandFails
<1>5. next \in Calls /\ next.lease = call[c].lease /\ Knows(next, told'.landed)
  BY <1>1, <1>2, <1>3, FailuresTyped
<1>6. RedisCalling'
  BY <1>2, <1>4, <1>5, MovedUnlocked DEF RedisIInv
<1> QED  BY <1>2, <1>6 DEF RedisIInv

\* The script writes only over the session the call has read, so what has
\* landed in it stays; and the message of the call has landed from now on.
LEMMA CompareAndSetKeeps ==
  ASSUME RedisIInv, NEW c \in Caller, CompareAndSet(c)
  PROVE  RedisIInv'
<1> DEFINE k == call[c]
<1>1. /\ k \in Calls /\ Knows(k, told.landed) /\ k.pc = "cas"
      /\ k.op \in {"append", "finalize", "fork"}
      /\ k.op = "append" => k.arg \in Msg
      /\ k.op = "finalize" => k.arg \in Terminal
      /\ k.seen \in Sessions /\ Mutated(k.seen, k.op, k.arg) # None
  BY DEF CompareAndSet, RedisIInv, RedisCalling, Knows
<1>2. /\ session = k.seen /\ session # None
      /\ session' = Mutated(k.seen, k.op, k.arg)
      /\ told' = IF k.op = "append" THEN Landed(k.arg) ELSE told
      /\ UNCHANGED <<copy, lock, queue, index>>
  BY DEF CompareAndSet, Same
<1>3. \/ Goto(c, Ended(k, "ok"))
      \/ \E next \in Failures(k) : Goto(c, next)
  BY DEF CompareAndSet
<1>4. RedisStored /\ RedisCalling /\ k = call[c]
  BY DEF RedisIInv
<1> HIDE DEF k
<1>5. /\ session' \in Sessions
      /\ session'.msgs = IF k.op = "append" THEN session.msgs \cup {k.arg}
                                            ELSE session.msgs
  <2>1. /\ Mutated(k.seen, k.op, k.arg) \in Sessions
        /\ Mutated(k.seen, k.op, k.arg).msgs =
             IF k.op = "append" THEN k.seen.msgs \cup {k.arg} ELSE k.seen.msgs
    BY <1>1, MutatedTyped
  <2> QED  BY <1>2, <2>1
<1>6. /\ told' \in Tales
      /\ told'.landed = IF k.op = "append" THEN told.landed \cup {k.arg} ELSE told.landed
      /\ told'.kept = IF k.op = "append" THEN told.kept \cup {k.arg} ELSE told.kept
      /\ told'.acked = told.acked
  BY <1>1, <1>2, <1>4, LandedTyped DEF RedisStored
<1>7. RedisStored'
  BY <1>2, <1>4, <1>5, <1>6 DEF RedisStored, MutationsKept, MaybeSession
<1>8. /\ told.landed \subseteq told'.landed
      /\ Knows(k, told'.landed)
      /\ k.op = "append" => k.arg \in told'.landed
  BY <1>1, <1>6 DEF Knows
<1>9. CASE Goto(c, Ended(k, "ok"))
  <2>1. "ok" \in Result
    BY DEF Result
  <2>2. /\ Ended(k, "ok") \in Calls
        /\ Ended(k, "ok").op = k.op /\ Ended(k, "ok").arg = k.arg
        /\ Ended(k, "ok").pc = "release"
        /\ Ended(k, "ok").lease = call[c].lease
    BY <1>1, <1>4, <2>1, EndedTyped
  <2>3. Knows(Ended(k, "ok"), told'.landed)
    BY <1>1, <1>8, <2>2 DEF Knows
  <2>4. RedisCalling'
    BY <1>2, <1>4, <1>8, <1>9, <2>2, <2>3, MovedUnlocked
  <2> QED  BY <1>7, <2>4 DEF RedisIInv
<1>10. CASE \E next \in Failures(k) : Goto(c, next)
  <2>1. PICK next \in Failures(k) : Goto(c, next)
    BY <1>10
  <2>2. next \in Calls /\ next.lease = call[c].lease /\ Knows(next, told'.landed)
    BY <1>1, <1>4, <1>8, FailuresTyped
  <2>3. RedisCalling'
    BY <1>2, <1>4, <1>8, <2>1, <2>2, MovedUnlocked
  <2> QED  BY <1>7, <2>3 DEF RedisIInv
<1> QED  BY <1>3, <1>9, <1>10

\* Only its owner, or nobody, loses the lock: it is deleted if it still has
\* the token of the caller.
LEMMA ReleaseKeeps ==
  ASSUME RedisIInv, NEW c \in Caller, Release(c)
  PROVE  RedisIInv'
<1> DEFINE k == call[c]
           again == [k EXCEPT !.pc = "acquire", !.tries = @ + 1,
                              !.lease = FALSE, !.result = "none"]
<1>1. /\ k \in Calls /\ Knows(k, told.landed) /\ k.pc = "release"
      /\ RedisStored /\ RedisCalling /\ k = call[c]
  BY DEF Release, RedisIInv, RedisCalling
<1>2. /\ Goto(c, IF k.result = "again" THEN again ELSE Idle)
      /\ told' = IF k.op = "append" /\ k.result = "ok"
                 THEN [told EXCEPT !.acked = @ \cup {k.arg}] ELSE told
      /\ UNCHANGED <<copy, dataVars>>
  BY DEF Release
<1>3. \A d \in Caller \ {c} : call[d].lease => lock' = d
  BY DEF Release, Freed, RedisIInv, RedisCalling, LeaseHolds
<1>4. /\ again \in Calls /\ ~again.lease
      /\ \A landed : Knows(k, landed) => Knows(again, landed)
  <2> HIDE DEF k
  <2> DEFINE n == k.tries + 1
  <2>2. n \in Nat /\ k \in Calls
    BY <1>1 DEF Calls
  <2> HIDE DEF n
  <2>1. /\ again \in Calls /\ again.pc = "acquire" /\ again.op = k.op
        /\ again.arg = k.arg /\ again.result = "none" /\ ~again.lease
    <3>1. again = [k EXCEPT !.pc = "acquire", !.tries = n,
                            !.lease = FALSE, !.result = "none"]
      BY DEF n
    <3> HIDE DEF again
    <3> QED  BY <2>2, <3>1 DEF Calls, Pc, Result
  <2> HIDE DEF again
  <2> QED  BY <1>1, <2>1 DEF Knows
<1> HIDE DEF k, again
<1>5. /\ told' \in Tales /\ told'.landed = told.landed /\ told'.kept = told.kept
      /\ told'.acked \subseteq told.landed
  <2>1. CASE k.op = "append" /\ k.result = "ok"
    <3>1. k.arg \in Msg /\ k.arg \in told.landed
      BY <1>1, <2>1 DEF Knows
    <3>2. told \in Tales /\ told.acked \subseteq told.landed
      BY <1>1 DEF RedisStored, MutationsKept
    <3>3. told' = [told EXCEPT !.acked = @ \cup {k.arg}]
      BY <1>2, <2>1
    <3> DEFINE t == [told EXCEPT !.acked = @ \cup {k.arg}]
    <3>4. /\ t \in Tales /\ t.landed = told.landed /\ t.kept = told.kept
          /\ t.acked = told.acked \cup {k.arg}
      BY <3>1, <3>2 DEF Tales
    <3>5. told' = t
      BY <3>3
    <3> HIDE DEF t
    <3> QED  BY <3>1, <3>2, <3>4, <3>5
  <2>2. CASE ~(k.op = "append" /\ k.result = "ok")
    BY <1>1, <1>2, <2>2 DEF RedisStored, MutationsKept
  <2> QED  BY <2>1, <2>2
<1>6. RedisStored'
  BY <1>1, <1>2, <1>5 DEF RedisStored, MutationsKept, dataVars
<1>7. PICK next \in Calls : /\ Goto(c, next) /\ ~next.lease
                            /\ Knows(next, told'.landed)
  BY <1>1, <1>2, <1>4, <1>5, IdleTyped
<1>8. RedisCalling'
  BY <1>1, <1>3, <1>5, <1>7, RedisMoved
<1> QED  BY <1>6, <1>8 DEF RedisIInv

LEMMA LeaseExpiresKeeps ==
  ASSUME RedisIInv, LeaseExpires
  PROVE  RedisIInv'
<1>1. RedisStored' /\ told' = told /\ lock' = None
  BY StoredAll DEF LeaseExpires, RedisIInv
<1>2. CASE lock \in Caller
  <2> DEFINE k == call[lock]
             next == [k EXCEPT !.lease = FALSE]
  <2>1. Goto(lock, next) /\ k \in Calls /\ Knows(k, told.landed)
    BY <1>2 DEF LeaseExpires, RedisIInv, RedisCalling
  <2>2. \A d \in Caller \ {lock} : ~call[d].lease
    BY DEF RedisIInv, RedisCalling, LeaseHolds
  <2> HIDE DEF k
  <2>3. /\ next \in Calls /\ ~next.lease /\ next.pc = k.pc /\ next.op = k.op
        /\ next.arg = k.arg /\ next.result = k.result /\ next.seen = k.seen
    BY <2>1 DEF Calls
  <2> HIDE DEF next
  <2>4. Knows(next, told'.landed)
    BY <1>1, <2>1, <2>3 DEF Knows
  <2>5. RedisCalling'
    BY <1>1, <1>2, <2>1, <2>2, <2>3, <2>4, RedisMoved DEF RedisIInv
  <2> QED  BY <1>1, <2>5 DEF RedisIInv
<1>3. CASE lock \notin Caller
  <2>1. \A d \in Caller : ~call[d].lease
    BY <1>3 DEF RedisIInv, RedisCalling, LeaseHolds
  <2>2. RedisCalling'
    BY <1>1, <1>3, <2>1 DEF LeaseExpires, RedisIInv, RedisCalling, LeaseHolds
  <2> QED  BY <1>1, <2>2 DEF RedisIInv
<1> QED  BY <1>2, <1>3

LEMMA DroppedKeeps ==
  ASSUME RedisIInv, NEW c \in Caller, Dropped(c)
  PROVE  RedisIInv'
<1>1. \A d \in Caller \ {c} : call[d].lease => lock' = d
  BY DEF Dropped, RedisIInv, RedisCalling, LeaseHolds
<1>2. RedisStored' /\ told' = told /\ Goto(c, Idle)
  BY StoredAll DEF Dropped, RedisIInv
<1>3. RedisCalling'
  BY <1>1, <1>2, IdleTyped, RedisMoved DEF RedisIInv
<1> QED  BY <1>2, <1>3 DEF RedisIInv

-----------------------------------------------------------------------------
(* Whole sessions *)

LEMMA RedisLoadKeeps ==
  ASSUME RedisIInv, NEW c \in Caller, RedisLoad(c)
  PROVE  RedisIInv'
<1>1. RedisCalling'
  BY Unmoved DEF RedisLoad, AtOnce, RedisIInv
<1>2. RedisStored'
  BY DEF RedisLoad, RedisIInv, RedisStored, MutationsKept, dataVars
<1> QED  BY <1>1, <1>2 DEF RedisIInv

\* Where a whole session is written, what it does not have is not kept.
LEMMA RedisSaveKeeps ==
  ASSUME RedisIInv, NEW c \in Caller, RedisSave(c)
  PROVE  RedisIInv'
<1>1. PICK new \in {{}} \cup {{m} : m \in Msg \cap Fresh} :
         /\ session' = [copy EXCEPT !.msgs = @ \cup new]
         /\ copy' = session'
         /\ told' = Overwritten(copy.msgs, new)
  BY DEF RedisSave
<1>2. new \in SUBSET Msg
  OBVIOUS
<1>3. copy \in Sessions /\ told \in Tales /\ copy.msgs \in SUBSET Msg
  BY DEF RedisSave, RedisIInv, RedisStored, MaybeSession, Sessions
<1>4. session' \in Sessions /\ session'.msgs = copy.msgs \cup new
  BY <1>1, <1>2, <1>3 DEF Sessions
<1>5. /\ told' \in Tales /\ told'.landed = told.landed \cup copy.msgs \cup new
      /\ told'.kept = (told.kept \cap copy.msgs) \cup new
      /\ told'.acked = told.acked
  BY <1>1, <1>2, <1>3, OverwrittenTyped
<1>6. UNCHANGED <<call, lock, queue, index>>
  BY DEF RedisSave, AtOnce
<1>7. RedisStored'
  BY <1>1, <1>2, <1>3, <1>4, <1>5, <1>6
     DEF RedisIInv, RedisStored, MutationsKept, MaybeSession
<1>8. RedisCalling'
  BY <1>5, <1>6, Unmoved DEF RedisIInv
<1> QED  BY <1>7, <1>8 DEF RedisIInv

\* The session is gone, and with it what was kept of it.
LEMMA GoneKeeps ==
  ASSUME RedisStored, session' = None, told' = Gone, UNCHANGED <<copy, queue, index>>
  PROVE  RedisStored' /\ told'.landed = told.landed
<1>1. /\ told' \in Tales /\ told'.landed = told.landed
      /\ told'.kept = {} /\ told'.acked = told.acked
  BY GoneTyped DEF RedisStored
<1> QED  BY <1>1 DEF RedisStored, MutationsKept, MaybeSession

LEMMA SessionExpiresKeeps ==
  ASSUME RedisIInv, SessionExpires
  PROVE  RedisIInv'
<1>1. RedisStored' /\ told'.landed = told.landed
  BY GoneKeeps DEF SessionExpires, RedisIInv
<1>2. RedisCalling'
  BY <1>1, Unmoved DEF SessionExpires, RedisIInv
<1> QED  BY <1>1, <1>2 DEF RedisIInv

LEMMA RedisDeleteKeeps ==
  ASSUME RedisIInv, NEW c \in Caller, RedisDelete(c)
  PROVE  RedisIInv'
<1>1. "delete" \in Op /\ "unindex" \in Pc /\ None \in Arg
  BY ArgParts DEF Op, Pc
<1>2. RedisStored' /\ told' = told
  BY StoredAll DEF RedisDelete, RedisIInv
<1>3. RedisCalling'
  BY <1>1, <1>2, RedisBegins DEF RedisDelete, RedisIInv
<1> QED  BY <1>2, <1>3 DEF RedisIInv

LEMMA DeleteSessionKeeps ==
  ASSUME RedisIInv, NEW c \in Caller, DeleteSession(c)
  PROVE  RedisIInv'
<1>1. RedisStored' /\ told'.landed = told.landed
  BY GoneKeeps DEF DeleteSession, RedisIInv
<1>2. RedisCalling'
  BY <1>1, RedisReturns DEF DeleteSession, RedisIInv
<1> QED  BY <1>1, <1>2 DEF RedisIInv

LEMMA RedisRestoreKeeps ==
  ASSUME RedisIInv, NEW c \in Caller, RedisRestore(c)
  PROVE  RedisIInv'
<1> DEFINE next == [Idle EXCEPT !.op = "restore", !.pc = "stage", !.seen = copy]
<1>1. copy \in Sessions /\ copy \in MaybeSession
  BY DEF RedisRestore, RedisIInv, RedisStored, MaybeSession
<1>2. /\ next \in Calls /\ next.op = "restore" /\ next.pc = "stage"
      /\ next.seen = copy /\ ~next.lease
  <2>1. Idle \in Calls /\ ~Idle.lease
    BY IdleTyped
  <2> QED  BY <1>1, <2>1 DEF Calls, Op, Pc
<1>3. RedisStored' /\ told' = told /\ lock' = lock /\ Goto(c, next)
  BY StoredAll DEF RedisRestore, RedisIInv
<1> HIDE DEF next
<1>4. Knows(next, told'.landed)
  BY <1>1, <1>2 DEF Knows
<1>5. RedisCalling'
  BY <1>2, <1>3, <1>4, MovedUnlocked DEF RedisIInv
<1> QED  BY <1>3, <1>5 DEF RedisIInv

LEMMA StageKeeps ==
  ASSUME RedisIInv, NEW c \in Caller, Stage(c)
  PROVE  RedisIInv'
<1> DEFINE k == call[c]
           next == [k EXCEPT !.pc = "publish", !.todo = index]
<1>1. /\ k \in Calls /\ Knows(k, told.landed) /\ k.pc = "stage"
      /\ index \in SUBSET Item
  BY DEF Stage, RedisIInv, RedisCalling, RedisStored
<1>2. RedisStored' /\ told' = told /\ lock' = lock /\ Goto(c, next)
  BY StoredAll DEF Stage, RedisIInv
<1>3. /\ next \in Calls /\ Knows(next, told'.landed) /\ next.lease = k.lease
  <2> HIDE DEF k
  <2>1. /\ next \in Calls /\ next.pc = "publish" /\ next.op = k.op
        /\ next.arg = k.arg /\ next.seen = k.seen /\ next.result = k.result
        /\ next.lease = k.lease
    BY <1>1 DEF Calls, Pc
  <2> HIDE DEF next
  <2> QED  BY <1>1, <1>2, <2>1 DEF Knows
<1> HIDE DEF next
<1>4. RedisCalling'
  BY <1>2, <1>3, MovedUnlocked DEF RedisIInv
<1> QED  BY <1>2, <1>4 DEF RedisIInv

LEMMA PublishKeeps ==
  ASSUME RedisIInv, NEW c \in Caller, Publish(c)
  PROVE  RedisIInv'
<1> DEFINE k == call[c]
<1>1. k.seen \in Sessions /\ RedisStored /\ RedisCalling
  BY DEF Publish, RedisIInv, RedisCalling, Knows
<1>2. Goto(c, Idle) /\ UNCHANGED <<copy, faults, lock>>
  BY DEF Publish
<1>3. CASE UNCHANGED <<told, dataVars>>
  BY <1>1, <1>2, <1>3, StoredAll, RedisReturns DEF RedisIInv
<1>4. CASE session = None
  <2>1. PICK items \in SUBSET (Item \cap Fresh) :
          /\ session' = k.seen
          /\ queue' = items
          /\ index' = (index \ k.todo) \cup items
          /\ told' = [Overwritten(k.seen.msgs, {}) EXCEPT !.used = @ \cup items]
    BY <1>4 DEF Publish
  <2> HIDE DEF k
  <2>2. k.seen.msgs \in SUBSET Msg /\ told \in Tales
        /\ items \in SUBSET (Msg \cup Item) /\ None \in Arg
    BY <1>1, ArgParts DEF Sessions, RedisStored
  <2> DEFINE t == Overwritten(k.seen.msgs, {})
  <2>3. /\ t \in Tales /\ t.landed = told.landed \cup k.seen.msgs
        /\ t.kept = told.kept \cap k.seen.msgs /\ t.acked = told.acked
    <3>1. /\ t \in Tales /\ t.landed = told.landed \cup k.seen.msgs \cup {}
          /\ t.kept = (told.kept \cap k.seen.msgs) \cup {} /\ t.acked = told.acked
      <4>1. {} \in SUBSET Msg
        OBVIOUS
      <4> QED  BY <2>2, <4>1, OverwrittenTyped
    <3> QED  BY <3>1
  <2>4. told' = [t EXCEPT !.used = @ \cup items]
    BY <2>1
  <2> HIDE DEF t
  <2>5. /\ told' \in Tales /\ told'.landed = told.landed \cup k.seen.msgs
        /\ told'.kept = told.kept \cap k.seen.msgs /\ told'.acked = told.acked
    BY <2>2, <2>3, <2>4, OthersTyped
  <2>6. RedisStored'
    BY <1>1, <1>2, <2>1, <2>5 DEF RedisStored, MutationsKept, MaybeSession
  <2>7. RedisCalling'
    BY <1>1, <1>2, <2>5, RedisReturns
  <2> QED  BY <2>6, <2>7 DEF RedisIInv
<1> QED  BY <1>3, <1>4 DEF Publish

-----------------------------------------------------------------------------
(* The queue and its index *)

\* A call that begins and only reads.
LEMMA ReadersBegin ==
  ASSUME RedisIInv, NEW c \in Caller, NEW op \in {"cancel", "replace", "cleanup"},
         NEW i \in Item \cup {None},
         NEW p \in {"zrem", "zrange", "unindex", "entries"},
         Begin(c, op, i, p), UNCHANGED <<copy, told, faults, lock, dataVars>>
  PROVE  RedisIInv'
<1>1. op \in Op /\ p \in Pc /\ i \in Arg
  BY ArgParts DEF Op, Pc
<1>2. RedisStored' /\ told' = told /\ lock' = lock
  BY StoredAll DEF RedisIInv
<1>3. RedisCalling'
  BY <1>1, <1>2, RedisBegins DEF RedisIInv
<1> QED  BY <1>2, <1>3 DEF RedisIInv

\* What a call of the queue does to it, and where it goes.
QueueOp(c) ==
    \/ Unindex(c) \/ UnindexItem(c) \/ DeleteQueue(c) \/ Remove(c) \/ ReadItems(c)
    \/ Entries(c) \/ CheckSession(c) \/ CheckItem(c) \/ DropEntry(c)

LEMMA QueueOpGoes ==
  ASSUME RedisIInv, NEW c \in Caller, QueueOp(c)
  PROVE  Goto(c, Idle) \/
         \E next \in Calls :
            /\ Goto(c, next)
            /\ next.op = call[c].op /\ next.lease = call[c].lease
            /\ next.pc \in {"unindexing", "del", "entries", "hdel", "swap",
                            "entry", "drop", "score"}
<1> DEFINE k == call[c]
<1>1. /\ k \in Calls /\ queue \in SUBSET Item /\ index \in SUBSET Item
      /\ k.todo \in SUBSET Item /\ \A i \in k.todo : k.todo \ {i} \in SUBSET Item
      /\ \A i \in k.todo : i \in Arg
  BY ArgParts DEF RedisIInv, RedisCalling, RedisStored, Calls
<1>2. QueueOp(c) /\ k = call[c]
  OBVIOUS
<1> HIDE DEF k
<1>3. CASE \E p \in {"del", "entries", "hdel", "entry", "drop"} :
             Goto(c, [k EXCEPT !.pc = p])
  <2>1. PICK p \in {"del", "entries", "hdel", "entry", "drop"} :
             Goto(c, [k EXCEPT !.pc = p])
    BY <1>3
  <2> DEFINE next == [k EXCEPT !.pc = p]
  <2>2. /\ next \in Calls /\ next.op = k.op /\ next.lease = k.lease /\ next.pc = p
    BY <1>1 DEF Calls, Pc
  <2> HIDE DEF next
  <2> QED  BY <1>2, <2>1, <2>2 DEF next
<1>4. CASE \E p \in {"unindexing", "swap", "entry"}, q \in SUBSET Item :
             Goto(c, [k EXCEPT !.pc = p, !.todo = q])
  <2>1. PICK p \in {"unindexing", "swap", "entry"}, q \in SUBSET Item :
             Goto(c, [k EXCEPT !.pc = p, !.todo = q])
    BY <1>4
  <2> DEFINE next == [k EXCEPT !.pc = p, !.todo = q]
  <2>2. /\ next \in Calls /\ next.op = k.op /\ next.lease = k.lease /\ next.pc = p
    BY <1>1 DEF Calls, Pc
  <2> HIDE DEF next
  <2> QED  BY <1>2, <2>1, <2>2 DEF next
<1>5. CASE k.pc = "unindexing" /\ \E q \in SUBSET Item : Goto(c, [k EXCEPT !.todo = q])
  <2>1. PICK q \in SUBSET Item : Goto(c, [k EXCEPT !.todo = q])
    BY <1>5
  <2> DEFINE next == [k EXCEPT !.todo = q]
  <2>2. /\ next \in Calls /\ next.op = k.op /\ next.lease = k.lease
        /\ next.pc = "unindexing"
    BY <1>1, <1>5 DEF Calls
  <2> HIDE DEF next
  <2> QED  BY <1>2, <2>1, <2>2 DEF next
<1>6. CASE \E q \in SUBSET Item, i \in Arg, p \in {"drop", "score"} :
             Goto(c, [k EXCEPT !.todo = q, !.arg = i, !.pc = p])
  <2>1. PICK q \in SUBSET Item, i \in Arg, p \in {"drop", "score"} :
             Goto(c, [k EXCEPT !.todo = q, !.arg = i, !.pc = p])
    BY <1>6
  <2> DEFINE next == [k EXCEPT !.todo = q, !.arg = i, !.pc = p]
  <2>2. /\ next \in Calls /\ next.op = k.op /\ next.lease = k.lease /\ next.pc = p
    BY <1>1 DEF Calls, Pc
  <2> HIDE DEF next
  <2> QED  BY <1>2, <2>1, <2>2 DEF next
<1>7. CASE DeleteQueue(c) \/ Remove(c) \/ CheckItem(c) \/ DropEntry(c)
  BY <1>2, <1>3, <1>7 DEF DeleteQueue, Remove, CheckItem, DropEntry
<1>8. CASE Unindex(c) \/ ReadItems(c) \/ Entries(c)
  BY <1>1, <1>2, <1>4, <1>8 DEF Unindex, ReadItems, Entries
<1>9. CASE UnindexItem(c)
  BY <1>1, <1>2, <1>5, <1>9 DEF UnindexItem
<1>10. CASE CheckSession(c)
  <2>1. CASE k.todo = {}
    BY <1>2, <1>10, <2>1 DEF CheckSession
  <2>2. CASE k.todo # {}
    <3>1. PICK i \in k.todo :
             Goto(c, [k EXCEPT !.todo = @ \ {i}, !.arg = i,
                               !.pc = IF session = None THEN "drop" ELSE "score"])
      BY <1>2, <1>10, <2>2 DEF CheckSession
    <3>2. k.todo \ {i} \in SUBSET Item /\ i \in Arg
      BY <1>1
    <3>3. CASE session = None
      BY <1>6, <3>1, <3>2, <3>3
    <3>4. CASE session # None
      BY <1>6, <3>1, <3>2, <3>4
    <3> QED  BY <3>3, <3>4
  <2> QED  BY <2>1, <2>2
<1> QED
  BY <1>2, <1>7, <1>8, <1>9, <1>10 DEF QueueOp

LEMMA QueueOpKeeps ==
  ASSUME RedisIInv, NEW c \in Caller, QueueOp(c)
  PROVE  RedisIInv'
<1>1. call[c].op \notin {"append", "finalize", "fork", "dequeue"}
  BY DEF RedisIInv, RedisCalling, Knows, QueueOp, Unindex, UnindexItem, DeleteQueue, Remove,
         ReadItems, Entries, CheckSession, CheckItem, DropEntry
<1>2. UNCHANGED <<copy, session, lock>> /\ queue' \subseteq Item /\ index' \subseteq Item
  BY DEF RedisIInv, RedisStored, dataVars, QueueOp, Unindex, UnindexItem, DeleteQueue, Remove,
         ReadItems, Entries, CheckSession, CheckItem, DropEntry
<1>3. /\ told' \in Tales /\ told'.landed = told.landed
      /\ told'.kept = told.kept /\ told'.acked = told.acked
  <2>1. CASE told' = told
    BY <2>1 DEF RedisIInv, RedisStored
  <2>2. CASE Remove(c)
    <3>1. told \in Tales /\ call[c].arg \in Arg /\ {} \in SUBSET (Msg \cup Item)
      BY DEF RedisIInv, RedisStored, RedisCalling, Calls
    <3> QED  BY <2>1, <2>2, <3>1, OthersTyped DEF Remove
  <2> QED
    BY <2>1, <2>2 DEF QueueOp, Unindex, UnindexItem, DeleteQueue, ReadItems,
                      Entries, CheckSession, CheckItem, DropEntry
<1>4. RedisStored'
  BY <1>2, <1>3, StoredStays DEF RedisIInv
<1>5. RedisCalling'
  BY <1>1, <1>2, <1>3, QueueOpGoes, RedisGoesOn, RedisReturns DEF RedisIInv
<1> QED  BY <1>4, <1>5 DEF RedisIInv

LEMMA RedisEnqueueKeeps ==
  ASSUME RedisIInv, NEW c \in Caller, RedisEnqueue(c)
  PROVE  RedisIInv'
<1>1. PICK i \in Item : /\ queue' = queue \cup {i}
                        /\ index' = index \cup {i}
                        /\ Use({i})
  BY DEF RedisEnqueue
<1>2. {i} \in SUBSET (Msg \cup Item) /\ told \in Tales /\ None \in Arg
  BY ArgParts DEF RedisIInv, RedisStored
<1>3. /\ told' \in Tales /\ told'.landed = told.landed
      /\ told'.kept = told.kept /\ told'.acked = told.acked
  BY <1>1, <1>2, OthersTyped DEF Use
<1>4. RedisStored'
  BY <1>1, <1>3, StoredStays DEF RedisEnqueue, RedisIInv, RedisStored
<1>5. RedisCalling'
  BY <1>3, Unmoved DEF RedisEnqueue, AtOnce, RedisIInv
<1> QED  BY <1>4, <1>5 DEF RedisIInv

LEMMA PopKeeps ==
  ASSUME RedisIInv, NEW c \in Caller, Pop(c)
  PROVE  RedisIInv'
<1>1. PICK i \in queue : Begin(c, "dequeue", i, "popped") /\ queue' = Popped(i)
  BY DEF Pop
<1>2. "dequeue" \in Op /\ "popped" \in Pc /\ i \in Arg
  BY ArgParts DEF Op, Pc, RedisIInv, RedisStored
<1>3. RedisStored'
  BY <1>1, StoredUnchanged DEF Pop, Popped, RedisIInv, RedisStored
<1>4. RedisCalling'
  BY <1>1, <1>2, RedisBegins DEF Pop, RedisIInv
<1> QED  BY <1>3, <1>4 DEF RedisIInv

LEMMA GiveOutKeeps ==
  ASSUME RedisIInv, NEW c \in Caller, GiveOut(c)
  PROVE  RedisIInv'
<1>1. told \in Tales /\ call[c].arg \in Arg /\ {} \in SUBSET (Msg \cup Item)
  BY DEF RedisIInv, RedisStored, RedisCalling, Calls
<1>2. /\ told' \in Tales /\ told'.landed = told.landed
      /\ told'.kept = told.kept /\ told'.acked = told.acked
  BY <1>1, OthersTyped DEF GiveOut
<1>3. RedisStored'
  BY <1>2, StoredStays DEF GiveOut, RedisIInv, RedisStored
<1>4. RedisCalling'
  BY <1>2, RedisReturns DEF GiveOut, RedisIInv
<1> QED  BY <1>3, <1>4 DEF RedisIInv

LEMMA CancelDoneKeeps ==
  ASSUME RedisIInv, NEW c \in Caller, CancelDone(c)
  PROVE  RedisIInv'
<1>1. RedisStored'
  BY StoredUnchanged DEF CancelDone, RedisIInv, RedisStored
<1>2. RedisCalling'
  BY RedisReturns DEF CancelDone, RedisIInv
<1> QED  BY <1>1, <1>2 DEF RedisIInv

LEMMA SwapKeeps ==
  ASSUME RedisIInv, NEW c \in Caller, Swap(c)
  PROVE  RedisIInv'
<1>1. PICK items \in SUBSET (Item \cap Fresh) :
             /\ queue' = items
             /\ index' = (index \ call[c].todo) \cup items
             /\ Use(items)
  BY DEF Swap
<1>2. items \in SUBSET (Msg \cup Item) /\ told \in Tales /\ None \in Arg
  BY ArgParts DEF RedisIInv, RedisStored
<1>3. /\ told' \in Tales /\ told'.landed = told.landed
      /\ told'.kept = told.kept /\ told'.acked = told.acked
  BY <1>1, <1>2, OthersTyped DEF Use
<1>4. RedisStored'
  BY <1>1, <1>3, StoredStays DEF Swap, RedisIInv, RedisStored
<1>5. RedisCalling'
  BY <1>3, RedisReturns DEF Swap, RedisIInv
<1> QED  BY <1>4, <1>5 DEF RedisIInv

-----------------------------------------------------------------------------
(* Every step *)

LEMMA RedisInitInv == RedisInit => RedisIInv
<1> SUFFICES ASSUME RedisInit PROVE RedisIInv
  OBVIOUS
<1>1. call = [c \in Caller |-> Idle] /\ lock = None
  BY DEF RedisInit, InitClients
<1>2. RedisCalling
  BY <1>1, IdleTyped DEF RedisCalling, LeaseHolds
<1>3. /\ copy = None /\ session = [msgs |-> {}, state |-> "Running"]
      /\ queue = {} /\ index = {}
  BY DEF RedisInit, InitClients
<1>4. PICK used \in Spent :
         told = [landed |-> {}, kept |-> {}, acked |-> {}, used |-> used,
                 given |-> {}, cancelled |-> {}]
  BY DEF RedisInit, InitClients
<1>5. told \in Tales /\ told.kept = {} /\ told.acked = {}
  BY <1>4 DEF Tales
<1>6. session \in Sessions
  BY <1>3 DEF Sessions, SessionState, Finalizing, Terminal
<1>7. RedisStored
  BY <1>3, <1>5, <1>6 DEF RedisStored, MutationsKept, MaybeSession
<1> QED  BY <1>2, <1>7 DEF RedisIInv

LEMMA RedisStepInv == RedisIInv /\ [RedisNext]_redisVars => RedisIInv'
<1> SUFFICES ASSUME RedisIInv, RedisNext \/ UNCHANGED redisVars PROVE RedisIInv'
  OBVIOUS
<1>1. CASE UNCHANGED redisVars
  BY <1>1, Unmoved, StoredAll DEF redisVars, dataVars, RedisIInv
<1>2. CASE LeaseExpires
  BY <1>2, LeaseExpiresKeeps
<1>3. CASE SessionExpires
  BY <1>3, SessionExpiresKeeps
<1>4. ASSUME NEW c \in Caller,
             \/ RedisMutate(c) \/ Acquire(c) \/ AcquireFails(c) \/ Get(c)
             \/ CompareAndSet(c) \/ CommandFails(c) \/ Release(c) \/ Dropped(c)
      PROVE  RedisIInv'
  BY <1>4, RedisMutateKeeps, AcquireKeeps, AcquireFailsKeeps, GetKeeps,
     CompareAndSetKeeps, CommandFailsKeeps, ReleaseKeeps, DroppedKeeps
<1>5. ASSUME NEW c \in Caller,
             \/ RedisLoad(c) \/ RedisSave(c) \/ RedisDelete(c) \/ DeleteSession(c)
             \/ RedisRestore(c) \/ Stage(c) \/ Publish(c)
      PROVE  RedisIInv'
  BY <1>5, RedisLoadKeeps, RedisSaveKeeps, RedisDeleteKeeps, DeleteSessionKeeps,
     RedisRestoreKeeps, StageKeeps, PublishKeeps
<1>6. ASSUME NEW c \in Caller, QueueOp(c) PROVE RedisIInv'
  BY <1>6, QueueOpKeeps
<1>7. ASSUME NEW c \in Caller,
             \/ RedisEnqueue(c) \/ Pop(c) \/ GiveOut(c) \/ CancelDone(c) \/ Swap(c)
      PROVE  RedisIInv'
  BY <1>7, RedisEnqueueKeeps, PopKeeps, GiveOutKeeps, CancelDoneKeeps, SwapKeeps
<1>8. ASSUME NEW c \in Caller, RedisCancel(c) \/ RedisReplace(c) \/ RedisCleanup(c)
      PROVE  RedisIInv'
  <2>1. CASE RedisCancel(c)
    <3>1. index \subseteq Item
      BY DEF RedisIInv, RedisStored
    <3> QED  BY <2>1, <3>1, ReadersBegin DEF RedisCancel
  <2>2. CASE RedisReplace(c)
    BY <2>2, ReadersBegin DEF RedisReplace
  <2>3. CASE RedisCleanup(c)
    BY <2>3, ReadersBegin DEF RedisCleanup
  <2> QED  BY <1>8, <2>1, <2>2, <2>3
<1> QED
  BY <1>1, <1>2, <1>3, <1>4, <1>5, <1>6, <1>7, <1>8 DEF RedisNext, QueueOp

\* What callers know where they write or report, the types, and both
\* properties hold in every state (src/src/session/persistence_redis.rs).
THEOREM RedisInductive == RedisSpec => []RedisIInv
  BY RedisInitInv, RedisStepInv, PTL DEF RedisSpec

\* However many callers compete, calls are dropped, replies get lost or leases
\* run out: a lock whose lease runs belongs to the mutation that took it
\* (src/src/session/lock.rs).
THEOREM LockExclusive == RedisSpec => []LeaseHolds
<1>1. RedisIInv => LeaseHolds
  BY DEF RedisIInv, RedisCalling
<1> QED  BY <1>1, RedisInductive, PTL

\* And no mutation loses the message of another, even one whose lease has run
\* out in the middle; add_message never reports a message that did not land.
THEOREM NoLostUpdate == RedisSpec => []MutationsKept
<1>1. RedisIInv => MutationsKept
  BY DEF RedisIInv, RedisStored
<1> QED  BY <1>1, RedisInductive, PTL

-----------------------------------------------------------------------------
(* The places of a queue item *)

\* Each item is waiting, in one hand, given out or cancelled, or in none of
\* these places; and whatever is in one of them has been used.
RedisHanded ==
    /\ queue \cup told.given \cup told.cancelled \subseteq told.used
    /\ queue \cap (told.given \cup told.cancelled) = {}
    /\ told.given \cap told.cancelled = {}
    /\ \A c \in Caller : call[c].pc = "popped" =>
         /\ call[c].arg \in told.used
         /\ call[c].arg \notin queue \cup told.given \cup told.cancelled
         /\ \A d \in Caller : call[d].pc = "popped" /\ call[d].arg = call[c].arg
                                => d = c

\* Nobody takes an item but by Pop.
RedisNobodyTakes ==
    \A d \in Caller : call'[d].pc = "popped"
                        => call[d].pc = "popped" /\ call'[d].arg = call[d].arg

\* An item comes in when it is new, and leaves the queue to be cancelled.
LEMMA RedisHandedStays ==
  ASSUME RedisHanded, RedisNobodyTakes,
         told.used \subseteq told'.used, told'.given = told.given,
         told'.cancelled \subseteq told.cancelled \cup (queue \ queue'),
         \A i \in queue' : i \in queue \/ (i \notin told.used /\ i \in told'.used)
  PROVE  RedisHanded'
  BY DEF RedisHanded, RedisNobodyTakes

LEMMA TakesNone ==
  ASSUME RedisCalling, NEW c \in Caller, NEW next \in Calls, Goto(c, next),
         next.pc # "popped"
  PROVE  RedisNobodyTakes
<1>1. \A d \in Caller : call'[d] = IF d = c THEN next ELSE call[d]
  BY DEF RedisCalling, Goto
<1> QED  BY <1>1 DEF RedisNobodyTakes

LEMMA TakesNoneAtEnd ==
  ASSUME RedisCalling, NEW c \in Caller, Goto(c, Idle)
  PROVE  RedisNobodyTakes
<1>1. Idle \in Calls /\ Idle.pc # "popped"
  BY IdleTyped DEF Idle
<1> QED  BY <1>1, TakesNone

LEMMA TakesNoneAtStart ==
  ASSUME RedisCalling, NEW c \in Caller, NEW op \in Op, NEW i \in Arg, NEW p \in Pc,
         Begin(c, op, i, p), p # "popped"
  PROVE  RedisNobodyTakes
<1> DEFINE next == [Idle EXCEPT !.op = op, !.arg = i, !.pc = p]
<1>1. next \in Calls /\ next.pc = p
  BY IdleTyped DEF Calls
<1>2. Goto(c, next)
  BY DEF Begin
<1> HIDE DEF next
<1> QED  BY <1>1, <1>2, TakesNone

\* The calls that go on and take nothing.
LEMMA MutationsTakeNone ==
  ASSUME RedisIInv, NEW c \in Caller,
         \/ Acquire(c) \/ Get(c) \/ CompareAndSet(c) \/ CommandFails(c)
         \/ Release(c) \/ RedisRestore(c) \/ Stage(c)
  PROVE  RedisNobodyTakes
<1> DEFINE k == call[c]
<1>1. /\ k \in Calls /\ Knows(k, told.landed) /\ RedisCalling
      /\ index \in SUBSET Item /\ copy \in MaybeSession /\ session \in MaybeSession
  BY DEF RedisIInv, RedisCalling, RedisStored
<1>2. ASSUME Goto(c, Ended(k, "error")) \/ Goto(c, Ended(k, "ok"))
             \/ \E next \in Failures(k) : Goto(c, next)
      PROVE  RedisNobodyTakes
  <2>1. PICK r \in Result : Goto(c, Ended(k, r))
    BY <1>2 DEF Failures, Result
  <2> HIDE DEF k
  <2>2. Ended(k, r) \in Calls /\ Ended(k, r).pc = "release"
    BY <1>1, EndedTyped
  <2>3. Ended(k, r).pc # "popped"
    BY <2>2
  <2> QED  BY <1>1, <2>1, <2>2, <2>3, TakesNone
<1>3. ASSUME NEW next, Goto(c, next),
             \/ next = [k EXCEPT !.pc = "get", !.lease = TRUE]
             \/ next = [k EXCEPT !.pc = "cas", !.seen = session]
             \/ next = [k EXCEPT !.pc = "publish", !.todo = index]
             \/ next = [Idle EXCEPT !.op = "restore", !.pc = "stage", !.seen = copy]
      PROVE  RedisNobodyTakes
  <2>1. Idle \in Calls
    BY IdleTyped
  <2> HIDE DEF k
  <2>2. next \in Calls /\ next.pc # "popped"
    BY <1>1, <1>3, <2>1 DEF Calls, Pc, Op
  <2> QED  BY <1>1, <1>3, <2>2, TakesNone
<1>4. CASE Acquire(c)
  BY <1>2, <1>3, <1>4 DEF Acquire
<1>5. CASE Get(c)
  BY <1>2, <1>3, <1>5 DEF Get
<1>6. CASE CompareAndSet(c) \/ CommandFails(c)
  BY <1>2, <1>6 DEF CompareAndSet, CommandFails
<1>7. CASE RedisRestore(c) \/ Stage(c)
  BY <1>3, <1>7 DEF RedisRestore, Stage
<1>8. CASE Release(c)
  <2>1. CASE k.result # "again"
    BY <1>1, <1>8, <2>1, TakesNoneAtEnd DEF Release
  <2>2. CASE k.result = "again"
    <3> DEFINE n == k.tries + 1
               next == [k EXCEPT !.pc = "acquire", !.tries = n,
                                 !.lease = FALSE, !.result = "none"]
    <3>1. Goto(c, next)
      BY <1>8, <2>2 DEF Release
    <3>2. n \in Nat
      BY <1>1 DEF Calls
    <3> HIDE DEF n, k
    <3>3. next \in Calls /\ next.pc # "popped"
      BY <1>1, <3>2 DEF Calls, Pc, Result
    <3> HIDE DEF next
    <3> QED  BY <1>1, <3>1, <3>3, TakesNone
  <2> QED  BY <2>1, <2>2
<1> QED  BY <1>4, <1>5, <1>6, <1>7, <1>8

\* Told nothing of items, but perhaps that more are used.
RedisQuiet ==
    /\ told.used \subseteq told'.used
    /\ told'.given = told.given
    /\ told'.cancelled = told.cancelled

LEMMA RedisToldQuiet ==
  ASSUME told \in Tales,
         \/ told' = told
         \/ told' = Gone
         \/ \E m \in Arg : told' = Landed(m)
         \/ \E m \in Arg : told' = [told EXCEPT !.acked = @ \cup {m}]
         \/ \E msgs \in SUBSET Msg, new \in SUBSET Msg : told' = Overwritten(msgs, new)
         \/ \E ids \in SUBSET (Msg \cup Item) : Use(ids)
  PROVE  RedisQuiet
<1>1. CASE told' = told \/ told' = Gone
  BY <1>1 DEF RedisQuiet, Gone, Tales
<1>2. CASE \E m \in Arg : told' = Landed(m)
  BY <1>2 DEF RedisQuiet, Landed, Tales
<1>3. CASE \E m \in Arg : told' = [told EXCEPT !.acked = @ \cup {m}]
  BY <1>3 DEF RedisQuiet, Tales
<1>4. CASE \E msgs \in SUBSET Msg, new \in SUBSET Msg : told' = Overwritten(msgs, new)
  BY <1>4 DEF RedisQuiet, Overwritten, Tales
<1>5. CASE \E ids \in SUBSET (Msg \cup Item) : Use(ids)
  BY <1>5 DEF RedisQuiet, Use, Tales
<1> QED  BY <1>1, <1>2, <1>3, <1>4, <1>5

LEMMA RedisHandedUnchanged ==
  ASSUME RedisHanded, RedisNobodyTakes, RedisQuiet, queue' = queue
  PROVE  RedisHanded'
  BY RedisHandedStays DEF RedisQuiet

\* New items come in.
LEMMA HandedNew ==
  ASSUME RedisHanded, RedisNobodyTakes, RedisQuiet,
         NEW items \in SUBSET (Item \cap Fresh),
         items \subseteq told'.used, queue' \subseteq queue \cup items
  PROVE  RedisHanded'
<1>1. \A i \in items : i \notin told.used
  BY DEF Fresh
<1> QED
  BY <1>1, RedisHandedStays DEF RedisQuiet

LEMMA MutationsHanded ==
  ASSUME RedisIInv, RedisHanded, NEW c \in Caller,
         \/ RedisMutate(c) \/ Acquire(c) \/ AcquireFails(c) \/ Get(c)
         \/ CompareAndSet(c) \/ CommandFails(c) \/ Release(c) \/ Dropped(c)
  PROVE  RedisHanded'
<1>1. /\ told \in Tales /\ RedisCalling /\ call[c].arg \in Arg
      /\ Msg \subseteq Arg /\ Ends \subseteq Arg /\ None \in Arg
  BY ArgParts DEF RedisIInv, RedisCalling, RedisStored, Calls
<1>2. CASE RedisMutate(c)
  <2>1. /\ {"append", "finalize", "fork"} \subseteq Op
        /\ "acquire" \in Pc /\ "acquire" # "popped"
    BY DEF Op, Pc
  <2>2. RedisNobodyTakes
    <3>1. PICK op \in {"append", "finalize", "fork"}, i \in Arg :
             Begin(c, op, i, "acquire")
      BY <1>1, <1>2 DEF RedisMutate
    <3> QED  BY <1>1, <2>1, <3>1, TakesNoneAtStart
  <2>3. RedisQuiet
    <3>1. told' = told \/ \E m \in Msg : Use({m})
      BY <1>2 DEF RedisMutate
    <3>2. \A m \in Msg : {m} \in SUBSET (Msg \cup Item)
      OBVIOUS
    <3> QED  BY <1>1, <3>1, <3>2, RedisToldQuiet
  <2> QED
    BY <1>2, <2>2, <2>3, RedisHandedUnchanged DEF RedisMutate, dataVars
<1>3. CASE AcquireFails(c) \/ Dropped(c)
  <2>1. Goto(c, Idle) /\ told' = told /\ queue' = queue
    BY <1>3 DEF AcquireFails, Dropped, dataVars
  <2> QED
    BY <1>1, <2>1, TakesNoneAtEnd, RedisToldQuiet, RedisHandedUnchanged
<1>4. CASE \/ Acquire(c) \/ Get(c) \/ CompareAndSet(c) \/ CommandFails(c)
           \/ Release(c)
  <2>1. RedisNobodyTakes
    BY <1>4, MutationsTakeNone
  <2>2. queue' = queue
    BY <1>4 DEF Acquire, Get, CompareAndSet, CommandFails, Release, dataVars
  <2>3. \/ told' = told
        \/ told' = Landed(call[c].arg)
        \/ told' = [told EXCEPT !.acked = @ \cup {call[c].arg}]
    BY <1>4 DEF Acquire, Get, CompareAndSet, CommandFails, Release
  <2>4. RedisQuiet
    BY <1>1, <2>3, RedisToldQuiet
  <2> QED  BY <2>1, <2>2, <2>4, RedisHandedUnchanged
<1> QED  BY <1>2, <1>3, <1>4

LEMMA SessionsHanded ==
  ASSUME RedisIInv, RedisHanded, NEW c \in Caller,
         \/ RedisLoad(c) \/ RedisSave(c) \/ RedisDelete(c) \/ DeleteSession(c)
         \/ RedisRestore(c) \/ Stage(c) \/ Publish(c)
  PROVE  RedisHanded'
<1>1. /\ told \in Tales /\ RedisCalling /\ None \in Arg /\ copy \in MaybeSession
      /\ Knows(call[c], told.landed)
  BY ArgParts DEF RedisIInv, RedisCalling, RedisStored
<1>2. CASE RedisLoad(c)
  BY <1>1, <1>2, RedisToldQuiet, RedisHandedUnchanged DEF RedisLoad, AtOnce, dataVars, RedisNobodyTakes
<1>3. CASE RedisSave(c)
  <2>1. copy.msgs \in SUBSET Msg
    BY <1>1, <1>3 DEF RedisSave, MaybeSession, Sessions
  <2>2. \E new \in SUBSET Msg : told' = Overwritten(copy.msgs, new)
    BY <1>3 DEF RedisSave
  <2>3. RedisQuiet
    BY <1>1, <2>1, <2>2, RedisToldQuiet
  <2> QED
    BY <1>3, <2>3, RedisHandedUnchanged DEF RedisSave, AtOnce, RedisNobodyTakes
<1>4. CASE RedisDelete(c)
  <2>1. "delete" \in Op /\ "unindex" \in Pc /\ "unindex" # "popped"
    BY DEF Op, Pc
  <2>2. Begin(c, "delete", None, "unindex") /\ told' = told /\ queue' = queue
    BY <1>4 DEF RedisDelete, dataVars
  <2> QED
    BY <1>1, <2>1, <2>2, TakesNoneAtStart, RedisToldQuiet, RedisHandedUnchanged
<1>5. CASE DeleteSession(c)
  BY <1>1, <1>5, TakesNoneAtEnd, RedisToldQuiet, RedisHandedUnchanged DEF DeleteSession
<1>6. CASE RedisRestore(c) \/ Stage(c)
  <2>1. told' = told /\ queue' = queue
    BY <1>6 DEF RedisRestore, Stage, dataVars
  <2> QED
    BY <1>1, <1>6, <2>1, MutationsTakeNone, RedisToldQuiet, RedisHandedUnchanged
<1>7. CASE Publish(c)
  <2>1. RedisNobodyTakes
    BY <1>1, <1>7, TakesNoneAtEnd DEF Publish
  <2>2. CASE UNCHANGED <<told, dataVars>>
    BY <1>1, <2>1, <2>2, RedisToldQuiet, RedisHandedUnchanged DEF dataVars
  <2>3. CASE session = None
    <3>1. PICK items \in SUBSET (Item \cap Fresh) :
            /\ queue' = items
            /\ told' = [Overwritten(call[c].seen.msgs, {}) EXCEPT !.used = @ \cup items]
      BY <1>7, <2>3 DEF Publish
    <3>2. RedisQuiet /\ items \subseteq told'.used
      BY <1>1, <3>1 DEF RedisQuiet, Overwritten, Tales
    <3> QED  BY <2>1, <3>1, <3>2, HandedNew
  <2> QED  BY <1>7, <2>2, <2>3 DEF Publish
<1> QED  BY <1>2, <1>3, <1>4, <1>5, <1>6, <1>7

LEMMA QueueOpHanded ==
  ASSUME RedisIInv, RedisHanded, NEW c \in Caller, QueueOp(c)
  PROVE  RedisHanded'
<1>1. told \in Tales /\ RedisCalling
  BY DEF RedisIInv, RedisStored
<1>2. RedisNobodyTakes
  <2>1. CASE Goto(c, Idle)
    BY <1>1, <2>1, TakesNoneAtEnd
  <2>2. CASE \E next \in Calls : Goto(c, next) /\ next.pc # "popped"
    BY <1>1, <2>2, TakesNone
  <2> QED  BY <2>1, <2>2, QueueOpGoes
<1>3. CASE Remove(c)
  <2>1. queue' = queue \ {call[c].arg}
    BY <1>3 DEF Remove
  <2>2. /\ told'.used = told.used /\ told'.given = told.given
        /\ told'.cancelled \subseteq told.cancelled \cup (queue \cap {call[c].arg})
    BY <1>1, <1>3 DEF Remove, Tales
  <2> QED  BY <1>2, <2>1, <2>2, RedisHandedStays
<1>4. CASE ~Remove(c)
  <2>1. told' = told /\ queue' \subseteq queue
    BY <1>4 DEF QueueOp, Unindex, UnindexItem, DeleteQueue, ReadItems, Entries,
                CheckSession, CheckItem, DropEntry, dataVars
  <2> QED  BY <1>2, <2>1, RedisHandedStays
<1> QED  BY <1>3, <1>4

LEMMA ReadersHanded ==
  ASSUME RedisIInv, RedisHanded, NEW c \in Caller,
         RedisCancel(c) \/ RedisReplace(c) \/ RedisCleanup(c)
  PROVE  RedisHanded'
<1>1. told \in Tales /\ RedisCalling /\ None \in Arg /\ index \subseteq Arg
  BY ArgParts DEF RedisIInv, RedisStored
<1>2. PICK op \in {"cancel", "replace", "cleanup"}, i \in Arg,
           p \in {"zrem", "zrange", "unindex", "entries"} : Begin(c, op, i, p)
  BY <1>1 DEF RedisCancel, RedisReplace, RedisCleanup
<1>3. op \in Op /\ p \in Pc /\ p # "popped"
  BY DEF Op, Pc
<1>4. told' = told /\ queue' = queue
  BY DEF RedisCancel, RedisReplace, RedisCleanup, dataVars
<1> QED
  BY <1>1, <1>2, <1>3, <1>4, TakesNoneAtStart, RedisToldQuiet, RedisHandedUnchanged

LEMMA WritersHanded ==
  ASSUME RedisIInv, RedisHanded, NEW c \in Caller,
         RedisEnqueue(c) \/ CancelDone(c) \/ Swap(c)
  PROVE  RedisHanded'
<1>1. told \in Tales /\ RedisCalling
  BY DEF RedisIInv, RedisStored
<1>2. CASE CancelDone(c)
  BY <1>1, <1>2, TakesNoneAtEnd, RedisToldQuiet, RedisHandedUnchanged DEF CancelDone
<1>3. CASE RedisEnqueue(c) \/ Swap(c)
  <2>1. RedisNobodyTakes
    <3>1. CASE RedisEnqueue(c)
      BY <3>1 DEF RedisEnqueue, AtOnce, RedisNobodyTakes
    <3> QED  BY <1>1, <1>3, <3>1, TakesNoneAtEnd DEF Swap
  <2>2. PICK items \in SUBSET (Item \cap Fresh) :
          queue' \subseteq queue \cup items /\ Use(items)
    <3>1. CASE RedisEnqueue(c)
      <4>1. PICK i \in Item \cap Fresh : queue' = queue \cup {i} /\ Use({i})
        BY <3>1 DEF RedisEnqueue
      <4>2. {i} \in SUBSET (Item \cap Fresh)
        OBVIOUS
      <4> QED  BY <4>1, <4>2
    <3>2. CASE Swap(c)
      BY <3>2 DEF Swap
    <3> QED  BY <1>3, <3>1, <3>2
  <2>3. items \in SUBSET (Msg \cup Item)
    OBVIOUS
  <2>4. RedisQuiet /\ items \subseteq told'.used
    BY <1>1, <2>2, <2>3, RedisToldQuiet DEF Use, Tales
  <2> QED  BY <2>1, <2>2, <2>4, HandedNew
<1> QED  BY <1>2, <1>3

LEMMA PopHanded ==
  ASSUME RedisIInv, RedisHanded, NEW c \in Caller, Pop(c)
  PROVE  RedisHanded'
<1>1. RedisCalling /\ queue \subseteq Arg
  BY ArgParts DEF RedisIInv, RedisStored
<1>2. PICK i \in queue : Begin(c, "dequeue", i, "popped") /\ queue' = queue \ {i}
  BY DEF Pop, Popped
<1> DEFINE next == [Idle EXCEPT !.op = "dequeue", !.arg = i, !.pc = "popped"]
<1>3. next.pc = "popped" /\ next.arg = i
  BY IdleTyped DEF Calls
<1>4. Goto(c, next) /\ told' = told
  BY <1>2 DEF Begin, Pop
<1> HIDE DEF next
<1>5. \A d \in Caller : call'[d] = IF d = c THEN next ELSE call[d]
  BY <1>1, <1>4 DEF RedisCalling, Goto
<1>6. \A d \in Caller : call[d].pc = "popped" => call[d].arg # i
  BY <1>2 DEF RedisHanded
<1>7. i \in told.used /\ i \notin told.given \cup told.cancelled
  BY <1>2 DEF RedisHanded
<1>8. /\ queue' \cup told'.given \cup told'.cancelled \subseteq told'.used
      /\ queue' \cap (told'.given \cup told'.cancelled) = {}
      /\ told'.given \cap told'.cancelled = {}
  BY <1>2, <1>4 DEF RedisHanded
<1>9. ASSUME NEW d \in Caller, call'[d].pc = "popped"
      PROVE  /\ call'[d].arg \in told'.used
             /\ call'[d].arg \notin queue' \cup told'.given \cup told'.cancelled
             /\ \A e \in Caller : call'[e].pc = "popped" /\ call'[e].arg = call'[d].arg
                                    => e = d
  BY <1>2, <1>3, <1>4, <1>5, <1>6, <1>7, <1>9 DEF RedisHanded
<1> QED  BY <1>8, <1>9 DEF RedisHanded

LEMMA GiveOutHanded ==
  ASSUME RedisIInv, RedisHanded, NEW c \in Caller, GiveOut(c)
  PROVE  RedisHanded'
<1>1. RedisCalling /\ told \in Tales
  BY DEF RedisIInv, RedisStored
<1> DEFINE i == call[c].arg
<1>2. call[c].pc = "popped" /\ Goto(c, Idle) /\ queue' = queue
  BY DEF GiveOut
<1>3. /\ told'.used = told.used /\ told'.given = told.given \cup {i}
      /\ told'.cancelled = told.cancelled
  BY <1>1 DEF GiveOut, Tales
<1>4. /\ i \in told.used /\ i \notin queue \cup told.given \cup told.cancelled
      /\ \A d \in Caller : call[d].pc = "popped" /\ call[d].arg = i => d = c
  BY <1>2 DEF RedisHanded
<1>5. \A d \in Caller : call'[d] = IF d = c THEN Idle ELSE call[d]
  BY <1>1, <1>2 DEF RedisCalling, Goto
<1>6. \A d \in Caller : call'[d].pc = "popped" =>
        d # c /\ call'[d] = call[d]
  BY <1>5 DEF Idle
<1> HIDE DEF i
<1> QED
  BY <1>2, <1>3, <1>4, <1>6 DEF RedisHanded

LEMMA LeaseExpiresHanded ==
  ASSUME RedisIInv, RedisHanded, LeaseExpires
  PROVE  RedisHanded'
<1>1. call \in [Caller -> Calls]
  BY DEF RedisIInv, RedisCalling
<1>2. RedisNobodyTakes
  <2>1. CASE lock \in Caller
    <3> DEFINE k == call[lock]
               next == [k EXCEPT !.lease = FALSE]
    <3>1. \A d \in Caller : call'[d] = IF d = lock THEN next ELSE call[d]
      BY <1>1, <2>1 DEF LeaseExpires, Goto
    <3>2. k \in Calls
      BY <1>1, <2>1
    <3> HIDE DEF k
    <3>3. next.pc = k.pc /\ next.arg = k.arg
      BY <3>2 DEF Calls
    <3> HIDE DEF next
    <3> QED  BY <3>1, <3>3 DEF RedisNobodyTakes, k
  <2>2. CASE lock \notin Caller
    BY <2>2 DEF LeaseExpires, RedisNobodyTakes
  <2> QED  BY <2>1, <2>2
<1>3. RedisQuiet /\ queue' = queue
  BY DEF LeaseExpires, dataVars, RedisQuiet
<1> QED  BY <1>2, <1>3, RedisHandedUnchanged

LEMMA SessionExpiresHanded ==
  ASSUME RedisIInv, RedisHanded, SessionExpires
  PROVE  RedisHanded'
<1>1. told \in Tales
  BY DEF RedisIInv, RedisStored
<1>2. RedisQuiet
  BY <1>1, RedisToldQuiet DEF SessionExpires
<1> QED
  BY <1>2, RedisHandedUnchanged DEF SessionExpires, RedisNobodyTakes

LEMMA InitHanded == RedisInit => RedisHanded
<1> SUFFICES ASSUME RedisInit PROVE RedisHanded
  OBVIOUS
<1>1. call = [c \in Caller |-> Idle] /\ queue = {}
  BY DEF RedisInit, InitClients
<1>2. \A c \in Caller : call[c].pc # "popped"
  BY <1>1 DEF Idle
<1>3. told.given = {} /\ told.cancelled = {}
  BY DEF RedisInit, InitClients
<1> QED  BY <1>1, <1>2, <1>3 DEF RedisHanded

LEMMA StepHanded == RedisIInv /\ RedisHanded /\ [RedisNext]_redisVars => RedisHanded'
<1> SUFFICES ASSUME RedisIInv, RedisHanded, RedisNext \/ UNCHANGED redisVars PROVE RedisHanded'
  OBVIOUS
<1>1. CASE UNCHANGED redisVars
  BY <1>1 DEF redisVars, RedisHanded
<1>2. CASE LeaseExpires
  BY <1>2, LeaseExpiresHanded
<1>3. CASE SessionExpires
  BY <1>3, SessionExpiresHanded
<1>4. ASSUME NEW c \in Caller,
             \/ RedisMutate(c) \/ Acquire(c) \/ AcquireFails(c) \/ Get(c)
             \/ CompareAndSet(c) \/ CommandFails(c) \/ Release(c) \/ Dropped(c)
      PROVE  RedisHanded'
  BY <1>4, MutationsHanded
<1>5. ASSUME NEW c \in Caller,
             \/ RedisLoad(c) \/ RedisSave(c) \/ RedisDelete(c) \/ DeleteSession(c)
             \/ RedisRestore(c) \/ Stage(c) \/ Publish(c)
      PROVE  RedisHanded'
  BY <1>5, SessionsHanded
<1>6. ASSUME NEW c \in Caller, QueueOp(c) PROVE RedisHanded'
  BY <1>6, QueueOpHanded
<1>7. ASSUME NEW c \in Caller,
             \/ RedisEnqueue(c) \/ Pop(c) \/ GiveOut(c) \/ CancelDone(c) \/ Swap(c)
      PROVE  RedisHanded'
  BY <1>7, WritersHanded, PopHanded, GiveOutHanded
<1>8. ASSUME NEW c \in Caller, RedisCancel(c) \/ RedisReplace(c) \/ RedisCleanup(c)
      PROVE  RedisHanded'
  BY <1>8, ReadersHanded
<1> QED
  BY <1>1, <1>2, <1>3, <1>4, <1>5, <1>6, <1>7, <1>8 DEF RedisNext, QueueOp

\* The hands that hold one item are at most one.
LEMMA RedisHandedPlaces == RedisIInv /\ RedisHanded => RedisHandedOnce
<1> SUFFICES ASSUME RedisIInv, RedisHanded, NEW i \in Item PROVE OnePlace(i, queue)
  BY DEF RedisHandedOnce
<1>1. \A c \in Caller : InHand(c, i) <=> call[c].pc = "popped" /\ call[c].arg = i
  BY DEF RedisIInv, RedisCalling, Knows, InHand
<1> DEFINE hands == {c \in Caller : InHand(c, i)}
<1>2. Cardinality(hands) <= 1
  <2>1. CASE hands = {}
    BY <2>1, FS_EmptySet
  <2>2. CASE hands # {}
    <3>1. PICK c \in Caller : InHand(c, i)
      BY <2>2
    <3>2. hands = {c}
      BY <1>1, <3>1 DEF RedisHanded
    <3>3. Cardinality({c}) = 1
      BY FS_Singleton
    <3> QED  BY <3>2, <3>3
  <2> QED  BY <2>1, <2>2
<1>3. i \in queue \/ i \in told.given \/ i \in told.cancelled
        => \A c \in Caller : ~InHand(c, i)
  BY <1>1 DEF RedisHanded
<1>4. /\ i \in queue => i \notin told.given \cup told.cancelled
      /\ i \notin told.given \cap told.cancelled
  BY DEF RedisHanded
<1> QED  BY <1>2, <1>3, <1>4 DEF OnePlace

\* However dequeues, cancellations, replacements, deletions, restores and the
\* cleanup overlap, and wherever they are dropped: an item is given out at most
\* once, and never after its cancellation was reported, nor the other way round.
THEOREM GivenOutOnce == RedisSpec => []RedisHandedOnce
  BY RedisInductive, InitHanded, StepHanded, RedisHandedPlaces, PTL DEF RedisSpec

-----------------------------------------------------------------------------
(***************************************************************************)
(* PostgreSQL                                                              *)
(***************************************************************************)

Status == {"absent", "pending", "processing", "cancelled"}

\* The fields that calls and tales have, whatever is in those that are not
\* about the queue.
Formed(k) ==
    k \in [op : {k.op}, pc : {k.pc}, arg : {k.arg}, seen : {k.seen},
           todo : {k.todo}, tries : {k.tries}, lease : {k.lease},
           result : {k.result}]

Tale(t) ==
    t \in [landed : {t.landed}, kept : {t.kept}, acked : {t.acked},
           used : {t.used}, given : {t.given}, cancelled : {t.cancelled}]

PgCalling ==
    /\ call = [c \in Caller |-> call[c]]
    /\ \A c \in Caller : Formed(call[c]) /\ (call[c].op = "dequeue" <=> call[c].pc = "taken")

\* Each item is pending, in one hand, given out or cancelled, or in none of
\* these places; and whatever is in one of them has been used.
PgHanded ==
    /\ Pending \cup told.given \cup told.cancelled \subseteq told.used
    /\ Pending \cap (told.given \cup told.cancelled) = {}
    /\ told.given \cap told.cancelled = {}
    /\ \A c \in Caller : call[c].pc = "taken" =>
         /\ call[c].arg \in told.used
         /\ call[c].arg \notin Pending \cup told.given \cup told.cancelled
         /\ \A d \in Caller : call[d].pc = "taken" /\ call[d].arg = call[c].arg
                                => d = c

PgIInv ==
    /\ PgCalling
    /\ Tale(told)
    /\ tuples \in [Item -> Status]
    /\ PgHanded

-----------------------------------------------------------------------------
(* How calls move on *)

LEMMA IdleFormed == Formed(Idle) /\ Idle.op = "none" /\ Idle.pc = "idle"
  BY DEF Idle, Formed

\* Nobody takes an item but by PgDequeue.
PgNobodyTakes ==
    \A d \in Caller : call'[d].pc = "taken"
                        => call[d].pc = "taken" /\ call'[d].arg = call[d].arg

LEMMA PgMoved ==
  ASSUME PgCalling, NEW c \in Caller, NEW next, Goto(c, next), Formed(next),
         next.op # "dequeue", next.pc # "taken"
  PROVE  PgCalling' /\ PgNobodyTakes
<1>1. \A d \in Caller : call'[d] = IF d = c THEN next ELSE call[d]
  BY DEF PgCalling, Goto
<1>2. call' = [d \in Caller |-> call'[d]]
  BY DEF PgCalling, Goto
<1> QED  BY <1>1, <1>2 DEF PgCalling, PgNobodyTakes

LEMMA PgReturns ==
  ASSUME PgCalling, NEW c \in Caller, Goto(c, Idle)
  PROVE  PgCalling' /\ PgNobodyTakes
  BY IdleFormed, PgMoved

LEMMA PgBegins ==
  ASSUME PgCalling, NEW c \in Caller, NEW op \in {"append", "load", "fork"}, NEW arg,
         NEW pc \in {"tx", "row"}, Begin(c, op, arg, pc)
  PROVE  PgCalling' /\ PgNobodyTakes
<1> DEFINE next == [Idle EXCEPT !.op = op, !.arg = arg, !.pc = pc]
<1>1. Formed(next) /\ next.op = op /\ next.pc = pc
  BY DEF Idle, Formed
<1>2. Goto(c, next)
  BY DEF Begin
<1> HIDE DEF next
<1> QED  BY <1>1, <1>2, PgMoved

\* A call goes on to another step of the same operation.
LEMMA PgGoesOn ==
  ASSUME PgCalling, NEW c \in Caller, call[c].op # "dequeue", NEW seen, NEW tries,
         NEW pc \in {"tx", "events", "write"},
         \/ Goto(c, [call[c] EXCEPT !.pc = pc, !.seen = seen])
         \/ Goto(c, [call[c] EXCEPT !.pc = pc, !.tries = tries])
  PROVE  PgCalling' /\ PgNobodyTakes
<1> DEFINE k == call[c]
<1>1. Formed(k) /\ k.op # "dequeue"
  BY DEF PgCalling
<1> HIDE DEF k
<1>2. PICK next : /\ Goto(c, next)
                  /\ \/ next = [k EXCEPT !.pc = pc, !.seen = seen]
                     \/ next = [k EXCEPT !.pc = pc, !.tries = tries]
  BY DEF k
<1>3. Formed(next) /\ next.op = k.op /\ next.pc = pc
  BY <1>1, <1>2 DEF Formed
<1> QED  BY <1>1, <1>2, <1>3, PgMoved

LEMMA RetriedMoves ==
  ASSUME PgCalling, NEW c \in Caller, call[c].pc = "tx", Goto(c, Retried(call[c]))
  PROVE  PgCalling' /\ PgNobodyTakes
<1>1. call[c].op # "dequeue"
  BY DEF PgCalling
<1>2. CASE Retried(call[c]) = Idle
  BY <1>2, PgReturns
<1>3. CASE Retried(call[c]) # Idle
  <2> DEFINE tries == call[c].tries + 1
  <2>1. Goto(c, [call[c] EXCEPT !.pc = "tx", !.tries = tries])
    BY <1>3 DEF Retried
  <2> HIDE DEF tries
  <2> QED  BY <1>1, <2>1, PgGoesOn
<1> QED  BY <1>2, <1>3

-----------------------------------------------------------------------------
(* What callers were told *)

\* Told nothing of items, but perhaps that more are used.
PgQuiet ==
    /\ Tale(told')
    /\ told.used \subseteq told'.used
    /\ told'.given = told.given
    /\ told'.cancelled = told.cancelled

LEMMA PgToldQuiet ==
  ASSUME Tale(told),
         \/ told' = told
         \/ told' = Gone
         \/ \E msgs, new : told' = Overwritten(msgs, new)
         \/ \E ids : Use(ids)
  PROVE  PgQuiet
<1>1. CASE told' = told \/ told' = Gone
  BY <1>1 DEF PgQuiet, Gone, Tale
<1>2. CASE \E msgs, new : told' = Overwritten(msgs, new)
  BY <1>2 DEF PgQuiet, Overwritten, Tale
<1>3. CASE \E ids : Use(ids)
  BY <1>3 DEF PgQuiet, Use, Tale
<1> QED  BY <1>1, <1>2, <1>3

LEMMA PgHandedStays ==
  ASSUME PgIInv, PgCalling', PgNobodyTakes, PgQuiet, tuples' \in [Item -> Status],
         NEW items, items \cap told.used = {}, items \subseteq told'.used,
         Pending' \subseteq Pending \cup items
  PROVE  PgIInv'
<1>1. PgHanded'
  BY DEF PgIInv, PgHanded, PgNobodyTakes, PgQuiet
<1> QED  BY <1>1 DEF PgIInv, PgQuiet

LEMMA PgHandedUnchanged ==
  ASSUME PgIInv, PgCalling', PgNobodyTakes, PgQuiet, tuples' = tuples
  PROVE  PgIInv'
<1>1. tuples' \in [Item -> Status] /\ Pending' \subseteq Pending \cup {}
  BY DEF PgIInv, Pending
<1>2. {} \cap told.used = {} /\ {} \subseteq told'.used
  OBVIOUS
<1> QED  BY <1>1, <1>2, PgHandedStays

-----------------------------------------------------------------------------
(* The actions *)

LEMMA AppendTxKeeps ==
  ASSUME PgIInv, NEW c \in Caller, AppendTx(c)
  PROVE  PgIInv'
<1> DEFINE k == call[c]
           kept == told.kept \cap Lineage(events', k.arg)
           landed == IF k.arg \in told.landed THEN [told EXCEPT !.kept = kept]
                                              ELSE Landed(k.arg)
<1>1. PgCalling /\ Tale(told)
  BY DEF PgIInv
<1>2. /\ k.pc = "tx" /\ tuples' = tuples
      /\ \/ Goto(c, Idle) /\ told' = [landed EXCEPT !.acked = @ \cup {k.arg}]
         \/ Goto(c, Retried(k)) /\ told' = landed
  BY DEF AppendTx
<1>3. PgCalling' /\ PgNobodyTakes
  BY <1>1, <1>2, PgReturns, RetriedMoves
<1>4. PgQuiet
  <2>1. /\ Tale(Landed(k.arg)) /\ Landed(k.arg).used = told.used
        /\ Landed(k.arg).given = told.given
        /\ Landed(k.arg).cancelled = told.cancelled
    BY <1>1 DEF Tale, Landed
  <2> HIDE DEF k, kept
  <2>2. /\ Tale(landed) /\ landed.used = told.used /\ landed.given = told.given
        /\ landed.cancelled = told.cancelled
    BY <1>1, <2>1 DEF Tale
  <2> HIDE DEF landed
  <2> QED  BY <1>2, <2>2 DEF PgQuiet, Tale
<1> QED  BY <1>2, <1>3, <1>4, PgHandedUnchanged

\* The actions that leave the queue as it is.
LEMMA OthersKeep ==
  ASSUME PgIInv, NEW c \in Caller,
         \/ PgAppend(c) \/ AppendFails(c) \/ PgFinalize(c) \/ PgLoad(c)
         \/ ReadRow(c) \/ ReadEvents(c) \/ PgFork(c) \/ ForkWrite(c)
         \/ PgSave(c) \/ PgDropped(c)
  PROVE  PgIInv'
<1>1. PgCalling /\ Tale(told)
  BY DEF PgIInv
<1>2. PgQuiet
  BY <1>1, PgToldQuiet
     DEF PgAppend, AppendFails, PgFinalize, PgLoad, ReadRow, ReadEvents, PgFork,
         ForkWrite, Write, PgSave, PgDropped
<1>3. tuples' = tuples
  BY DEF PgAppend, AppendFails, PgFinalize, PgLoad, ReadRow, ReadEvents, PgFork,
         ForkWrite, PgSave, PgDropped
<1>4. CASE PgAppend(c) \/ PgLoad(c) \/ PgFork(c)
  <2>1. PgCalling' /\ PgNobodyTakes
    <3>1. CASE PgAppend(c)
      <4>1. PICK m \in Msg : Begin(c, "append", m, "tx")
        BY <3>1 DEF PgAppend
      <4> QED  BY <1>1, <4>1, PgBegins
    <3>2. CASE PgLoad(c)
      <4>1. Begin(c, "load", None, "row")
        BY <3>2 DEF PgLoad
      <4> QED  BY <1>1, <4>1, PgBegins
    <3>3. CASE PgFork(c)
      <4>1. Begin(c, "fork", None, "row")
        BY <3>3 DEF PgFork
      <4> QED  BY <1>1, <4>1, PgBegins
    <3> QED  BY <1>4, <3>1, <3>2, <3>3
  <2> QED  BY <1>2, <1>3, <2>1, PgHandedUnchanged
<1>5. CASE AppendFails(c)
  <2>1. call[c].pc = "tx" /\ (Goto(c, Idle) \/ Goto(c, Retried(call[c])))
    BY <1>5 DEF AppendFails
  <2> QED  BY <1>1, <1>2, <1>3, <2>1, PgReturns, RetriedMoves, PgHandedUnchanged
<1>6. CASE ReadRow(c) \/ ReadEvents(c)
  <2>1. call[c].op # "dequeue"
    BY <1>1, <1>6 DEF PgCalling, ReadRow, ReadEvents
  <2>2. CASE Goto(c, Idle)
    BY <1>1, <1>2, <1>3, <2>2, PgReturns, PgHandedUnchanged
  <2>3. CASE ReadRow(c) /\ ~Goto(c, Idle)
    <3>1. Goto(c, [call[c] EXCEPT !.pc = "events", !.seen = row])
      BY <2>3 DEF ReadRow
    <3>2. PgCalling' /\ PgNobodyTakes
      BY <1>1, <2>1, <3>1, PgGoesOn
    <3> QED  BY <1>2, <1>3, <3>2, PgHandedUnchanged
  <2>4. CASE ReadEvents(c) /\ ~Goto(c, Idle)
    <3> DEFINE s == [state |-> call[c].seen.state, events |-> events]
    <3>1. Goto(c, [call[c] EXCEPT !.pc = "write", !.seen = s])
      BY <2>4 DEF ReadEvents
    <3> HIDE DEF s
    <3>2. PgCalling' /\ PgNobodyTakes
      BY <1>1, <2>1, <3>1, PgGoesOn
    <3> QED  BY <1>2, <1>3, <3>2, PgHandedUnchanged
  <2> QED  BY <1>6, <2>2, <2>3, <2>4
<1>7. CASE ForkWrite(c) \/ PgDropped(c)
  <2>1. Goto(c, Idle)
    BY <1>7 DEF ForkWrite, PgDropped
  <2> QED  BY <1>1, <1>2, <1>3, <2>1, PgReturns, PgHandedUnchanged
<1>8. CASE PgFinalize(c) \/ PgSave(c)
  <2>1. call' = call
    BY <1>8 DEF PgFinalize, PgSave, AtOnce
  <2>2. PgCalling' /\ PgNobodyTakes
    BY <1>1, <2>1 DEF PgCalling, PgNobodyTakes
  <2> QED  BY <1>2, <1>3, <2>2, PgHandedUnchanged
<1> QED  BY <1>4, <1>5, <1>6, <1>7, <1>8

\* The actions that delete items, or put new ones in their place.
LEMMA ReplacersKeep ==
  ASSUME PgIInv, NEW c \in Caller,
         PgDelete(c) \/ PgRestore(c) \/ PgEnqueue(c) \/ PgReplace(c)
  PROVE  PgIInv'
<1>1. Tale(told) /\ tuples \in [Item -> Status]
  BY DEF PgIInv
<1>2. PgCalling' /\ PgNobodyTakes
  BY DEF PgIInv, PgCalling, PgNobodyTakes, AtOnce, PgDelete, PgRestore, PgEnqueue, PgReplace
<1>3. CASE PgDelete(c)
  <2>1. PgQuiet
    BY <1>1, <1>3, PgToldQuiet DEF PgDelete
  <2>2. tuples' \in [Item -> Status] /\ Pending' = {}
    BY <1>3 DEF PgDelete, Pending, Status
  <2>3. {} \cap told.used = {} /\ {} \subseteq told'.used
    OBVIOUS
  <2> QED  BY <1>2, <2>1, <2>2, <2>3, PgHandedStays
<1>4. CASE PgRestore(c) \/ PgEnqueue(c) \/ PgReplace(c)
  <2>1. PICK items \in SUBSET (Item \cap Fresh) :
           /\ \/ tuples' = [i \in Item |-> IF i \in items THEN "pending" ELSE "absent"]
              \/ \E i \in items : tuples' = [tuples EXCEPT ![i] = "pending"]
           /\ PgQuiet
           /\ items \subseteq told'.used
    <3>1. CASE PgRestore(c)
      <4>1. PICK items \in SUBSET (Item \cap Fresh) :
              /\ tuples' = [i \in Item |-> IF i \in items THEN "pending" ELSE "absent"]
              /\ told' = [Overwritten(MsgsIn(copy.events), {}) EXCEPT !.used = @ \cup items]
        BY <3>1 DEF PgRestore
      <4>2. PgQuiet /\ items \subseteq told'.used
        BY <1>1, <4>1 DEF PgQuiet, Overwritten, Tale
      <4> QED  BY <4>1, <4>2
    <3>2. CASE PgEnqueue(c)
      <4>1. PICK i \in Item \cap Fresh :
              tuples' = [tuples EXCEPT ![i] = "pending"] /\ Use({i})
        BY <3>2 DEF PgEnqueue
      <4>2. PgQuiet /\ {i} \subseteq told'.used
        BY <1>1, <4>1, PgToldQuiet DEF Use, Tale
      <4>3. {i} \in SUBSET (Item \cap Fresh)
        OBVIOUS
      <4> QED  BY <4>1, <4>2, <4>3
    <3>3. CASE PgReplace(c)
      <4>1. PICK items \in SUBSET (Item \cap Fresh) :
              /\ tuples' = [i \in Item |-> IF i \in items THEN "pending" ELSE "absent"]
              /\ Use(items)
        BY <3>3 DEF PgReplace
      <4>2. PgQuiet /\ items \subseteq told'.used
        BY <1>1, <4>1, PgToldQuiet DEF Use, Tale
      <4> QED  BY <4>1, <4>2
    <3> QED  BY <1>4, <3>1, <3>2, <3>3
  <2>2. tuples' \in [Item -> Status] /\ Pending' \subseteq Pending \cup items
    BY <1>1, <2>1 DEF Pending, Status
  <2>3. items \cap told.used = {}
    BY DEF Fresh
  <2> QED  BY <1>2, <2>1, <2>2, <2>3, PgHandedStays
<1> QED  BY <1>3, <1>4

LEMMA PgCancelKeeps ==
  ASSUME PgIInv, NEW c \in Caller, PgCancel(c)
  PROVE  PgIInv'
<1>1. PICK i \in Pending :
        /\ tuples' = [tuples EXCEPT ![i] = "cancelled"]
        /\ told' = [told EXCEPT !.cancelled = @ \cup {i}]
  BY DEF PgCancel
<1>2. /\ Tale(told') /\ told'.used = told.used /\ told'.given = told.given
      /\ told'.cancelled = told.cancelled \cup {i}
  BY <1>1 DEF PgIInv, Tale
<1>3. tuples' \in [Item -> Status] /\ Pending' = Pending \ {i}
  BY <1>1 DEF PgIInv, Pending, Status
<1>4. call' = call
  BY DEF PgCancel, AtOnce
<1>5. PgHanded'
  BY <1>2, <1>3, <1>4 DEF PgIInv, PgHanded
<1>6. PgCalling'
  BY <1>4 DEF PgIInv, PgCalling
<1> QED  BY <1>2, <1>3, <1>5, <1>6 DEF PgIInv

LEMMA PgDequeueKeeps ==
  ASSUME PgIInv, NEW c \in Caller, PgDequeue(c)
  PROVE  PgIInv'
<1>1. PICK i \in Pending : /\ Begin(c, "dequeue", i, "taken")
                           /\ tuples' = [tuples EXCEPT ![i] = "processing"]
  BY DEF PgDequeue
<1> DEFINE next == [Idle EXCEPT !.op = "dequeue", !.arg = i, !.pc = "taken"]
<1>2. Formed(next) /\ next.op = "dequeue" /\ next.pc = "taken" /\ next.arg = i
  BY DEF Idle, Formed
<1>3. Goto(c, next) /\ told' = told
  BY <1>1 DEF Begin, PgDequeue
<1> HIDE DEF next
<1>4. /\ \A d \in Caller : call'[d] = IF d = c THEN next ELSE call[d]
      /\ call' = [d \in Caller |-> call'[d]]
  BY <1>3 DEF PgIInv, PgCalling, Goto
<1>5. PgCalling'
  BY <1>2, <1>4 DEF PgIInv, PgCalling
<1>6. tuples' \in [Item -> Status] /\ Pending' = Pending \ {i}
  BY <1>1 DEF PgIInv, Pending, Status
<1>7. /\ i \in told.used /\ i \notin told.given \cup told.cancelled
      /\ \A d \in Caller : call[d].pc = "taken" => call[d].arg # i
  BY <1>1 DEF PgIInv, PgHanded
<1>8. ASSUME NEW d \in Caller, call'[d].pc = "taken"
      PROVE  /\ call'[d].arg \in told'.used
             /\ call'[d].arg \notin Pending' \cup told'.given \cup told'.cancelled
             /\ \A e \in Caller : call'[e].pc = "taken" /\ call'[e].arg = call'[d].arg
                                    => e = d
  BY <1>2, <1>3, <1>4, <1>6, <1>7, <1>8 DEF PgIInv, PgHanded
<1>9. PgHanded'
  BY <1>3, <1>6, <1>8 DEF PgIInv, PgHanded
<1> QED  BY <1>3, <1>5, <1>6, <1>9 DEF PgIInv

LEMMA PgGiveOutKeeps ==
  ASSUME PgIInv, NEW c \in Caller, PgGiveOut(c)
  PROVE  PgIInv'
<1> DEFINE i == call[c].arg
<1>1. call[c].pc = "taken" /\ Goto(c, Idle) /\ tuples' = tuples
  BY DEF PgGiveOut
<1>2. /\ Tale(told') /\ told'.used = told.used
      /\ told'.given = told.given \cup {i} /\ told'.cancelled = told.cancelled
  BY DEF PgIInv, PgGiveOut, Tale
<1>3. /\ i \in told.used /\ i \notin Pending \cup told.given \cup told.cancelled
      /\ \A d \in Caller : call[d].pc = "taken" /\ call[d].arg = i => d = c
  BY <1>1 DEF PgIInv, PgHanded
<1>4. PgCalling' /\ PgNobodyTakes
  BY <1>1, PgReturns DEF PgIInv
<1>5. Pending' = Pending
  BY <1>1 DEF Pending
<1>6. call'[c].pc # "taken"
  BY <1>1 DEF PgIInv, PgCalling, Goto, Idle
<1> HIDE DEF i
<1>7. PgHanded'
  BY <1>2, <1>3, <1>4, <1>5, <1>6 DEF PgIInv, PgHanded, PgNobodyTakes
<1> QED  BY <1>1, <1>2, <1>4, <1>7 DEF PgIInv

-----------------------------------------------------------------------------
(* Every step *)

LEMMA PgInitInv == PgInit => PgIInv
<1> SUFFICES ASSUME PgInit PROVE PgIInv
  OBVIOUS
<1>1. call = [c \in Caller |-> Idle]
  BY DEF PgInit, InitClients
<1>2. PgCalling /\ \A c \in Caller : call[c].pc # "taken"
  BY <1>1, IdleFormed DEF PgCalling
<1>3. PICK used \in Spent :
         told = [landed |-> {}, kept |-> {}, acked |-> {}, used |-> used,
                 given |-> {}, cancelled |-> {}]
  BY DEF PgInit, InitClients
<1>4. Tale(told) /\ told.given = {} /\ told.cancelled = {}
  BY <1>3 DEF Tale
<1>5. tuples \in [Item -> Status] /\ Pending = {}
  BY DEF PgInit, Pending, Status
<1> QED  BY <1>2, <1>4, <1>5 DEF PgIInv, PgHanded

LEMMA PgStepInv == PgIInv /\ [PgNext]_pgVars => PgIInv'
<1> SUFFICES ASSUME PgIInv, PgNext \/ UNCHANGED pgVars PROVE PgIInv'
  OBVIOUS
<1>1. CASE UNCHANGED pgVars
  BY <1>1 DEF pgVars, PgIInv, PgCalling, PgHanded, Pending
<1>2. ASSUME NEW c \in Caller,
             \/ PgAppend(c) \/ AppendTx(c) \/ AppendFails(c) \/ PgFinalize(c)
             \/ PgLoad(c) \/ ReadRow(c) \/ ReadEvents(c) \/ PgFork(c)
             \/ ForkWrite(c) \/ PgSave(c) \/ PgDropped(c)
      PROVE  PgIInv'
  BY <1>2, AppendTxKeeps, OthersKeep
<1>3. ASSUME NEW c \in Caller,
             \/ PgDelete(c) \/ PgRestore(c) \/ PgEnqueue(c) \/ PgReplace(c)
             \/ PgDequeue(c) \/ PgGiveOut(c) \/ PgCancel(c)
      PROVE  PgIInv'
  BY <1>3, ReplacersKeep, PgDequeueKeeps, PgGiveOutKeeps, PgCancelKeeps
<1> QED  BY <1>1, <1>2, <1>3 DEF PgNext

\* The callers that have one item in hand are at most one.
LEMMA PgHandedPlaces == PgIInv => PgHandedOnce
<1> SUFFICES ASSUME PgIInv, NEW i \in Item PROVE OnePlace(i, Pending)
  BY DEF PgHandedOnce
<1>1. \A c \in Caller : InHand(c, i) <=> call[c].pc = "taken" /\ call[c].arg = i
  BY DEF PgIInv, PgCalling, InHand
<1> DEFINE hands == {c \in Caller : InHand(c, i)}
<1>2. Cardinality(hands) <= 1
  <2>1. CASE hands = {}
    BY <2>1, FS_EmptySet
  <2>2. CASE hands # {}
    <3>1. PICK c \in Caller : InHand(c, i)
      BY <2>2
    <3>2. hands = {c}
      BY <1>1, <3>1 DEF PgIInv, PgHanded
    <3>3. Cardinality({c}) = 1
      BY FS_Singleton
    <3> QED  BY <3>2, <3>3
  <2> QED  BY <2>1, <2>2
<1>3. i \in Pending \/ i \in told.given \/ i \in told.cancelled
        => \A c \in Caller : ~InHand(c, i)
  BY <1>1 DEF PgIInv, PgHanded
<1>4. /\ i \in Pending => i \notin told.given \cup told.cancelled
      /\ i \notin told.given \cap told.cancelled
  BY DEF PgIInv, PgHanded
<1> QED  BY <1>2, <1>3, <1>4 DEF OnePlace

\* However dequeues, cancellations, replacements, deletions and restores
\* overlap, replies get lost and calls are dropped: an item is given out at most
\* once, and never both given out and cancelled
\* (src/src/session/persistence_postgres.rs).
THEOREM PgGivenOutOnce == PgSpec => []PgHandedOnce
  BY PgInitInv, PgStepInv, PgHandedPlaces, PTL DEF PgSpec

-----------------------------------------------------------------------------
(* Lists of events *)

\* The rank of a place among the places in P: 1 for the first, and so on.
Rank(P, n) == Cardinality({m \in P : m <= n})

\* Each of the ranks from 1 to the number of places belongs to one place.
LEMMA Ranks ==
  ASSUME NEW N \in Nat, NEW P \in SUBSET (1..N)
  PROVE  /\ Cardinality(P) \in Nat
         /\ \A n \in P : Rank(P, n) \in 1..Cardinality(P)
         /\ \A i \in 1..Cardinality(P) : \E n \in P : Rank(P, n) = i
         /\ \A m, n \in P : Rank(P, m) = Rank(P, n) => m = n
<1>1. IsFiniteSet(P) /\ Cardinality(P) \in Nat
  <2>1. IsFiniteSet(1..N)
    BY FS_Interval
  <2>2. IsFiniteSet(P)
    BY <2>1, FS_Subset
  <2> QED  BY <2>2, FS_CardinalityType
<1> DEFINE upto(n) == {m \in P : m <= n}
<1>2. ASSUME NEW n \in P
      PROVE  /\ IsFiniteSet(upto(n))
             /\ Rank(P, n) \in 1..Cardinality(P)
  <2>1. /\ IsFiniteSet(upto(n)) /\ Cardinality(upto(n)) <= Cardinality(P)
        /\ Cardinality(upto(n)) \in Nat
    BY <1>1, FS_Subset, FS_CardinalityType
  <2>2. n \in upto(n)
    OBVIOUS
  <2>3. Cardinality(upto(n)) # 0
    BY <2>1, <2>2, FS_EmptySet
  <2> QED  BY <1>1, <2>1, <2>3 DEF Rank
<1>3. ASSUME NEW m \in P, NEW n \in P, m < n
      PROVE  Rank(P, m) < Rank(P, n)
  <2>1. upto(m) \in SUBSET upto(n) /\ n \in upto(n) /\ n \notin upto(m)
    <3>1. P \subseteq Int /\ m \in Int /\ n \in Int
      OBVIOUS
    <3>2. \A x \in P : x <= m => x <= n
      BY <1>3, <3>1
    <3>3. n <= n /\ ~(n <= m)
      BY <1>3, <3>1
    <3> QED  BY <3>2, <3>3
  <2>2. IsFiniteSet(upto(n)) /\ IsFiniteSet(upto(m))
    BY <1>2
  <2> DEFINE A == upto(m)
             B == upto(n)
  <2>3. Cardinality(A) <= Cardinality(B) /\ Cardinality(A) # Cardinality(B)
    <3>1. A \in SUBSET B /\ A # B /\ IsFiniteSet(B)
      BY <2>1, <2>2
    <3> HIDE DEF A, B
    <3> QED  BY <3>1, FS_Subset
  <2>4. Cardinality(upto(m)) \in Nat /\ Cardinality(upto(n)) \in Nat
    BY <2>2, FS_CardinalityType
  <2>5. Rank(P, m) = Cardinality(upto(m)) /\ Rank(P, n) = Cardinality(upto(n))
    BY DEF Rank
  <2> HIDE DEF upto
  <2> QED  BY <2>3, <2>4, <2>5
<1>4. \A m, n \in P : Rank(P, m) = Rank(P, n) => m = n
  <2> SUFFICES ASSUME NEW m \in P, NEW n \in P, Rank(P, m) = Rank(P, n), m # n PROVE FALSE
    OBVIOUS
  <2>1. m < n \/ n < m
    OBVIOUS
  <2>2. Rank(P, m) \in 1..Cardinality(P) /\ Rank(P, n) \in 1..Cardinality(P)
    BY <1>2
  <2> QED  BY <1>1, <1>3, <2>1, <2>2
<1> DEFINE rank == [n \in P |-> Rank(P, n)]
           R == 1..Cardinality(P)
<1>5. rank \in Injection(P, R)
  BY <1>2, <1>4 DEF Injection, IsInjective
<1>6. IsFiniteSet(R) /\ Cardinality(R) = Cardinality(P)
  BY <1>1, FS_Interval
<1>7. rank \in Surjection(P, R)
  BY <1>5, <1>6, FS_Injection
<1>8. \A i \in R : \E n \in P : Rank(P, n) = i
  BY <1>7 DEF Surjection
<1> QED  BY <1>1, <1>2, <1>4, <1>8

\* Picked has the elements at the places in P, and no others.
LEMMA PickedHas ==
  ASSUME NEW T, NEW s \in Seq(T), NEW P \in SUBSET DOMAIN s
  PROVE  /\ Picked(s, P) \in Seq(T)
         /\ \A i \in DOMAIN Picked(s, P) : \E n \in P : Picked(s, P)[i] = s[n]
         /\ \A n \in P : \E i \in DOMAIN Picked(s, P) : Picked(s, P)[i] = s[n]
<1>1. Len(s) \in Nat /\ P \in SUBSET (1..Len(s))
  OBVIOUS
<1>2. /\ Cardinality(P) \in Nat
      /\ \A n \in P : Rank(P, n) \in 1..Cardinality(P)
      /\ \A i \in 1..Cardinality(P) : \E n \in P : Rank(P, n) = i
      /\ \A m, n \in P : Rank(P, m) = Rank(P, n) => m = n
  BY <1>1, Ranks
<1> DEFINE at(i) == CHOOSE n \in P : Rank(P, n) = i
<1>3. Picked(s, P) = [i \in 1..Cardinality(P) |-> s[at(i)]]
  BY DEF Picked, Rank
<1>4. \A i \in 1..Cardinality(P) : at(i) \in P /\ Rank(P, at(i)) = i
  BY <1>2
<1> HIDE DEF at
<1>5. \A i \in 1..Cardinality(P) : Picked(s, P)[i] = s[at(i)]
  BY <1>3
<1>6. DOMAIN Picked(s, P) = 1..Cardinality(P)
  BY <1>3
<1>7. Picked(s, P) \in Seq(T)
  BY <1>1, <1>2, <1>3, <1>4
<1>8. ASSUME NEW n \in P PROVE \E i \in DOMAIN Picked(s, P) : Picked(s, P)[i] = s[n]
  <2>1. at(Rank(P, n)) = n
    BY <1>2, <1>4
  <2> QED  BY <1>2, <1>5, <1>6, <2>1
<1> QED  BY <1>4, <1>5, <1>6, <1>7, <1>8

LEMMA PickedNone ==
  ASSUME NEW s PROVE Picked(s, {}) = << >>
  BY FS_EmptySet DEF Picked

LEMMA PickedOne ==
  ASSUME NEW T, NEW s \in Seq(T), NEW n \in DOMAIN s PROVE Picked(s, {n}) = << s[n] >>
<1> DEFINE at(i) == CHOOSE o \in {n} : Rank({n}, o) = i
<1>1. Cardinality({n}) = 1
  BY FS_Singleton
<1>2. {m \in {n} : m <= n} = {n}
  OBVIOUS
<1>3. Picked(s, {n}) = [i \in 1..1 |-> s[at(i)]]
  BY <1>1 DEF Picked, Rank
<1>4. \A i \in 1..1 : at(i) = n
  BY <1>1, <1>2 DEF Rank
<1> HIDE DEF at
<1> QED  BY <1>3, <1>4

Event == [msg : Msg, parent : Msg \cup {None}, try : Nat]

ParentsIn(evs) == {evs[n].parent : n \in DOMAIN evs}

\* What is added to a list of events is all that is new in it.
LEMMA Appended ==
  ASSUME NEW evs \in Seq(Event), NEW e \in Event
  PROVE  /\ Append(evs, e) \in Seq(Event)
         /\ DOMAIN Append(evs, e) = DOMAIN evs \cup {Len(evs) + 1}
         /\ Len(evs) + 1 \notin DOMAIN evs /\ Len(evs) \in Nat
         /\ \A n \in DOMAIN evs : Append(evs, e)[n] = evs[n] /\ n < Len(evs) + 1
         /\ Append(evs, e)[Len(evs) + 1] = e
         /\ HeadIn(Append(evs, e)) = e.msg
  BY DEF HeadIn

LEMMA AppendedSets ==
  ASSUME NEW evs \in Seq(Event), NEW e \in Event
  PROVE  /\ MsgsIn(Append(evs, e)) = MsgsIn(evs) \cup {e.msg}
         /\ ParentsIn(Append(evs, e)) = ParentsIn(evs) \cup {e.parent}
         /\ Ids(Append(evs, e)) = Ids(evs) \cup {<<e.msg, e.try>>}
<1> DEFINE N == Len(evs) + 1
           all == Append(evs, e)
<1>1. /\ DOMAIN all = DOMAIN evs \cup {N} /\ all[N] = e
      /\ \A n \in DOMAIN evs : all[n] = evs[n]
  BY Appended
<1> HIDE DEF N, all
<1>2. MsgsIn(all) = MsgsIn(evs) \cup {e.msg}
  BY <1>1 DEF MsgsIn
<1>3. ParentsIn(all) = ParentsIn(evs) \cup {e.parent}
  BY <1>1 DEF ParentsIn
<1>4. Ids(all) = Ids(evs) \cup {<<e.msg, e.try>>}
  BY <1>1 DEF Ids
<1> QED  BY <1>2, <1>3, <1>4 DEF all

\* What INSERT ... ON CONFLICT DO NOTHING leaves in the table.
LEMMA InsertedHas ==
  ASSUME NEW evs \in Seq(Event), NEW more \in Seq(Event)
  PROVE  /\ Inserted(evs, more) \in Seq(Event)
         /\ MsgsIn(Inserted(evs, more)) = MsgsIn(evs) \cup MsgsIn(more)
         /\ ParentsIn(Inserted(evs, more)) \subseteq ParentsIn(evs) \cup ParentsIn(more)
         /\ Ids(more) \subseteq Ids(Inserted(evs, more))
<1> DEFINE P == {n \in DOMAIN more : <<more[n].msg, more[n].try>> \notin Ids(evs)}
           new == Picked(more, P)
           all == evs \o new
<1>2. Inserted(evs, more) = all
  BY DEF Inserted
<1>3. P \in SUBSET DOMAIN more
  OBVIOUS
<1>4. \A n \in DOMAIN more : n \notin P => <<more[n].msg, more[n].try>> \in Ids(evs)
  OBVIOUS
<1> HIDE DEF P
<1>1. /\ new \in Seq(Event)
      /\ \A i \in DOMAIN new : \E n \in P : new[i] = more[n]
      /\ \A n \in P : \E i \in DOMAIN new : new[i] = more[n]
  BY <1>3, PickedHas
<1> HIDE DEF new
<1>5. /\ all \in Seq(Event) /\ Len(evs) \in Nat /\ Len(new) \in Nat
      /\ Len(all) = Len(evs) + Len(new)
      /\ DOMAIN all = 1..Len(all) /\ DOMAIN evs = 1..Len(evs) /\ DOMAIN new = 1..Len(new)
      /\ \A n \in 1..Len(evs) : all[n] = evs[n]
      /\ \A n \in 1..Len(new) : all[Len(evs) + n] = new[n]
      /\ \A n \in 1..Len(all) : n > Len(evs) => n - Len(evs) \in 1..Len(new) /\ all[n] = new[n - Len(evs)]
  BY <1>1
<1> HIDE DEF all
<1>6. \A n \in DOMAIN all : \/ n \in DOMAIN evs /\ all[n] = evs[n]
                            \/ \E i \in P : all[n] = more[i]
  <2> SUFFICES ASSUME NEW n \in DOMAIN all
               PROVE  \/ n \in DOMAIN evs /\ all[n] = evs[n]
                      \/ \E i \in P : all[n] = more[i]
    OBVIOUS
  <2>1. CASE n <= Len(evs)
    BY <1>5, <2>1
  <2>2. CASE n > Len(evs)
    <3>1. n - Len(evs) \in DOMAIN new /\ all[n] = new[n - Len(evs)]
      BY <1>5, <2>2
    <3> QED  BY <1>1, <3>1
  <2> QED  BY <1>5, <2>1, <2>2
<1>7. \A n \in DOMAIN evs : n \in DOMAIN all /\ all[n] = evs[n]
  BY <1>5
<1>8. \A n \in P : \E i \in DOMAIN all : all[i] = more[n]
  <2> SUFFICES ASSUME NEW n \in P PROVE \E i \in DOMAIN all : all[i] = more[n]
    OBVIOUS
  <2>1. PICK i \in 1..Len(new) : new[i] = more[n]
    BY <1>1, <1>5
  <2>2. Len(evs) + i \in DOMAIN all /\ all[Len(evs) + i] = more[n]
    BY <1>5, <2>1
  <2> QED  BY <2>2
<1>9. \A n \in DOMAIN more : n \notin P =>
        \E i \in DOMAIN evs : evs[i].msg = more[n].msg /\ evs[i].try = more[n].try
  BY <1>4 DEF Ids
<1>10. MsgsIn(all) = MsgsIn(evs) \cup MsgsIn(more)
  <2>1. MsgsIn(all) \subseteq MsgsIn(evs) \cup MsgsIn(more)
    BY <1>3, <1>6 DEF MsgsIn
  <2>2. MsgsIn(evs) \subseteq MsgsIn(all)
    BY <1>7 DEF MsgsIn
  <2>3. ASSUME NEW n \in DOMAIN more PROVE \E i \in DOMAIN all : all[i].msg = more[n].msg
    BY <1>7, <1>8, <1>9
  <2> QED  BY <2>1, <2>2, <2>3 DEF MsgsIn
<1>11. ParentsIn(all) \subseteq ParentsIn(evs) \cup ParentsIn(more)
  BY <1>3, <1>6 DEF ParentsIn
<1>12. Ids(more) \subseteq Ids(all)
  <2>1. ASSUME NEW n \in DOMAIN more
        PROVE \E i \in DOMAIN all : all[i].msg = more[n].msg /\ all[i].try = more[n].try
    BY <1>7, <1>8, <1>9
  <2> QED  BY <2>1 DEF Ids
<1> QED  BY <1>2, <1>5, <1>10, <1>11, <1>12

LEMMA InsertedNothing ==
  ASSUME NEW evs \in Seq(Event), NEW more \in Seq(Event), Ids(more) \subseteq Ids(evs)
  PROVE  Inserted(evs, more) = evs
<1>1. {n \in DOMAIN more : <<more[n].msg, more[n].try>> \notin Ids(evs)} = {}
  BY DEF Ids
<1>2. Inserted(evs, more) = evs \o << >>
  BY <1>1, PickedNone DEF Inserted
<1> QED  BY <1>2

LEMMA InsertedLast ==
  ASSUME NEW evs \in Seq(Event), NEW more \in Seq(Event), NEW e \in Event,
         Ids(more) \subseteq Ids(evs), e.msg \notin MsgsIn(evs)
  PROVE  Inserted(evs, Append(more, e)) = Append(evs, e)
<1> DEFINE N == Len(more) + 1
           all == Append(more, e)
<1>1. /\ all \in Seq(Event) /\ DOMAIN all = DOMAIN more \cup {N} /\ all[N] = e
      /\ \A n \in DOMAIN more : all[n] = more[n]
  BY Appended
<1> HIDE DEF N, all
<1>2. <<e.msg, e.try>> \notin Ids(evs)
  BY DEF Ids, MsgsIn
<1>3. \A n \in DOMAIN more : <<all[n].msg, all[n].try>> \in Ids(evs)
  BY <1>1 DEF Ids
<1>4. {n \in DOMAIN all : <<all[n].msg, all[n].try>> \notin Ids(evs)} = {N}
  BY <1>1, <1>2, <1>3
<1>5. Picked(all, {N}) = <<e>>
  BY <1>1, PickedOne
<1>6. Inserted(evs, all) = evs \o <<e>>
  BY <1>4, <1>5 DEF Inserted
<1> QED  BY <1>6 DEF all

-----------------------------------------------------------------------------
(* Lines of parents *)

\* The head of a list of events, and its own line.
LEMMA Heads ==
  ASSUME NEW evs \in Seq(Event)
  PROVE  /\ HeadIn(evs) \in MsgsIn(evs) \cup {None}
         /\ MsgsIn(evs) # {} => HeadIn(evs) \in MsgsIn(evs)
         /\ MsgsIn(evs) \subseteq Msg
         /\ \A h : Lineage(evs, h) \subseteq MsgsIn(evs)
         /\ \A h \in MsgsIn(evs) : h \in Lineage(evs, h)
<1>1. CASE evs = << >>
  BY <1>1 DEF HeadIn, MsgsIn, Lineage
<1>2. CASE evs # << >>
  <2>1. Len(evs) \in DOMAIN evs
    BY <1>2
  <2>2. \A n \in DOMAIN evs : evs[n] \in Event
    OBVIOUS
  <2> QED  BY <1>2, <2>1, <2>2 DEF HeadIn, MsgsIn, Lineage, Event
<1> QED  BY <1>1, <1>2
\* A set is closed under parents if it was before an event was added, but for
\* what the event says.
LEMMA ClosedBefore ==
  ASSUME NEW evs \in Seq(Event), NEW e \in Event, NEW S,
         Closed(Append(evs, e), S)
  PROVE  /\ e.msg \notin S => Closed(evs, S)
         /\ e.msg \notin MsgsIn(evs) \cup ParentsIn(evs) => Closed(evs, S \ {e.msg})
         /\ e.msg \in S => e.parent \in S \cup {None}
<1> DEFINE N == Len(evs) + 1
           all == Append(evs, e)
<1>1. /\ DOMAIN all = DOMAIN evs \cup {N} /\ all[N] = e /\ N \in Nat
      /\ \A n \in DOMAIN evs : all[n] = evs[n] /\ n < N
  BY Appended
<1> HIDE DEF N, all
<1>2. \A n \in DOMAIN evs : Latest(evs, n) /\ evs[n].msg # e.msg => Latest(all, n)
  BY <1>1 DEF Latest
<1>3. Latest(all, N)
  <2>1. \A o \in DOMAIN all : o <= N
    <3>1. \A o \in DOMAIN evs : o \in Nat
      OBVIOUS
    <3> QED  BY <1>1, <3>1
  <2> QED  BY <2>1 DEF Latest
<1>4. \A n \in DOMAIN all : Latest(all, n) /\ all[n].msg \in S => all[n].parent \in S \cup {None}
  BY DEF all, Closed
<1>5. ASSUME e.msg \notin S PROVE Closed(evs, S)
  BY <1>1, <1>2, <1>4, <1>5 DEF Closed
<1>6. ASSUME e.msg \notin MsgsIn(evs) \cup ParentsIn(evs) PROVE Closed(evs, S \ {e.msg})
  <2>1. \A n \in DOMAIN evs : evs[n].msg # e.msg /\ evs[n].parent # e.msg
    BY <1>6 DEF MsgsIn, ParentsIn
  <2> QED  BY <1>1, <1>2, <1>4, <2>1 DEF Closed
<1>7. e.msg \in S => e.parent \in S \cup {None}
  BY <1>1, <1>3, <1>4
<1> QED  BY <1>5, <1>6, <1>7

\* A new message takes none from the line to an older one.
LEMMA LineageFresh ==
  ASSUME NEW evs \in Seq(Event), NEW e \in Event,
         e.msg \notin MsgsIn(evs) \cup ParentsIn(evs), NEW h \in MsgsIn(evs)
  PROVE  Lineage(evs, h) \subseteq Lineage(Append(evs, e), h)
<1> DEFINE all == Append(evs, e)
<1>1. MsgsIn(all) = MsgsIn(evs) \cup {e.msg}
  BY AppendedSets
<1> SUFFICES ASSUME NEW x \in Lineage(evs, h), NEW S \in SUBSET MsgsIn(all),
                    h \in S, Closed(all, S)
             PROVE  x \in S
  BY <1>1 DEF Lineage
<1>2. Closed(evs, S \ {e.msg})
  BY ClosedBefore
<1>3. S \ {e.msg} \in SUBSET MsgsIn(evs) /\ h \in S \ {e.msg}
  BY <1>1
<1> QED  BY <1>2, <1>3 DEF Lineage

\* A new message continues the line to its parent.
LEMMA LineageBelow ==
  ASSUME NEW evs \in Seq(Event), NEW e \in Event, None \notin Msg,
         e.msg \notin MsgsIn(evs) \cup ParentsIn(evs), e.parent \in MsgsIn(evs)
  PROVE  Lineage(evs, e.parent) \subseteq Lineage(Append(evs, e), e.msg)
<1> DEFINE all == Append(evs, e)
<1>1. Lineage(evs, e.parent) \subseteq Lineage(all, e.parent)
  BY LineageFresh
<1> SUFFICES ASSUME NEW x \in Lineage(all, e.parent), NEW S \in SUBSET MsgsIn(all),
                    e.msg \in S, Closed(all, S)
             PROVE  x \in S
  BY <1>1 DEF Lineage
<1>2. e.parent \in S \cup {None}
  BY ClosedBefore
<1>3. e.parent # None
  BY Heads
<1> QED  BY <1>2, <1>3 DEF Lineage

\* A message appended once more takes from a line only what it has not got on
\* its own line.
LEMMA LineageAgain ==
  ASSUME NEW evs \in Seq(Event), NEW e \in Event, NEW h,
         NEW x \in Lineage(evs, h), x \in Lineage(Append(evs, e), e.msg)
  PROVE  x \in Lineage(Append(evs, e), h)
<1> DEFINE all == Append(evs, e)
<1>1. MsgsIn(all) = MsgsIn(evs) \cup {e.msg}
  BY AppendedSets
<1> SUFFICES ASSUME NEW S \in SUBSET MsgsIn(all), h \in S, Closed(all, S)
             PROVE  x \in S
  BY <1>1 DEF Lineage
<1>2. CASE e.msg \in S
  BY <1>2 DEF Lineage
<1>3. CASE e.msg \notin S
  <2>1. Closed(evs, S) /\ S \in SUBSET MsgsIn(evs)
    BY <1>1, <1>3, ClosedBefore
  <2> QED  BY <2>1 DEF Lineage
<1> QED  BY <1>2, <1>3

-----------------------------------------------------------------------------
(* Sessions in hand *)

\* Events whose messages landed, and whose parents did.
Story(evs, landed) ==
    /\ evs \in Seq(Event)
    /\ MsgsIn(evs) \subseteq landed
    /\ ParentsIn(evs) \subseteq landed \cup {None}

\* A session that somebody read from the table when there were fewer events in
\* it, or other ones. If any of its messages is still kept, then all of its
\* events are still in the table; and those that are kept and on its line are
\* on the line to its head in the table.
Held(s, evs, landed, kept) ==
    /\ s = [state |-> s.state, events |-> s.events]
    /\ s.state \in SessionState
    /\ Story(s.events, landed)
    /\ kept \cap MsgsIn(s.events) # {} => Ids(s.events) \subseteq Ids(evs)
    /\ kept \cap Lineage(s.events, HeadIn(s.events)) \subseteq Lineage(evs, HeadIn(s.events))

LEMMA IdsMsgs ==
  ASSUME NEW evs, NEW more, Ids(more) \subseteq Ids(evs)
  PROVE  MsgsIn(more) \subseteq MsgsIn(evs)
<1> SUFFICES ASSUME NEW n \in DOMAIN more PROVE \E i \in DOMAIN evs : evs[i].msg = more[n].msg
  BY DEF MsgsIn
<1>1. <<more[n].msg, more[n].try>> \in Ids(evs)
  BY DEF Ids
<1> QED  BY <1>1 DEF Ids

\* Of a session none of whose messages is kept, nothing is asked.
LEMMA HeldNone ==
  ASSUME NEW s, NEW evs, NEW landed, NEW kept, Held(s, evs, landed, kept),
         NEW now, NEW landed2, landed \subseteq landed2,
         NEW kept2, kept2 \cap MsgsIn(s.events) = {}
  PROVE  Held(s, now, landed2, kept2)
<1>1. Lineage(s.events, HeadIn(s.events)) \subseteq MsgsIn(s.events)
  BY Heads DEF Held, Story
<1> QED  BY <1>1 DEF Held, Story

\* The less is kept, the less is asked.
LEMMA HeldLess ==
  ASSUME NEW s, NEW evs, NEW landed, NEW kept, Held(s, evs, landed, kept),
         NEW kept2 \in SUBSET kept
  PROVE  Held(s, evs, landed, kept2)
  BY DEF Held

\* A message that never landed is appended.
LEMMA HeldFresh ==
  ASSUME NEW landed \in SUBSET Msg, NEW kept \in SUBSET landed, None \notin Msg,
         NEW evs, Story(evs, landed), NEW e \in Event, e.msg \notin landed,
         NEW s, Held(s, evs, landed, kept),
         NEW landed2, landed \subseteq landed2, NEW kept2, kept2 \subseteq kept \cup {e.msg}
  PROVE  Held(s, Append(evs, e), landed2, kept2)
<1> DEFINE now == Append(evs, e)
           h == HeadIn(s.events)
<1>1. evs \in Seq(Event) /\ e.msg \notin MsgsIn(evs) \cup ParentsIn(evs)
  BY DEF Story, Event
<1>2. Ids(evs) \subseteq Ids(now)
  BY <1>1, AppendedSets
<1>3. /\ MsgsIn(s.events) \subseteq landed /\ Lineage(s.events, h) \subseteq MsgsIn(s.events)
      /\ MsgsIn(s.events) # {} => h \in MsgsIn(s.events)
  BY Heads DEF Held, Story
<1>4. kept2 \cap MsgsIn(s.events) # {} => Ids(s.events) \subseteq Ids(evs)
  BY <1>3 DEF Held
<1>5. ASSUME NEW x \in kept2 \cap Lineage(s.events, h) PROVE x \in Lineage(now, h)
  <2>1. x \in kept /\ h \in MsgsIn(s.events)
    BY <1>3
  <2>2. h \in MsgsIn(evs)
    BY <1>3, <1>4, <2>1, IdsMsgs
  <2>3. x \in Lineage(evs, h)
    BY <2>1 DEF Held
  <2> QED  BY <1>1, <2>2, <2>3, LineageFresh
<1> QED  BY <1>2, <1>4, <1>5 DEF Held, Story

\* A message is appended once more.
LEMMA HeldAgain ==
  ASSUME NEW landed, NEW kept, NEW evs \in Seq(Event), NEW e \in Event,
         NEW s, Held(s, evs, landed, kept)
  PROVE  Held(s, Append(evs, e), landed, kept \cap Lineage(Append(evs, e), e.msg))
<1>1. Ids(evs) \subseteq Ids(Append(evs, e))
  BY AppendedSets
<1>2. ASSUME NEW x \in kept \cap Lineage(Append(evs, e), e.msg),
             x \in Lineage(s.events, HeadIn(s.events))
      PROVE  x \in Lineage(Append(evs, e), HeadIn(s.events))
  BY <1>2, LineageAgain DEF Held
<1> QED  BY <1>1, <1>2 DEF Held

\* A session that was read earlier is written as it is.
LEMMA WrittenBack ==
  ASSUME NEW landed \in SUBSET Msg, NEW kept \in SUBSET landed, None \notin Msg,
         NEW evs, Story(evs, landed), NEW s, Held(s, evs, landed, kept)
  PROVE  LET now   == Inserted(evs, s.events)
             kept2 == kept \cap Lineage(s.events, HeadIn(s.events))
         IN  /\ Lineage(s.events, HeadIn(s.events)) \subseteq landed
             /\ Story(now, landed)
             /\ HeadIn(s.events) \in MsgsIn(now) \cup {None}
             /\ HeadIn(s.events) = None => kept2 = {}
             /\ kept2 \subseteq Lineage(now, HeadIn(s.events))
             /\ \A t : Held(t, evs, landed, kept) => Held(t, now, landed, kept2)
<1> DEFINE h == HeadIn(s.events)
           now == Inserted(evs, s.events)
           kept2 == kept \cap Lineage(s.events, h)
<1>1. evs \in Seq(Event) /\ s.events \in Seq(Event) /\ Story(s.events, landed)
  BY DEF Held, Story
<1>2. /\ h \in MsgsIn(s.events) \cup {None}
      /\ MsgsIn(s.events) # {} => h \in MsgsIn(s.events)
      /\ MsgsIn(s.events) \subseteq Msg /\ Lineage(s.events, h) \subseteq MsgsIn(s.events)
  BY <1>1, Heads
<1>3. /\ now \in Seq(Event) /\ MsgsIn(now) = MsgsIn(evs) \cup MsgsIn(s.events)
      /\ ParentsIn(now) \subseteq ParentsIn(evs) \cup ParentsIn(s.events)
  BY <1>1, InsertedHas
<1>4. Story(now, landed)
  BY <1>1, <1>3 DEF Story
<1>5. /\ Lineage(s.events, h) \subseteq landed
      /\ h \in MsgsIn(now) \cup {None}
      /\ h = None => kept2 = {}
  BY <1>1, <1>2, <1>3 DEF Story
<1>8. now = Inserted(evs, s.events) /\ kept2 = kept \cap Lineage(s.events, h)
  OBVIOUS
<1> HIDE DEF h, now, kept2
<1>6. CASE kept \cap MsgsIn(s.events) = {}
  <2>1. kept2 = {}
    BY <1>2, <1>6, <1>8 DEF h
  <2>2. \A t : Held(t, evs, landed, kept) => Held(t, now, landed, kept2)
    BY <2>1, HeldNone
  <2> QED  BY <1>4, <1>5, <2>1, <2>2 DEF h, now, kept2
<1>7. CASE kept \cap MsgsIn(s.events) # {}
  <2>1. now = evs
    BY <1>1, <1>7, <1>8, InsertedNothing DEF Held
  <2>2. kept2 \subseteq Lineage(now, h)
    BY <1>8, <2>1 DEF Held, h
  <2>3. \A t : Held(t, evs, landed, kept) => Held(t, now, landed, kept2)
    BY <1>8, <2>1, HeldLess
  <2> QED  BY <1>4, <1>5, <2>2, <2>3 DEF h, now, kept2
<1> QED  BY <1>6, <1>7

\* A session that was read earlier is written with one message more.
LEMMA WrittenMore ==
  ASSUME NEW landed \in SUBSET Msg, NEW kept \in SUBSET landed, None \notin Msg,
         NEW evs, Story(evs, landed), NEW s, Held(s, evs, landed, kept),
         NEW e \in Event, e.parent = HeadIn(s.events), e.msg \notin landed
  PROVE  LET all     == Append(s.events, e)
             now     == Inserted(evs, all)
             kept2   == (kept \cap Lineage(s.events, HeadIn(s.events))) \cup {e.msg}
             landed2 == landed \cup {e.msg}
         IN  /\ Lineage(s.events, HeadIn(s.events)) \subseteq landed
             /\ kept2 \subseteq landed2
             /\ Story(now, landed2)
             /\ e.msg \in MsgsIn(now)
             /\ kept2 \subseteq Lineage(now, e.msg)
             /\ Held([state |-> s.state, events |-> all], now, landed2, kept2)
             /\ \A t : Held(t, evs, landed, kept) => Held(t, now, landed2, kept2)
<1> DEFINE h == HeadIn(s.events)
           m == e.msg
           all == Append(s.events, e)
           now == Inserted(evs, all)
           kept2 == (kept \cap Lineage(s.events, h)) \cup {m}
           landed2 == landed \cup {m}
           saved == [state |-> s.state, events |-> all]
<1>1. evs \in Seq(Event) /\ s.events \in Seq(Event) /\ Story(s.events, landed)
  BY DEF Held, Story
<1>2. /\ h \in MsgsIn(s.events) \cup {None}
      /\ MsgsIn(s.events) # {} => h \in MsgsIn(s.events)
      /\ MsgsIn(s.events) \subseteq Msg /\ Lineage(s.events, h) \subseteq MsgsIn(s.events)
  BY <1>1, Heads
<1>3. /\ m \in Msg /\ now = Inserted(evs, all)
      /\ kept2 = (kept \cap Lineage(s.events, h)) \cup {m} /\ landed2 = landed \cup {m}
  BY DEF Event
<1>4. /\ all \in Seq(Event) /\ HeadIn(all) = m
      /\ MsgsIn(all) = MsgsIn(s.events) \cup {m}
      /\ ParentsIn(all) = ParentsIn(s.events) \cup {h}
      /\ Ids(all) = Ids(s.events) \cup {<<m, e.try>>}
  BY <1>1, Appended, AppendedSets
<1> HIDE DEF all, now, kept2, landed2
<1>5. /\ now \in Seq(Event) /\ MsgsIn(now) = MsgsIn(evs) \cup MsgsIn(all)
      /\ ParentsIn(now) \subseteq ParentsIn(evs) \cup ParentsIn(all)
      /\ Ids(all) \subseteq Ids(now)
  BY <1>1, <1>3, <1>4, InsertedHas
<1>6. Story(now, landed2) /\ Story(all, landed2)
  BY <1>1, <1>2, <1>3, <1>4, <1>5 DEF Story
<1>7. m \in MsgsIn(now) /\ m \in Lineage(now, m)
  BY <1>4, <1>5, Heads
<1>8. kept2 \subseteq landed2 /\ Lineage(s.events, h) \subseteq landed
  BY <1>1, <1>2, <1>3 DEF Story
<1>9. kept2 \subseteq Lineage(now, m) => Held(saved, now, landed2, kept2)
  BY <1>4, <1>5, <1>6 DEF Held
<1>10. \A t : Held(t, evs, landed, kept) => m \notin MsgsIn(t.events)
  BY DEF Held, Story
<1>11. CASE kept \cap MsgsIn(s.events) = {}
  <2>1. kept2 = {m}
    BY <1>2, <1>3, <1>11
  <2>2. \A t : Held(t, evs, landed, kept) => Held(t, now, landed2, kept2)
    BY <1>3, <1>10, <2>1, HeldNone
  <2> QED  BY <1>6, <1>7, <1>8, <1>9, <2>1, <2>2 DEF all, now, kept2, landed2
<1>12. CASE kept \cap MsgsIn(s.events) # {}
  <2>1. Ids(s.events) \subseteq Ids(evs)
    BY <1>12 DEF Held
  <2>2. m \notin MsgsIn(evs) \cup ParentsIn(evs)
    BY <1>3 DEF Story
  <2>3. now = Append(evs, e)
    BY <1>1, <1>3, <2>1, <2>2, InsertedLast DEF all
  <2>4. h \in MsgsIn(evs)
    BY <1>2, <1>12, <2>1, IdsMsgs
  <2>5. Lineage(evs, h) \subseteq Lineage(now, m)
    BY <1>1, <2>2, <2>3, <2>4, LineageBelow
  <2>6. kept2 \subseteq Lineage(now, m)
    BY <1>3, <1>7, <2>5 DEF Held
  <2>7. ASSUME NEW t, Held(t, evs, landed, kept) PROVE Held(t, now, landed2, kept2)
    <3>1. kept2 \subseteq kept \cup {e.msg} /\ landed \subseteq landed2
      BY <1>3
    <3> QED  BY <2>3, <2>7, <3>1, HeldFresh
  <2> QED  BY <1>6, <1>7, <1>8, <1>9, <2>6, <2>7 DEF all, now, kept2, landed2
<1> QED  BY <1>11, <1>12

-----------------------------------------------------------------------------
(* What is kept of the history *)

\* The fields of a row.
RowFormed == row # None => row \in [state : {row.state}, leaf : {row.leaf}]

\* The row is made whole, or one field of it changes.
LEMMA RowStays == RowFormed /\ [PgNext]_pgVars => RowFormed'
<1> SUFFICES ASSUME RowFormed, PgNext \/ UNCHANGED pgVars PROVE RowFormed'
  OBVIOUS
<1>1. CASE UNCHANGED row
  BY <1>1 DEF RowFormed
<1>2. CASE \E s, l : row' = [state |-> s, leaf |-> l]
  BY <1>2 DEF RowFormed
<1>3. CASE row # None /\ \E x : row' = [row EXCEPT !.leaf = x] \/ row' = [row EXCEPT !.state = x]
  BY <1>3 DEF RowFormed
<1>4. CASE row' = None
  BY <1>4 DEF RowFormed
<1>5. ASSUME NEW c \in Caller,
             \/ PgAppend(c) \/ AppendFails(c) \/ PgLoad(c) \/ ReadRow(c) \/ ReadEvents(c)
             \/ PgFork(c) \/ PgEnqueue(c) \/ PgDequeue(c) \/ PgGiveOut(c) \/ PgCancel(c)
             \/ PgReplace(c) \/ PgDropped(c)
      PROVE  UNCHANGED row
  BY <1>5 DEF PgAppend, AppendFails, PgLoad, ReadRow, ReadEvents, PgFork, PgEnqueue,
     PgDequeue, PgGiveOut, PgCancel, PgReplace, PgDropped
<1>6. ASSUME NEW c \in Caller, ForkWrite(c) \/ PgSave(c) \/ PgRestore(c)
      PROVE  \E s, l : row' = [state |-> s, leaf |-> l]
  BY <1>6 DEF ForkWrite, PgSave, Write, PgRestore
<1>7. ASSUME NEW c \in Caller, AppendTx(c) \/ PgFinalize(c)
      PROVE  row # None /\ \E x : row' = [row EXCEPT !.leaf = x] \/ row' = [row EXCEPT !.state = x]
  BY <1>7 DEF AppendTx, PgFinalize
<1>8. ASSUME NEW c \in Caller, PgDelete(c) PROVE row' = None
  BY <1>8 DEF PgDelete
<1> QED  BY <1>1, <1>2, <1>3, <1>4, <1>5, <1>6, <1>7, <1>8 DEF PgNext, pgVars

\* The history of the session: what is kept landed, and what landed was used
\* for one message only; the row and the events go together; and whoever has
\* a session in hand to write it back, has one that Held describes.
PgHist ==
    /\ told.kept \subseteq told.landed
    /\ told.landed \subseteq Msg \cap told.used
    /\ Story(events, told.landed)
    /\ row = None => told.kept = {}
    /\ row # None => /\ row.state \in SessionState
                     /\ row.leaf \in MsgsIn(events) \cup {None}
                     /\ row.leaf = None => told.kept = {}
    /\ HistoryKept
    /\ copy # None => Held(copy, events, told.landed, told.kept)
    /\ \A c \in Caller :
         /\ call[c].pc = "write" => Held(call[c].seen, events, told.landed, told.kept)
         /\ call[c].pc = "tx" => call[c].arg \in Msg \cap told.used /\ call[c].tries \in Nat
         /\ call[c].pc = "events" => call[c].seen.state \in SessionState

\* The calls of others stay as they are.
LEMMA PgWent ==
  ASSUME PgCalling, NEW c \in Caller, NEW next, Goto(c, next)
  PROVE  call'[c] = next /\ \A d \in Caller : d # c => call'[d] = call[d]
  BY DEF PgCalling, Goto

\* A call that has nothing in hand.
EmptyHanded(k) == k.pc \notin {"tx", "events", "write"}

\* The history stays while nobody writes it.
LEMMA HistQuiet ==
  ASSUME PgHist, events' = events,
         \/ row' = row
         \/ /\ row # None /\ row' # None
            /\ row'.leaf = row.leaf /\ row'.state \in SessionState,
         told'.landed = told.landed, told'.kept = told.kept, told.used \subseteq told'.used,
         \/ copy' = copy
         \/ copy' = None
         \/ Held(copy', events, told.landed, told.kept),
         \A d \in Caller :
           \/ call'[d] = call[d]
           \/ EmptyHanded(call'[d])
           \/ call'[d].pc = "write" /\ Held(call'[d].seen, events, told.landed, told.kept)
           \/ call'[d].pc = "tx" /\ call'[d].arg \in Msg \cap told'.used /\ call'[d].tries \in Nat
           \/ call'[d].pc = "events" /\ call'[d].seen.state \in SessionState
  PROVE  PgHist'
<1>1. /\ told'.kept \subseteq told'.landed
      /\ told'.landed \subseteq Msg \cap told'.used
      /\ Story(events', told'.landed)
      /\ row' = None => told'.kept = {}
      /\ row' # None => /\ row'.state \in SessionState
                        /\ row'.leaf \in MsgsIn(events') \cup {None}
                        /\ row'.leaf = None => told'.kept = {}
  BY DEF PgHist
<1>2. row' # None => told'.kept \subseteq Lineage(events', row'.leaf)
  BY DEF PgHist, HistoryKept
<1>3. copy' # None => Held(copy', events', told'.landed, told'.kept)
  BY DEF PgHist
<1>4. \A d \in Caller :
        /\ call'[d].pc = "write" => Held(call'[d].seen, events', told'.landed, told'.kept)
        /\ call'[d].pc = "tx" => call'[d].arg \in Msg \cap told'.used /\ call'[d].tries \in Nat
        /\ call'[d].pc = "events" => call'[d].seen.state \in SessionState
  BY DEF PgHist, EmptyHanded
<1> QED  BY <1>1, <1>2, <1>3, <1>4 DEF PgHist, HistoryKept

\* What a session in hand is when it was just read.
LEMMA HeldNow ==
  ASSUME PgHist, NEW state \in SessionState
  PROVE  Held([state |-> state, events |-> events], events, told.landed, told.kept)
  BY DEF PgHist, Held

LEMMA RetriedHolds ==
  ASSUME NEW k, k.pc = "tx", Formed(k), k.arg \in Msg \cap told.used, k.tries \in Nat
  PROVE  \/ EmptyHanded(Retried(k))
         \/ /\ Retried(k).pc = "tx"
            /\ Retried(k).arg \in Msg \cap told.used
            /\ Retried(k).tries \in Nat
<1>1. CASE Retried(k) = Idle
  BY <1>1, IdleFormed DEF EmptyHanded
<1>2. CASE Retried(k) # Idle
  <2>1. Retried(k) = [k EXCEPT !.pc = "tx", !.tries = @ + 1]
    BY <1>2 DEF Retried
  <2>2. Retried(k).pc = "tx" /\ Retried(k).arg = k.arg /\ Retried(k).tries = k.tries + 1
    BY <2>1 DEF Formed
  <2> QED  BY <2>2
<1> QED  BY <1>1, <1>2

\* A call that begins has nothing in hand but the message of an append.
LEMMA BeginHolds ==
  ASSUME PgCalling, NEW c \in Caller, NEW op, NEW arg, NEW pc, Begin(c, op, arg, pc)
  PROVE  /\ call'[c].pc = pc /\ call'[c].arg = arg /\ call'[c].tries = 0
         /\ \A d \in Caller : d # c => call'[d] = call[d]
<1>1. Goto(c, [Idle EXCEPT !.op = op, !.arg = arg, !.pc = pc])
  BY DEF Begin
<1>2. call'[c] = [Idle EXCEPT !.op = op, !.arg = arg, !.pc = pc]
  BY <1>1, PgWent
<1>3. \A d \in Caller : d # c => call'[d] = call[d]
  BY <1>1, PgWent
<1> QED  BY <1>2, <1>3 DEF Idle

\* A call returns.
LEMMA ReturnHolds ==
  ASSUME PgCalling, NEW c \in Caller, Goto(c, Idle)
  PROVE  EmptyHanded(call'[c]) /\ \A d \in Caller : d # c => call'[d] = call[d]
  BY PgWent, IdleFormed DEF EmptyHanded

-----------------------------------------------------------------------------
(* The actions *)

\* The actions that leave the history, and what is in hand of it.
LEMMA BystandersKeepHist ==
  ASSUME PgIInv, RowFormed, PgHist, NEW c \in Caller,
         \/ PgLoad(c) \/ PgFork(c) \/ PgDequeue(c) \/ PgFinalize(c) \/ PgEnqueue(c)
         \/ PgCancel(c) \/ PgReplace(c) \/ PgGiveOut(c) \/ PgDropped(c)
  PROVE  PgHist'
<1>1. PgCalling /\ Tale(told)
  BY DEF PgIInv
<1>2. events' = events /\ copy' = copy
  BY DEF PgLoad, PgFork, PgDequeue, PgFinalize, PgEnqueue, PgCancel, PgReplace, PgGiveOut,
     PgDropped
<1>3. told'.landed = told.landed /\ told'.kept = told.kept /\ told.used \subseteq told'.used
  <2>1. \/ told' = told
        \/ \E ids : Use(ids)
        \/ \E x : told' = [told EXCEPT !.given = x] \/ told' = [told EXCEPT !.cancelled = x]
    BY DEF PgLoad, PgFork, PgDequeue, PgFinalize, PgEnqueue, PgCancel, PgReplace, PgGiveOut,
       PgDropped
  <2> QED  BY <1>1, <2>1 DEF Tale, Use
<1>4. \/ row' = row
      \/ /\ row # None /\ row' # None
         /\ row'.leaf = row.leaf /\ row'.state \in SessionState
  <2>1. CASE PgFinalize(c)
    <3>1. PICK t \in Ends : row # None /\ row' = [row EXCEPT !.state = t]
      BY <2>1 DEF PgFinalize
    <3>2. row' = [state |-> t, leaf |-> row.leaf]
      BY <3>1 DEF RowFormed
    <3>3. t \in SessionState /\ row.leaf \in Msg \cup {None}
      <4>1. MsgsIn(events) \subseteq Msg
        BY DEF PgHist, Story
      <4> QED  BY <3>1, <4>1, SharedAssumption DEF PgHist, SharedAssumption, Terminal, SessionState
    <3> QED  BY <3>1, <3>2, <3>3, RowAssumption DEF RowAssumption
  <2>2. CASE ~PgFinalize(c)
    <3>1. row' = row
      BY <2>2 DEF PgLoad, PgFork, PgDequeue, PgEnqueue, PgCancel, PgReplace, PgGiveOut,
         PgDropped
    <3> QED  BY <3>1
  <2> QED  BY <2>1, <2>2
<1>5. ASSUME NEW d \in Caller PROVE call'[d] = call[d] \/ EmptyHanded(call'[d])
  <2>1. CASE PgLoad(c) \/ PgFork(c) \/ PgDequeue(c)
    <3>1. \/ Begin(c, "load", None, "row")
          \/ Begin(c, "fork", None, "row")
          \/ \E i \in Pending : Begin(c, "dequeue", i, "taken")
      BY <2>1 DEF PgLoad, PgFork, PgDequeue
    <3>2. call'[c].pc \in {"row", "taken"}
      BY <1>1, <3>1, BeginHolds
    <3>3. \A e \in Caller : e # c => call'[e] = call[e]
      BY <1>1, <3>1, BeginHolds
    <3> QED  BY <3>2, <3>3 DEF EmptyHanded
  <2>2. CASE PgGiveOut(c) \/ PgDropped(c)
    <3>1. Goto(c, Idle)
      BY <2>2 DEF PgGiveOut, PgDropped
    <3> QED  BY <1>1, <3>1, ReturnHolds
  <2>3. CASE PgFinalize(c) \/ PgEnqueue(c) \/ PgCancel(c) \/ PgReplace(c)
    BY <2>3 DEF PgFinalize, PgEnqueue, PgCancel, PgReplace, AtOnce
  <2> QED  BY <2>1, <2>2, <2>3
<1> QED  BY <1>2, <1>3, <1>4, <1>5, HistQuiet

\* The first step of an append, and those that failed.
LEMMA AppendsKeepHist ==
  ASSUME PgIInv, PgHist, NEW c \in Caller, PgAppend(c) \/ AppendFails(c)
  PROVE  PgHist'
<1>1. PgCalling /\ Tale(told)
  BY DEF PgIInv
<1>2. CASE PgAppend(c)
  <2>1. PICK m \in Msg \cap Fresh : Begin(c, "append", m, "tx") /\ Use({m})
    BY <1>2 DEF PgAppend
  <2>2. /\ told'.landed = told.landed /\ told'.kept = told.kept
        /\ told'.used = told.used \cup {m}
    BY <1>1, <2>1 DEF Tale, Use
  <2>3. /\ call'[c].pc = "tx" /\ call'[c].arg = m /\ call'[c].tries = 0
        /\ \A d \in Caller : d # c => call'[d] = call[d]
    BY <1>1, <2>1, BeginHolds
  <2>4. events' = events /\ copy' = copy /\ row' = row
    BY <1>2 DEF PgAppend
  <2>5. m \in Msg \cap told'.used /\ told.used \subseteq told'.used
    BY <2>2
  <2>6. \A d \in Caller :
          \/ call'[d] = call[d]
          \/ call'[d].pc = "tx" /\ call'[d].arg \in Msg \cap told'.used /\ call'[d].tries \in Nat
    BY <2>3, <2>5
  <2> QED  BY <2>2, <2>4, <2>5, <2>6, HistQuiet
<1>3. CASE AppendFails(c)
  <2>1. events' = events /\ copy' = copy /\ row' = row /\ told' = told
    BY <1>3 DEF AppendFails
  <2>2. call[c].pc = "tx" /\ (Goto(c, Idle) \/ Goto(c, Retried(call[c])))
    BY <1>3 DEF AppendFails
  <2>3. Formed(call[c]) /\ call[c].arg \in Msg \cap told.used /\ call[c].tries \in Nat
    BY <1>1, <2>2 DEF PgCalling, PgHist
  <2>4. \A d \in Caller : d # c => call'[d] = call[d]
    BY <1>1, <2>2, PgWent
  <2>5. \/ EmptyHanded(call'[c])
        \/ /\ call'[c].pc = "tx"
           /\ call'[c].arg \in Msg \cap told'.used
           /\ call'[c].tries \in Nat
    BY <1>1, <2>1, <2>2, <2>3, PgWent, RetriedHolds, IdleFormed DEF EmptyHanded
  <2>6. \A d \in Caller :
          \/ call'[d] = call[d]
          \/ EmptyHanded(call'[d])
          \/ call'[d].pc = "tx" /\ call'[d].arg \in Msg \cap told'.used /\ call'[d].tries \in Nat
    BY <2>4, <2>5
  <2>7. told'.landed = told.landed /\ told'.kept = told.kept /\ told.used \subseteq told'.used
    BY <2>1
  <2> QED  BY <2>1, <2>6, <2>7, HistQuiet
<1> QED  BY <1>2, <1>3

\* Reading takes the session in hand as it is.
LEMMA ReadsKeepHist ==
  ASSUME PgIInv, PgHist, NEW c \in Caller, ReadRow(c) \/ ReadEvents(c)
  PROVE  PgHist'
<1>1. PgCalling
  BY DEF PgIInv
<1>2. events' = events /\ row' = row /\ told' = told
  BY DEF ReadRow, ReadEvents
<1> DEFINE k == call[c]
           s == [state |-> k.seen.state, events |-> events]
<1>3. Formed(k)
  BY <1>1 DEF PgCalling
<1>4. CASE ReadRow(c)
  <2>1. copy' = copy \/ copy' = None
    BY <1>4 DEF ReadRow
  <2>2. PICK next : /\ Goto(c, next)
                    /\ \/ next = Idle
                       \/ row # None /\ next = [k EXCEPT !.pc = "events", !.seen = row]
    BY <1>4 DEF ReadRow
  <2> HIDE DEF k
  <2>3. \/ EmptyHanded(next)
        \/ next.pc = "events" /\ next.seen.state \in SessionState
    <3>1. CASE next = Idle
      BY <3>1, IdleFormed DEF EmptyHanded
    <3>2. CASE row # None /\ next = [k EXCEPT !.pc = "events", !.seen = row]
      <4>1. next.pc = "events" /\ next.seen = row
        BY <1>3, <3>2 DEF Formed
      <4> QED  BY <3>2, <4>1 DEF PgHist
    <3> QED  BY <2>2, <3>1, <3>2
  <2>4. call'[c] = next /\ \A d \in Caller : d # c => call'[d] = call[d]
    BY <1>1, <2>2, PgWent
  <2>5. \A d \in Caller :
          \/ call'[d] = call[d]
          \/ EmptyHanded(call'[d])
          \/ call'[d].pc = "events" /\ call'[d].seen.state \in SessionState
    BY <2>3, <2>4
  <2>6. told'.landed = told.landed /\ told'.kept = told.kept /\ told.used \subseteq told'.used
    BY <1>2
  <2> QED  BY <1>2, <2>1, <2>5, <2>6, HistQuiet
<1>5. CASE ReadEvents(c)
  <2>1. Held(s, events, told.landed, told.kept)
    <3>1. k.seen.state \in SessionState
      BY <1>5 DEF ReadEvents, PgHist
    <3> HIDE DEF k
    <3> QED  BY <3>1, HeldNow
  <2>2. copy' = copy \/ copy' = None \/ Held(copy', events, told.landed, told.kept)
    BY <1>5, <2>1 DEF ReadEvents
  <2>3. PICK next : /\ Goto(c, next)
                    /\ \/ next = Idle
                       \/ next = [k EXCEPT !.pc = "write", !.seen = s]
    BY <1>5 DEF ReadEvents
  <2> HIDE DEF k, s
  <2>4. \/ EmptyHanded(next)
        \/ next.pc = "write" /\ next.seen = s
    <3>1. CASE next = Idle
      BY <3>1, IdleFormed DEF EmptyHanded
    <3>2. CASE next = [k EXCEPT !.pc = "write", !.seen = s]
      BY <1>3, <3>2 DEF Formed
    <3> QED  BY <2>3, <3>1, <3>2
  <2>5. call'[c] = next /\ \A d \in Caller : d # c => call'[d] = call[d]
    BY <1>1, <2>3, PgWent
  <2>6. \A d \in Caller :
          \/ call'[d] = call[d]
          \/ EmptyHanded(call'[d])
          \/ call'[d].pc = "write" /\ Held(call'[d].seen, events, told.landed, told.kept)
    BY <2>1, <2>4, <2>5
  <2>7. told'.landed = told.landed /\ told'.kept = told.kept /\ told.used \subseteq told'.used
    BY <1>2
  <2> QED  BY <1>2, <2>2, <2>6, <2>7, HistQuiet
<1> QED  BY <1>4, <1>5

\* The row and the events are written, and what others have in hand still is
\* what Held describes.
LEMMA HistWritten ==
  ASSUME PgHist, NEW state \in SessionState, NEW leaf \in MsgsIn(events') \cup {None},
         row' = [state |-> state, leaf |-> leaf],
         told'.kept \subseteq told'.landed, told'.landed \subseteq Msg \cap told'.used,
         told.used \subseteq told'.used,
         Story(events', told'.landed),
         leaf = None => told'.kept = {},
         told'.kept \subseteq Lineage(events', leaf),
         copy' # None => Held(copy', events', told'.landed, told'.kept),
         \A s : Held(s, events, told.landed, told.kept)
                  => Held(s, events', told'.landed, told'.kept),
         \A d \in Caller :
           \/ call'[d] = call[d]
           \/ EmptyHanded(call'[d])
           \/ call'[d].pc = "tx" /\ call'[d].arg \in Msg \cap told'.used /\ call'[d].tries \in Nat
  PROVE  PgHist'
<1>1. row' # None
  <2>1. MsgsIn(events') \subseteq Msg
    BY DEF Story
  <2> QED  BY <2>1, RowAssumption DEF RowAssumption
<1>2. row'.state = state /\ row'.leaf = leaf
  OBVIOUS
<1>3. \A d \in Caller :
        /\ call'[d].pc = "write" => Held(call'[d].seen, events', told'.landed, told'.kept)
        /\ call'[d].pc = "tx" => call'[d].arg \in Msg \cap told'.used /\ call'[d].tries \in Nat
        /\ call'[d].pc = "events" => call'[d].seen.state \in SessionState
  BY DEF PgHist, EmptyHanded
<1> QED  BY <1>1, <1>2, <1>3 DEF PgHist, HistoryKept

\* add_message: the message goes below the leaf of the row, so that what was
\* kept is above it; and a message that is appended once more keeps what it
\* has above it.
LEMMA AppendTxKeepsHist ==
  ASSUME PgIInv, RowFormed, PgHist, NEW c \in Caller, AppendTx(c)
  PROVE  PgHist'
<1> DEFINE k == call[c]
           m == k.arg
           e == [msg |-> m, parent |-> row.leaf, try |-> k.tries]
           now == Append(events, e)
           landed == IF m \in told.landed
                     THEN [told EXCEPT !.kept = @ \cap Lineage(now, m)]
                     ELSE Landed(m)
<1>1. PgCalling /\ Tale(told) /\ Formed(k)
  BY DEF PgIInv, PgCalling
<1>2. /\ k.pc = "tx" /\ row # None /\ events' = now /\ copy' = copy
      /\ row' = [row EXCEPT !.leaf = m]
      /\ \/ Goto(c, Idle) /\ told' = [landed EXCEPT !.acked = @ \cup {m}]
         \/ Goto(c, Retried(k)) /\ told' = landed
  BY DEF AppendTx, NewParent
<1>3. /\ told.kept \subseteq told.landed /\ told.landed \subseteq Msg \cap told.used
      /\ Story(events, told.landed) /\ events \in Seq(Event)
      /\ row.state \in SessionState
      /\ row.leaf \in MsgsIn(events) \cup {None}
      /\ row.leaf = None => told.kept = {}
      /\ told.kept \subseteq Lineage(events, row.leaf)
      /\ m \in Msg \cap told.used /\ k.tries \in Nat
      /\ None \notin Msg
  BY <1>2, SharedAssumption DEF PgHist, HistoryKept, Story, SharedAssumption
<1>4. e \in Event /\ e.msg = m /\ e.parent = row.leaf
  <2>1. row.leaf \in Msg \cup {None}
    BY <1>3, Heads
  <2> QED  BY <1>3, <2>1 DEF Event
<1>5. row' = [state |-> row.state, leaf |-> m]
  BY <1>2 DEF RowFormed
<1>6. \A d \in Caller :
        \/ call'[d] = call[d]
        \/ EmptyHanded(call'[d])
        \/ call'[d].pc = "tx" /\ call'[d].arg \in Msg \cap told.used /\ call'[d].tries \in Nat
  <2>1. PICK next : Goto(c, next) /\ (next = Idle \/ next = Retried(k))
    BY <1>2
  <2>2. call'[c] = next /\ \A d \in Caller : d # c => call'[d] = call[d]
    BY <1>1, <2>1, PgWent
  <2>3. \/ EmptyHanded(next)
        \/ next.pc = "tx" /\ next.arg \in Msg \cap told.used /\ next.tries \in Nat
    <3> HIDE DEF k
    <3>1. CASE next = Idle
      BY <3>1, IdleFormed DEF EmptyHanded
    <3>2. CASE next = Retried(k)
      BY <1>1, <1>2, <1>3, <3>2, RetriedHolds
    <3> QED  BY <2>1, <3>1, <3>2
  <2> QED  BY <2>2, <2>3
<1> HIDE DEF k, e
<1>7. /\ told'.landed = told.landed \cup {m} /\ told'.used = told.used
      /\ m \in told.landed => told'.kept = told.kept \cap Lineage(now, m)
      /\ m \notin told.landed => told'.kept = told.kept \cup {m}
  <2> HIDE DEF now, m
  <2>1. /\ Tale(landed)
        /\ landed.landed = told.landed \cup {m} /\ landed.used = told.used
        /\ m \in told.landed => landed.kept = told.kept \cap Lineage(now, m)
        /\ m \notin told.landed => landed.kept = told.kept \cup {m}
    <3>1. CASE m \in told.landed
      BY <1>1, <3>1 DEF Tale
    <3>2. CASE m \notin told.landed
      BY <1>1, <3>2 DEF Tale, Landed
    <3> QED  BY <3>1, <3>2
  <2> HIDE DEF landed
  <2> QED  BY <1>2, <2>1 DEF Tale
<1> HIDE DEF landed
<1>8. MsgsIn(now) = MsgsIn(events) \cup {m} /\ ParentsIn(now) = ParentsIn(events) \cup {row.leaf}
  BY <1>3, <1>4, AppendedSets
<1>9. now \in Seq(Event) /\ m \in Lineage(now, m)
  BY <1>3, <1>4, <1>8, Appended, Heads
<1>10. Story(now, told'.landed)
  BY <1>3, <1>7, <1>8, <1>9 DEF Story
<1>11. \A s : Held(s, events, told.landed, told.kept)
                => Held(s, now, told'.landed, told'.kept)
  <2>1. CASE m \in told.landed
    <3>1. told'.landed = told.landed /\ told'.kept = told.kept \cap Lineage(now, m)
      BY <1>7, <2>1
    <3> QED  BY <1>3, <1>4, <3>1, HeldAgain
  <2>2. CASE m \notin told.landed
    <3>1. /\ told.landed \in SUBSET Msg /\ told.kept \in SUBSET told.landed
          /\ told.landed \subseteq told'.landed /\ told'.kept \subseteq told.kept \cup {e.msg}
          /\ e.msg \notin told.landed
      BY <1>3, <1>4, <1>7, <2>2
    <3> QED  BY <1>3, <1>4, <3>1, HeldFresh
  <2> QED  BY <2>1, <2>2
<1>12. told'.kept \subseteq Lineage(now, m)
  <2>1. CASE m \in told.landed
    BY <1>7, <2>1
  <2>2. CASE m \notin told.landed /\ row.leaf = None
    BY <1>3, <1>7, <1>9, <2>2
  <2>3. CASE m \notin told.landed /\ row.leaf # None
    <3>1. e.msg \notin MsgsIn(events) \cup ParentsIn(events) /\ e.parent \in MsgsIn(events)
      BY <1>3, <1>4, <2>3 DEF Story
    <3>2. Lineage(events, row.leaf) \subseteq Lineage(now, m)
      BY <1>3, <1>4, <3>1, LineageBelow
    <3> QED  BY <1>3, <1>7, <1>9, <2>3, <3>2
  <2> QED  BY <2>1, <2>2, <2>3
<1>13. /\ told'.kept \subseteq told'.landed /\ told'.landed \subseteq Msg \cap told'.used
       /\ m \in MsgsIn(now) \cup {None} /\ m # None
  BY <1>3, <1>7, <1>8
<1>14. copy' # None => Held(copy', now, told'.landed, told'.kept)
  BY <1>2, <1>11 DEF PgHist
<1> HIDE DEF now, m
<1>15. events' = now
  BY <1>2
<1> QED  BY <1>3, <1>5, <1>6, <1>7, <1>10, <1>11, <1>12, <1>13, <1>14, <1>15, HistWritten

\* A session that somebody has in hand is written back as it is.
LEMMA WriteBackKeepsHist ==
  ASSUME PgHist, Tale(told), NEW s, Held(s, events, told.landed, told.kept), Write(s, {}),
         copy' = copy, \A d \in Caller : call'[d] = call[d] \/ EmptyHanded(call'[d])
  PROVE  PgHist'
<1> DEFINE h == HeadIn(s.events)
           line == Lineage(s.events, h)
           now == Inserted(events, s.events)
           kept2 == told.kept \cap line
<1>1. /\ row' = [state |-> s.state, leaf |-> h]
      /\ events' = now
      /\ told' = Overwritten(line, {})
  BY DEF Write, With
<1>2. told'.landed = told.landed \cup line /\ told'.kept = kept2 /\ told'.used = told.used
  BY <1>1 DEF Overwritten, Tale
<1>3. /\ told.landed \in SUBSET Msg /\ told.kept \in SUBSET told.landed /\ None \notin Msg
      /\ Story(events, told.landed) /\ told.landed \subseteq told.used
  BY SharedAssumption DEF PgHist, SharedAssumption
<1>4. /\ line \subseteq told.landed
      /\ Story(now, told.landed)
      /\ h \in MsgsIn(now) \cup {None}
      /\ h = None => kept2 = {}
      /\ kept2 \subseteq Lineage(now, h)
      /\ \A t : Held(t, events, told.landed, told.kept)
                  => Held(t, now, told.landed, kept2)
  BY <1>3, WrittenBack
<1>5. told'.landed = told.landed /\ kept2 \subseteq told.landed
  BY <1>2, <1>3, <1>4
<1>6. s.state \in SessionState
  BY DEF Held
<1>7. copy' # None => Held(copy', now, told.landed, kept2)
  BY <1>4 DEF PgHist
<1> HIDE DEF now, kept2, line, h
<1> QED  BY <1>1, <1>2, <1>3, <1>4, <1>5, <1>6, <1>7, HistWritten

\* The forks.
LEMMA ForkWriteKeepsHist ==
  ASSUME PgIInv, PgHist, NEW c \in Caller, ForkWrite(c)
  PROVE  PgHist'
<1> DEFINE s == call[c].seen
<1>1. PgCalling /\ Tale(told)
  BY DEF PgIInv
<1>2. call[c].pc = "write" /\ Goto(c, Idle) /\ copy' = copy /\ Write(s, {})
  BY DEF ForkWrite
<1>3. Held(s, events, told.landed, told.kept)
  BY <1>2 DEF PgHist
<1>4. \A d \in Caller : call'[d] = call[d] \/ EmptyHanded(call'[d])
  BY <1>1, <1>2, ReturnHolds
<1> QED  BY <1>1, <1>2, <1>3, <1>4, WriteBackKeepsHist

LEMMA WithOne ==
  ASSUME NEW s, s = [state |-> s.state, events |-> s.events], NEW m
  PROVE  With(s, {m}) =
           [state |-> s.state,
            events |-> Append(s.events, [msg |-> m, parent |-> HeadIn(s.events), try |-> 0])]
<1> DEFINE e(n) == [msg |-> n, parent |-> HeadIn(s.events), try |-> 0]
<1>1. (CHOOSE n \in {m} : TRUE) = m
  OBVIOUS
<1>2. With(s, {m}) = [s EXCEPT !.events = Append(s.events, e(m))]
  BY <1>1 DEF With
<1> HIDE DEF e
<1>3. With(s, {m}) = [state |-> s.state, events |-> Append(s.events, e(m))]
  BY <1>2
<1> QED  BY <1>3 DEF e

\* An agent saves the session that it loaded, and perhaps one message more.
LEMMA PgSaveKeepsHist ==
  ASSUME PgIInv, PgHist, NEW c \in Caller, PgSave(c)
  PROVE  PgHist'
<1>1. Tale(told) /\ call' = call
  BY DEF PgIInv, PgSave, AtOnce
<1>2. Held(copy, events, told.landed, told.kept)
  BY DEF PgHist, PgSave
<1>3. PICK new \in {{}} \cup {{m} : m \in Msg \cap Fresh} :
        Write(copy, new) /\ copy' = With(copy, new)
  BY DEF PgSave
<1>4. CASE new = {}
  <2>1. copy' = copy
    BY <1>3, <1>4 DEF With
  <2>2. \A d \in Caller : call'[d] = call[d]
    BY <1>1
  <2> QED  BY <1>1, <1>2, <1>3, <1>4, <2>1, <2>2, WriteBackKeepsHist
<1>5. ASSUME NEW m \in Msg \cap Fresh, new = {m} PROVE PgHist'
  <2> DEFINE h == HeadIn(copy.events)
             line == Lineage(copy.events, h)
             e == [msg |-> m, parent |-> h, try |-> 0]
             all == Append(copy.events, e)
             now == Inserted(events, all)
             kept2 == (told.kept \cap line) \cup {m}
             landed2 == told.landed \cup {m}
             saved == [state |-> copy.state, events |-> all]
  <2>1. With(copy, {m}) = saved /\ With(copy, {m}).events = all
    BY <1>2, WithOne DEF Held
  <2>2. /\ told.landed \in SUBSET Msg /\ told.kept \in SUBSET told.landed /\ None \notin Msg
        /\ Story(events, told.landed) /\ told.landed \subseteq told.used
        /\ m \in Msg /\ m \notin told.used
    BY SharedAssumption DEF PgHist, SharedAssumption, Fresh
  <2>3. e \in Event /\ e.msg = m /\ e.parent = h /\ copy.events \in Seq(Event)
    <3>1. copy.events \in Seq(Event)
      BY <1>2 DEF Held, Story
    <3>2. h \in Msg \cup {None}
      BY <3>1, Heads
    <3> QED  BY <2>2, <3>1, <3>2 DEF Event
  <2>4. HeadIn(all) = m
    BY <2>3, Appended
  <2>5. /\ row' = [state |-> copy.state, leaf |-> m]
        /\ events' = now
        /\ told' = Overwritten(line, {m})
        /\ copy' = saved
    <3>1. Write(copy, {m}) /\ copy' = With(copy, {m})
      BY <1>3, <1>5
    <3> HIDE DEF e, all, saved
    <3> QED  BY <2>1, <2>4, <3>1 DEF Write
  <2> HIDE DEF e
  <2>6. /\ line \subseteq told.landed
        /\ kept2 \subseteq landed2
        /\ Story(now, landed2)
        /\ m \in MsgsIn(now)
        /\ kept2 \subseteq Lineage(now, m)
        /\ Held(saved, now, landed2, kept2)
        /\ \A t : Held(t, events, told.landed, told.kept) => Held(t, now, landed2, kept2)
    BY <1>2, <2>2, <2>3, WrittenMore
  <2>7. told'.landed = landed2 /\ told'.kept = kept2 /\ told'.used = told.used \cup {m}
    <3>1. told'.landed = told.landed \cup line \cup {m}
      BY <1>1, <2>5 DEF Overwritten, Tale
    <3>2. told'.kept = kept2 /\ told'.used = told.used \cup {m}
      BY <1>1, <2>5 DEF Overwritten, Tale
    <3> QED  BY <2>6, <3>1, <3>2
  <2>8. copy.state \in SessionState /\ m # None
    BY <1>2, <2>2 DEF Held
  <2>9. landed2 \subseteq Msg \cap told'.used /\ told.used \subseteq told'.used
    BY <2>2, <2>7
  <2>10. \A d \in Caller : call'[d] = call[d]
    BY <1>1
  <2> HIDE DEF now, kept2, landed2, saved, line
  <2> QED  BY <2>5, <2>6, <2>7, <2>8, <2>9, <2>10, HistWritten
<1> QED  BY <1>3, <1>4, <1>5

\* A session is deleted: nothing of it is kept. Or it is restored where there is
\* none, and nothing was kept.
LEMMA PgDeleteKeepsHist ==
  ASSUME PgIInv, PgHist, NEW c \in Caller, PgDelete(c)
  PROVE  PgHist'
<1>1. /\ call' = call /\ copy' = copy /\ row' = None /\ events' = << >>
      /\ told'.landed = told.landed /\ told'.kept = {} /\ told'.used = told.used
  BY DEF PgIInv, PgDelete, AtOnce, Gone, Tale
<1>2. Story(<< >>, told.landed)
  BY DEF Story, MsgsIn, ParentsIn
<1>3. \A s : Held(s, events, told.landed, told.kept) => Held(s, << >>, told.landed, {})
  BY HeldNone
<1> QED  BY <1>1, <1>2, <1>3 DEF PgHist, HistoryKept

LEMMA PgRestoreKeepsHist ==
  ASSUME PgIInv, PgHist, NEW c \in Caller, PgRestore(c)
  PROVE  PgHist'
<1>1. /\ call' = call /\ copy' = copy /\ copy # None /\ row = None
      /\ row' = [state |-> copy.state, leaf |-> HeadIn(copy.events)]
      /\ events' = copy.events
  BY DEF PgRestore, AtOnce
<1>2. PICK items : told' = [Overwritten(MsgsIn(copy.events), {}) EXCEPT !.used = @ \cup items]
  BY DEF PgRestore
<1>3. /\ told'.landed = told.landed \cup MsgsIn(copy.events)
      /\ told'.kept = told.kept \cap MsgsIn(copy.events)
      /\ told'.used = told.used \cup items
  BY <1>2 DEF PgIInv, Overwritten, Tale
<1>4. Held(copy, events, told.landed, told.kept)
  BY <1>1 DEF PgHist
<1>5. told'.landed = told.landed /\ told'.kept = {} /\ told.used \subseteq told'.used
  BY <1>1, <1>3, <1>4 DEF PgHist, Held, Story
<1>6. Story(events', told.landed) /\ copy.state \in SessionState
  BY <1>1, <1>4 DEF Held
<1>7. HeadIn(copy.events) \in MsgsIn(events') \cup {None}
  BY <1>1, <1>6, Heads DEF Story
<1>8. \A s : Held(s, events, told.landed, told.kept) => Held(s, events', told.landed, {})
  BY HeldNone
<1>9. told.landed \subseteq Msg \cap told'.used
  BY <1>5 DEF PgHist
<1>10. \A d \in Caller : call'[d] = call[d]
  BY <1>1
<1>11. Held(copy', events', told.landed, {})
  BY <1>1, <1>4, <1>8
<1>12. {} \subseteq told.landed /\ {} \subseteq Lineage(events', HeadIn(copy.events))
  OBVIOUS
<1> DEFINE h == HeadIn(copy.events)
           state == copy.state
<1> HIDE DEF h, state
<1>13. row' = [state |-> state, leaf |-> h] /\ h \in MsgsIn(events') \cup {None}
       /\ state \in SessionState
  BY <1>1, <1>6, <1>7 DEF h, state
<1> QED  BY <1>5, <1>6, <1>8, <1>9, <1>10, <1>11, <1>12, <1>13, HistWritten

-----------------------------------------------------------------------------
LEMMA PgInitHist == PgInit => PgHist
<1> SUFFICES ASSUME PgInit PROVE PgHist
  OBVIOUS
<1>1. call = [c \in Caller |-> Idle] /\ copy = None
  BY DEF PgInit, InitClients
<1>2. \A c \in Caller : EmptyHanded(call[c])
  BY <1>1, IdleFormed DEF EmptyHanded
<1>3. told.landed = {} /\ told.kept = {}
  BY DEF PgInit, InitClients
<1>4. events = << >> /\ row.state \in SessionState /\ row.leaf = None
  BY DEF PgInit, SessionState
<1>5. Story(events, {})
  BY <1>4 DEF Story, MsgsIn, ParentsIn
<1> QED  BY <1>1, <1>2, <1>3, <1>4, <1>5 DEF PgHist, HistoryKept, EmptyHanded

LEMMA PgStepHist == PgIInv /\ RowFormed /\ PgHist /\ [PgNext]_pgVars => PgHist'
<1> SUFFICES ASSUME PgIInv, RowFormed, PgHist, PgNext \/ UNCHANGED pgVars PROVE PgHist'
  OBVIOUS
<1>1. CASE UNCHANGED pgVars
  BY <1>1 DEF pgVars, PgHist, HistoryKept
<1>2. ASSUME NEW c \in Caller,
             \/ PgAppend(c) \/ AppendTx(c) \/ AppendFails(c) \/ ReadRow(c) \/ ReadEvents(c)
             \/ ForkWrite(c) \/ PgSave(c) \/ PgDelete(c) \/ PgRestore(c)
      PROVE  PgHist'
  BY <1>2, AppendsKeepHist, AppendTxKeepsHist, ReadsKeepHist, ForkWriteKeepsHist,
     PgSaveKeepsHist, PgDeleteKeepsHist, PgRestoreKeepsHist
<1>3. ASSUME NEW c \in Caller,
             \/ PgFinalize(c) \/ PgLoad(c) \/ PgFork(c) \/ PgEnqueue(c) \/ PgDequeue(c)
             \/ PgGiveOut(c) \/ PgCancel(c) \/ PgReplace(c) \/ PgDropped(c)
      PROVE  PgHist'
  BY <1>3, BystandersKeepHist
<1> QED  BY <1>1, <1>2, <1>3 DEF PgNext

\* However appends, forks, saves, deletions and restores overlap, replies get lost
\* and are retried, and calls are dropped: a message that landed stays on the line
\* that the next message continues, until a session from which it is missing is
\* written over it, or a message is appended a second time
\* (src/src/session/persistence_postgres.rs).
THEOREM PgHistoryStays == PgSpec => []HistoryKept
<1>1. PgInit => RowFormed
  BY DEF PgInit, RowFormed
<1>2. PgHist => HistoryKept
  BY DEF PgHist
<1> QED  BY <1>1, <1>2, PgInitInv, PgStepInv, RowStays, PgInitHist, PgStepHist, PTL DEF PgSpec

-----------------------------------------------------------------------------
(***************************************************************************)
(* Both                                                                    *)
(***************************************************************************)

BothInv ==
    \/ backend = "redis" /\ RedisIInv /\ RedisHanded /\ row = None
    \/ backend = "postgres" /\ PgIInv /\ RowFormed /\ PgHist

LEMMA InitBoth == Init => BothInv
BY RedisInitInv, InitHanded, PgInitInv, PgInitHist DEF Init, BothInv, PgInit, RowFormed

LEMMA StepBoth == BothInv /\ [Next]_vars => BothInv'
<1> SUFFICES ASSUME BothInv, Next \/ UNCHANGED vars PROVE BothInv'
  OBVIOUS
<1>1. UNCHANGED backend
  BY DEF Next, vars
<1>2. CASE backend = "redis"
  <2>1. [RedisNext]_redisVars /\ row' = row
    BY <1>2 DEF Next, vars, redisVars, clientVars
  <2> QED  BY <1>1, <1>2, <2>1, RedisStepInv, StepHanded DEF BothInv
<1>3. CASE backend = "postgres"
  <2>1. [PgNext]_pgVars
    BY <1>3 DEF Next, vars, pgVars, clientVars
  <2> QED  BY <1>1, <1>3, <2>1, PgStepInv, RowStays, PgStepHist DEF BothInv
<1> QED  BY <1>2, <1>3 DEF BothInv

\* A state the session ended in is not finalized again.
LEMMA EndIsFinal ==
  ASSUME NEW s \in Terminal, NEW t \in Terminal
  PROVE  Finalize(s, t) \in {s, "Illegal"}
BY DEF Finalize, Transition, CanTransitionTo, Terminal, Finalizing

\* What a step in Redis does to the end of a session.
LEMMA RedisEnds ==
  ASSUME RedisIInv, RedisNext, session # None, session.state \in Terminal
  PROVE  \/ session' = None
         \/ session' # None /\ session'.state = session.state
         \/ \E c \in Caller : RedisSave(c)
<1>1. CASE session' = session
  BY <1>1
<1>2. CASE LeaseExpires \/ SessionExpires
  BY <1>2 DEF LeaseExpires, SessionExpires, dataVars
<1>3. ASSUME NEW c \in Caller, CompareAndSet(c)
      PROVE  session' # None /\ session'.state = session.state
  <2> DEFINE k == call[c]
  <2>1. /\ k.pc = "cas" /\ k.seen = session /\ session' = Mutated(session, k.op, k.arg)
    BY <1>3 DEF CompareAndSet, Same
  <2>2. /\ k.op \in {"append", "finalize", "fork"} /\ session' # None
        /\ k.op = "finalize" => k.arg \in Terminal
    BY <2>1 DEF RedisIInv, RedisCalling, Knows
  <2>3. session \in Sessions
    BY DEF RedisIInv, RedisStored, MaybeSession
  <2> HIDE DEF k
  <2>4. CASE k.op = "finalize"
    <3>1. Finalize(session.state, k.arg) = session.state
      BY <2>1, <2>2, <2>4, EndIsFinal DEF Mutated
    <3> QED  BY <2>1, <2>2, <2>3, <2>4, <3>1 DEF Mutated, Sessions
  <2>5. CASE k.op # "finalize"
    BY <2>1, <2>2, <2>3, <2>5 DEF Mutated, Sessions
  <2> QED  BY <2>2, <2>4, <2>5
<1>4. ASSUME NEW c \in Caller, DeleteSession(c) PROVE session' = None
  BY <1>4 DEF DeleteSession
<1>5. ASSUME NEW c \in Caller,
             \/ RedisMutate(c) \/ Acquire(c) \/ AcquireFails(c) \/ Get(c) \/ CommandFails(c)
             \/ Release(c) \/ Dropped(c) \/ RedisLoad(c) \/ RedisDelete(c)
             \/ RedisRestore(c) \/ Stage(c) \/ Publish(c)
      PROVE  session' = session
  BY <1>5 DEF RedisMutate, Acquire, AcquireFails, Get, CommandFails, Release, Dropped,
     RedisLoad, RedisDelete, RedisRestore, Stage, Publish, dataVars
<1>6. ASSUME NEW c \in Caller,
             \/ Unindex(c) \/ UnindexItem(c) \/ DeleteQueue(c) \/ RedisEnqueue(c) \/ Pop(c)
             \/ GiveOut(c) \/ RedisCancel(c) \/ Remove(c) \/ CancelDone(c) \/ RedisReplace(c)
             \/ ReadItems(c) \/ Swap(c) \/ RedisCleanup(c) \/ Entries(c) \/ CheckSession(c)
             \/ CheckItem(c) \/ DropEntry(c)
      PROVE  session' = session
  BY <1>6 DEF Unindex, UnindexItem, DeleteQueue, RedisEnqueue, Pop, GiveOut, RedisCancel,
     Remove, CancelDone, RedisReplace, ReadItems, Swap, RedisCleanup, Entries, CheckSession,
     CheckItem, DropEntry, dataVars
<1> QED  BY <1>1, <1>2, <1>3, <1>4, <1>5, <1>6 DEF RedisNext

\* What a step in PostgreSQL does to it.
LEMMA PgEnds ==
  ASSUME RowFormed, PgNext, row # None, row.state \in Terminal
  PROVE  \/ row' = None
         \/ row'.state = row.state
         \/ \E c \in Caller : PgSave(c) \/ ForkWrite(c)
<1>1. CASE row' = row
  BY <1>1
<1>2. ASSUME NEW c \in Caller,
             \/ PgAppend(c) \/ AppendFails(c) \/ PgLoad(c) \/ ReadRow(c) \/ ReadEvents(c)
             \/ PgFork(c) \/ PgEnqueue(c) \/ PgDequeue(c) \/ PgGiveOut(c) \/ PgCancel(c)
             \/ PgReplace(c) \/ PgDropped(c)
      PROVE  row' = row
  BY <1>2 DEF PgAppend, AppendFails, PgLoad, ReadRow, ReadEvents, PgFork, PgEnqueue,
     PgDequeue, PgGiveOut, PgCancel, PgReplace, PgDropped
<1>3. ASSUME NEW c \in Caller, AppendTx(c)
      PROVE  row'.state = row.state
  <2> DEFINE m == call[c].arg
  <2>1. row' = [row EXCEPT !.leaf = m]
    BY <1>3 DEF AppendTx
  <2> HIDE DEF m
  <2>2. row = [state |-> row.state, leaf |-> row.leaf]
    BY DEF RowFormed
  <2>3. row' = [state |-> row.state, leaf |-> m]
    BY <2>1, <2>2
  <2> QED  BY <2>3
<1>4. ASSUME NEW c \in Caller, PgFinalize(c) \/ PgRestore(c) PROVE FALSE
  BY <1>4 DEF PgFinalize, Finalizable, PgRestore
<1>5. ASSUME NEW c \in Caller, PgDelete(c) PROVE row' = None
  BY <1>5 DEF PgDelete
<1> QED  BY <1>1, <1>2, <1>3, <1>4, <1>5 DEF PgNext

\* On either backend, an item of the queue is given out at most once, and never
\* both given out and reported as cancelled, however calls overlap and wherever
\* they are dropped.
THEOREM EitherGivesOnce == Spec => []HandedOnce
<1>1. BothInv => HandedOnce
  BY RedisHandedPlaces, PgHandedPlaces DEF BothInv, HandedOnce
<1> QED  BY <1>1, InitBoth, StepBoth, PTL DEF Spec

\* In the composition, where one of the two backends has the session, what was
\* kept of the history stays visible.
THEOREM HistoryStays == Spec => []HistoryKept
<1>1. BothInv => HistoryKept
  BY DEF BothInv, PgHist, HistoryKept
<1> QED  BY <1>1, InitBoth, StepBoth, PTL DEF Spec

\* On either backend, no finalize of one caller undoes that of another, and
\* nothing else does but the saves of a whole session.
THEOREM EitherKeepsEnd == Spec => EndKept
<1>1. BothInv /\ [Next]_vars => [EndStays]_vars
  <2> SUFFICES ASSUME BothInv, Next, Stored \in Terminal PROVE EndStays
    BY DEF EndStays
  <2>1. CASE backend = "redis"
    <3>1. backend' = "redis" /\ RedisNext
      BY <2>1 DEF Next
    <3>2. session # None /\ session.state \in Terminal
      BY <2>1, SharedAssumption DEF Stored, SharedAssumption
    <3>3. RedisIInv
      BY <2>1 DEF BothInv
    <3>4. \/ session' = None
          \/ session' # None /\ session'.state = session.state
          \/ \E c \in Caller : RedisSave(c)
      BY <3>1, <3>2, <3>3, RedisEnds
    <3> QED  BY <2>1, <3>1, <3>2, <3>4 DEF EndStays, Stored, Overwrites
  <2>2. CASE backend = "postgres"
    <3>1. backend' = "postgres" /\ PgNext /\ backend # "redis"
      BY <2>2 DEF Next
    <3>2. row # None /\ row.state \in Terminal
      BY <2>2, SharedAssumption DEF Stored, SharedAssumption
    <3>3. RowFormed
      BY <2>2 DEF BothInv
    <3>4. \/ row' = None
          \/ row'.state = row.state
          \/ \E c \in Caller : PgSave(c) \/ ForkWrite(c)
      BY <3>1, <3>2, <3>3, PgEnds
    <3> QED  BY <2>2, <3>1, <3>2, <3>4 DEF EndStays, Stored, Overwrites
  <2> QED  BY <2>1, <2>2 DEF BothInv
<1> QED  BY <1>1, InitBoth, StepBoth, PTL DEF Spec, EndKept
=============================================================================
