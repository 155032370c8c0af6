---------------------------- MODULE SharedStores ----------------------------
(***************************************************************************)
(* A session that several callers share is in one backend or the other:    *)
(* both, one at a time, and what holds of either.                          *)
(***************************************************************************)
EXTENDS RedisStore, PgStore

VARIABLE backend

\* The other backend has no session.
Init ==
    \/ /\ backend = "redis"
       /\ RedisInit
       /\ row = None /\ events = <<>> /\ adv = None /\ tuples = <<>>
    \/ /\ backend = "postgres"
       /\ PgInit
       /\ session = None /\ lock = None /\ queue = {} /\ index = {}

Next ==
    /\ UNCHANGED backend
    /\ \/ backend = "redis" /\ RedisNext /\ UNCHANGED <<row, events, adv, tuples>>
       \/ backend = "postgres" /\ PgNext /\ UNCHANGED <<session, lock, queue, index>>

vars == <<backend, clientVars, session, lock, queue, index, row, events, adv, tuples>>

Spec == Init /\ [][Next]_vars

\* A queue item is handed to one caller, and never after it was cancelled:
\* it is waiting, in the hand of one dequeue, given out or cancelled, however
\* dequeue, cancel, replace, delete, restore and cleanup overlap.
HandedOnce == IF backend = "redis" THEN RedisHandedOnce ELSE PgHandedOnce

\* The session's state in the backend, None when there is no session.
Stored ==
    IF backend = "redis" THEN IF session = None THEN None ELSE session.state
                         ELSE IF row = None THEN None ELSE row.state

Overwrites ==
    \E c \in Caller : IF backend = "redis" THEN RedisSave(c)
                                           ELSE PgSave(c) \/ ForkWrite(c)

EndStays == Stored \in Terminal => Stored' \in {Stored, None} \/ Overwrites

\* The first end a session is given stays: only a caller that writes the whole
\* session back as it was before, or that removes it, undoes it.
EndKept == [][EndStays]_vars
=============================================================================
