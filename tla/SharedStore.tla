---------------------------- MODULE SharedStore ----------------------------
(***************************************************************************)
(* Several callers, in one process or in many, on one session of a shared  *)
(* backend: what the models of the Redis and of the PostgreSQL persistence *)
(* have in common (src/src/session/persistence.rs).                        *)
(*                                                                         *)
(* A session is what must not get lost of it: the messages and the state.  *)
(* A message and a queue item are identities, each used at most once.      *)
(***************************************************************************)
EXTENDS Integers, FiniteSets, Sequences, SessionFSM

CONSTANTS
    None,
    Caller,
    Msg,        \* messages, by id
    Item,       \* queue items, by id
    Ends,       \* terminal states that callers finalize to
    Spent,      \* sets of ids and ends: a run uses none of one of them (a bound)
    MaxRetries, \* max_retries of the backend's configuration
    MaxFaults   \* bound on lost replies, dropped calls and expired leases

ASSUME SharedAssumption ==
    /\ None \notin Msg \cup Item \cup Caller \cup Terminal
    /\ Ends \subseteq Terminal
    /\ MaxRetries \in Nat
    /\ MaxFaults \in Nat

VARIABLES
    call,   \* the call each caller is in: where it waits, and its locals
    copy,   \* the session that an agent has in memory, or None
    told,   \* what landed and what callers were told of it (history)
    faults  \* faults so far

clientVars == <<call, copy, told, faults>>

Idle == [op |-> "none", pc |-> "idle", arg |-> None, seen |-> None,
         todo |-> {}, tries |-> 0, lease |-> FALSE, result |-> "none"]

Goto(c, next) == call' = [call EXCEPT ![c] = next]

\* A call begins.
Begin(c, op, arg, pc) ==
    /\ call[c] = Idle
    /\ Goto(c, [Idle EXCEPT !.op = op, !.arg = arg, !.pc = pc])

\* A call that is one command, or one transaction.
AtOnce(c) == call[c] = Idle /\ UNCHANGED call

Fault == faults < MaxFaults /\ faults' = faults + 1

(* What callers were told. `kept` are the messages that landed and that no  *)
(* write of a whole session, no deletion and no expiry has hidden since.    *)

Landed(m) ==
    [told EXCEPT !.landed = @ \cup {m}, !.kept = @ \cup {m}]

\* A whole session was written: it has `msgs`, and `new` for the first time.
Overwritten(msgs, new) ==
    [told EXCEPT !.landed = @ \cup msgs \cup new,
                 !.kept   = (@ \cap msgs) \cup new,
                 !.used   = @ \cup new]

\* The session is gone.
Gone == [told EXCEPT !.kept = {}]

Use(ids) == told' = [told EXCEPT !.used = @ \cup ids]

Fresh == (Msg \cup Item) \ told.used

InitClients ==
    /\ call = [c \in Caller |-> Idle]
    /\ copy = None
    /\ \E used \in Spent :
         told = [landed |-> {}, kept |-> {}, acked |-> {}, used |-> used,
                 given |-> {}, cancelled |-> {}]
    /\ faults = 0

(* A queue item is in one place: waiting, in the hand of a dequeue, with    *)
(* the caller it was given to, or cancelled.                                *)
InHand(c, i) == call[c].op = "dequeue" /\ call[c].arg = i

OnePlace(i, waiting) ==
    /\ Cardinality({c \in Caller : InHand(c, i)}) <= 1
    /\ i \in waiting \/ i \in told.given \/ i \in told.cancelled
         => \A c \in Caller : ~InHand(c, i)
    /\ i \in waiting => i \notin told.given \cup told.cancelled
    /\ i \notin told.given \cap told.cancelled
=============================================================================
