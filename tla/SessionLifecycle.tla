-------------------------- MODULE SessionLifecycle --------------------------
(***************************************************************************)
(* What the durable record of a task session promises its readers,         *)
(* whatever runs behind it: it appears in Running, moves only along the    *)
(* session state machine, and leaves a terminal state only by an explicit  *)
(* resume.  A save may skip the finalizing phase (the orphan sweep writes  *)
(* Failed in one save), so Collapse is a step of its own.                  *)
(***************************************************************************)
EXTENDS SessionFSM

CONSTANT Task

VARIABLE state      \* durable state of each task's session, or "Absent"

Init == state = [t \in Task |-> "Absent"]

\* A registration creates the session or brings an old one back to Running.
Resume(t) ==
    /\ state[t] \in {"Absent"} \cup Terminal
    /\ state' = [state EXCEPT ![t] = "Running"]

\* One legal move of the state machine.
Advance(t) ==
    \E s \in SessionState :
        /\ CanTransitionTo(state[t], s)
        /\ state' = [state EXCEPT ![t] = s]

\* Running to a terminal state in one save.
Collapse(t) ==
    \E s \in Terminal :
        /\ state[t] = "Running"
        /\ state' = [state EXCEPT ![t] = s]

Next == \E t \in Task : Resume(t) \/ Advance(t) \/ Collapse(t)

Spec == Init /\ [][Next]_state
=============================================================================
