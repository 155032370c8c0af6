----------------------------- MODULE SessionFSM -----------------------------
(***************************************************************************)
(* The session lifecycle state machine shared by main sessions, subagent   *)
(* sessions and the task tracker (src/src/session/state/enums.rs), and the *)
(* three Session methods that drive it (src/src/session/state/mod.rs).     *)
(*                                                                         *)
(* Pure operators: a method that returns an error returns "Illegal" here.  *)
(***************************************************************************)

Finalizing == {"Completing", "Failing", "Cancelling"}
Terminal   == {"Completed", "Failed", "Cancelled"}

SessionState == {"Created", "Running"} \cup Finalizing \cup Terminal

\* Mutant: a session that was completing ends Failed.
TerminalFromFinalizingFailed ==
    [s \in Finalizing |-> IF s = "Cancelling" THEN "Cancelled" ELSE "Failed"]

\* SessionState::terminal_from_finalizing
TerminalFromFinalizing ==
    [s \in Finalizing |-> CASE s = "Completing" -> "Completed"
                            [] s = "Failing"    -> "Failed"
                            [] s = "Cancelling" -> "Cancelled"]

\* SessionState::finalizing_phase, the inverse of the map above
FinalizingPhase ==
    [s \in Terminal |-> CASE s = "Completed" -> "Completing"
                          [] s = "Failed"    -> "Failing"
                          [] s = "Cancelled" -> "Cancelling"]

\* The moves listed one by one in can_transition_to.
ForwardMoves ==
    { <<"Created", "Running">>, <<"Running", "Completing">>,
      <<"Completing", "Completed">>, <<"Failing", "Failed">>,
      <<"Cancelling", "Cancelled">> }

\* Mutant: the Failing and Cancelling lanes open from terminal states too.
CanTransitionToFromTerminal(from, to) ==
    from # to /\ (to \in {"Failing", "Cancelling"} \/ <<from, to>> \in ForwardMoves)

\* SessionState::can_transition_to
CanTransitionTo(from, to) ==
    /\ from \notin Terminal
    /\ from # to
    /\ to \in {"Failing", "Cancelling"} \/ <<from, to>> \in ForwardMoves

\* Session::transition
Transition(from, to) == IF CanTransitionTo(from, to) THEN to ELSE "Illegal"

\* Session::reset_for_resume
ResetForResume(s) == IF s \in Terminal THEN "Created" ELSE "Illegal"

\* Session::finalize: walk to `terminal` through whatever phases are missing.
Finalize(s, terminal) ==
    LET started == IF s = "Created" THEN "Running" ELSE s
        phased  == IF started \in Finalizing
                   THEN started
                   ELSE Transition(started, FinalizingPhase[terminal])
    IN  IF s = terminal THEN s
        ELSE IF phased = "Illegal" THEN "Illegal"
        ELSE Transition(phased, terminal)
=============================================================================
