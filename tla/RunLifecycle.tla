---------------------------- MODULE RunLifecycle ----------------------------
(***************************************************************************)
(* What the runtime promises about one run, seen from its row and its      *)
(* admission reservation alone: the row only moves along runTransitions,   *)
(* each move advances the version by one, a run ends at most once, and the *)
(* capacity reserved at admission is settled in the very step that ends    *)
(* the run: committed if it succeeded, given back otherwise.               *)
(***************************************************************************)
EXTENDS Naturals, RunStates

VARIABLES
  state,        \* workflow_runs.state
  version,      \* workflow_runs.state_version
  reservation   \* admission_reservations.state of the run's reservation

vars == <<state, version, reservation>>

Init ==
  /\ state = "queued"
  /\ version = 1
  /\ reservation = "reserved"

Move ==
  /\ state' \in RunTransition[state] \ TerminalRun
  /\ version' = version + 1
  /\ UNCHANGED reservation

End ==
  /\ state' \in RunTransition[state] \cap TerminalRun
  /\ version' = version + 1
  /\ reservation' = Settlement(state')

Next == Move \/ End

Spec == Init /\ [][Next]_vars

=============================================================================
