-------------------------------- MODULE FSM --------------------------------
(***************************************************************************)
(* The session state machine of src/fsm: the ten session states, the map   *)
(* of valid transitions, the three guards and the outcome of one call of   *)
(* FSMStateMachine.transition.  The machine is rebuilt around the current  *)
(* state of a session for every decision, so it keeps no state of its own  *)
(* and is written here as constant operators; the modules that own a       *)
(* session apply them to the state they hold.                              *)
(***************************************************************************)
EXTENDS FiniteSets

TERMINAL_STATES ==
    {"HANDOFF_HUMAN", "SELF_SERVE_INFO", "ROUTE_EXTERNAL",
     "SCHEDULED_FOLLOWUP", "TIMEOUT", "ERROR"}

ACTIVE_STATES == {"INITIAL", "TRIAGE", "COLLECTING_INFO", "GENERATING_RESPONSE"}

SessionState == ACTIVE_STATES \cup TERMINAL_STATES

DEFAULT_INITIAL_STATE == "INITIAL"

is_terminal(state) == state \in TERMINAL_STATES

VALID_TRANSITIONS ==
    [s \in SessionState |->
        CASE s = "INITIAL" -> {"TRIAGE", "ERROR", "TIMEOUT"}
          [] s = "TRIAGE" ->
                {"COLLECTING_INFO", "GENERATING_RESPONSE", "HANDOFF_HUMAN",
                 "SELF_SERVE_INFO", "ROUTE_EXTERNAL", "ERROR", "TIMEOUT"}
          [] s = "COLLECTING_INFO" ->
                {"COLLECTING_INFO", "GENERATING_RESPONSE", "HANDOFF_HUMAN",
                 "ROUTE_EXTERNAL", "SCHEDULED_FOLLOWUP", "ERROR", "TIMEOUT"}
          [] s = "GENERATING_RESPONSE" ->
                {"SELF_SERVE_INFO", "HANDOFF_HUMAN", "ROUTE_EXTERNAL",
                 "SCHEDULED_FOLLOWUP", "ERROR"}
          [] OTHER -> {}]

is_transition_valid(from, to) ==
    /\ from \notin TERMINAL_STATES
    /\ to \in VALID_TRANSITIONS[from]

guard_valid_state(from, to) == from \in SessionState /\ to \in SessionState

guard_terminal_state(from, to) == from \notin TERMINAL_STATES

\* Only the collection loop may stay where it is.
guard_same_state(from, to) == from = "COLLECTING_INFO" \/ from # to

evaluate_guards(from, to) ==
    /\ guard_valid_state(from, to)
    /\ guard_terminal_state(from, to)
    /\ guard_same_state(from, to)

can_transition_to(from, to) ==
    /\ is_transition_valid(from, to)
    /\ evaluate_guards(from, to)

\* The state a session holds after FSMStateMachine.transition(target): a
\* refused transition leaves it as it was and reports no error to the caller.
transition(from, target) ==
    IF can_transition_to(from, target) THEN target ELSE from
=============================================================================
