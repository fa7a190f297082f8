---------------------------- MODULE SessionState ----------------------------
(***************************************************************************)
(* The session state the integration shows, derived from one status block  *)
(* and the coordinator's memory (session_state.py).  Currents are in mA,   *)
(* the charger's own unit.  The largest of the three phase currents stands *)
(* for all three: nothing else of them is used.                            *)
(***************************************************************************)
EXTENDS Naturals

SessionStates ==
    {"idle", "active", "completed", "paused_by_current", "paused_by_command", "unknown"}

LastCommands == {"none", "start", "stop"}

\* IEC 61851-1: a commanded limit below 6 A pauses the session.
PAUSE_CURRENT_THRESHOLD == 6000

\* Consecutive polls for which state 5 with a usable limit counts as a transition.
STATE_5_TRANSITION_POLLS == 2

\* CHARGING_STATES of const.py: 0 A idle, 1 B1 plugged in, 2 B2 complete,
\* 3 C1 ready, 4 C2 charging, 5 D/F paused or fault.
Charging == {3, 4}
Plugged == {0, 1}

\* Mutants: state 5 with a usable limit is active for ever; one poll too few is.
PausedState_NoCount(limit, command, maxPhase, state5Polls) ==
    CASE command = "stop" -> "paused_by_command"
      [] command # "stop" /\ limit < PAUSE_CURRENT_THRESHOLD -> "paused_by_current"
      [] OTHER -> IF maxPhase <= PAUSE_CURRENT_THRESHOLD THEN "active" ELSE "unknown"
PausedState_OffByOne(limit, command, maxPhase, state5Polls) ==
    CASE command = "stop" -> "paused_by_command"
      [] command # "stop" /\ limit < PAUSE_CURRENT_THRESHOLD -> "paused_by_current"
      [] OTHER -> IF maxPhase <= PAUSE_CURRENT_THRESHOLD /\ state5Polls < STATE_5_TRANSITION_POLLS
                  THEN "active" ELSE "unknown"

\* State D/F, "paused": by a stop command, by a limit too low to charge, or the
\* short transition in which a session starts.
PausedState(limit, command, maxPhase, state5Polls) ==
    CASE command = "stop" -> "paused_by_command"
      [] command # "stop" /\ limit < PAUSE_CURRENT_THRESHOLD -> "paused_by_current"
      [] /\ command # "stop"
         /\ limit >= PAUSE_CURRENT_THRESHOLD
         /\ maxPhase <= PAUSE_CURRENT_THRESHOLD
         /\ state5Polls <= STATE_5_TRANSITION_POLLS -> "active"
      [] OTHER -> "unknown"

derive_session_state(raw, limit, command, maxPhase, state5Polls, wasActive) ==
    CASE raw = 1 -> IF wasActive /\ limit < PAUSE_CURRENT_THRESHOLD
                    THEN "paused_by_current"
                    ELSE "idle"
      [] raw = 0 -> "idle"
      [] raw = 2 -> "completed"
      [] raw \in Charging -> "active"
      [] raw = 5 -> PausedState(limit, command, maxPhase, state5Polls)
      [] OTHER -> "unknown"
=============================================================================
