--------------------------- MODULE DbwStateMachine ---------------------------
(***************************************************************************)
(* The state machine by which a vehicle platform decides whether the       *)
(* commands it sends to the drive-by-wire system ask for control.  Its     *)
(* methods are functions from the machine to the machine.                  *)
(***************************************************************************)
EXTENDS Naturals

CONSTANT Debounce   \* dbw_disabled_debounce; every platform of the code uses 3

ASSUME DebounceAssumption == Debounce \in Nat

DbwStates == {"DISABLED", "ENABLE_REQUESTED", "ENABLE_SENT", "ENABLED"}

DbwMachine ==
  [state : DbwStates, first_control_cmd_sent : BOOLEAN,
   first_state_cmd_sent : BOOLEAN, disabled_feedback_count : 0..Debounce]

\* What the constructor and disable_and_reset leave.
Disabled ==
  [state |-> "DISABLED", first_control_cmd_sent |-> FALSE,
   first_state_cmd_sent |-> FALSE, disabled_feedback_count |-> 0]

BothSent(dbw) == dbw.first_control_cmd_sent /\ dbw.first_state_cmd_sent

Enabled(dbw) ==
  \/ dbw.state \in {"ENABLE_SENT", "ENABLED"}
  \/ dbw.state = "ENABLE_REQUESTED" /\ BothSent(dbw)

\* Mutant: a report that the system is disabled ends nothing once it was enabled.
DbwFeedbackSticks(dbw, enabled) ==
  CASE dbw.state = "ENABLE_SENT" /\ enabled ->
         [dbw EXCEPT !.state = "ENABLED", !.disabled_feedback_count = 0]
    [] dbw.state = "ENABLE_SENT" /\ ~enabled /\ dbw.disabled_feedback_count < Debounce ->
         [dbw EXCEPT !.disabled_feedback_count = @ + 1]
    [] dbw.state = "ENABLE_SENT" /\ ~enabled /\ dbw.disabled_feedback_count = Debounce ->
         Disabled
    [] OTHER -> dbw

\* Mutant: the count is compared before it is raised.
DbwFeedbackCountsLate(dbw, enabled) ==
  CASE dbw.state = "ENABLE_SENT" /\ enabled ->
         [dbw EXCEPT !.state = "ENABLED", !.disabled_feedback_count = 0]
    [] dbw.state = "ENABLE_SENT" /\ ~enabled /\ dbw.disabled_feedback_count <= Debounce ->
         [dbw EXCEPT !.disabled_feedback_count = @ + 1]
    [] ~enabled /\ (dbw.state = "ENABLED" \/ dbw.disabled_feedback_count > Debounce) ->
         Disabled
    [] OTHER -> dbw

\* Mutant: a system that was disabled while it was enabled is enabled again.
DbwFeedbackRetries(dbw, enabled) ==
  CASE dbw.state = "ENABLE_SENT" /\ enabled ->
         [dbw EXCEPT !.state = "ENABLED", !.disabled_feedback_count = 0]
    [] dbw.state = "ENABLE_SENT" /\ ~enabled /\ dbw.disabled_feedback_count < Debounce ->
         [dbw EXCEPT !.disabled_feedback_count = @ + 1]
    [] dbw.state = "ENABLE_SENT" /\ ~enabled /\ dbw.disabled_feedback_count = Debounce ->
         Disabled
    [] dbw.state = "ENABLED" /\ ~enabled -> [Disabled EXCEPT !.state = "ENABLE_REQUESTED"]
    [] OTHER -> dbw

DbwFeedback(dbw, enabled) ==
  CASE dbw.state = "ENABLE_SENT" /\ enabled ->
         [dbw EXCEPT !.state = "ENABLED", !.disabled_feedback_count = 0]
    [] dbw.state = "ENABLE_SENT" /\ ~enabled /\ dbw.disabled_feedback_count < Debounce ->
         [dbw EXCEPT !.disabled_feedback_count = @ + 1]
    [] dbw.state = "ENABLE_SENT" /\ ~enabled /\ dbw.disabled_feedback_count = Debounce ->
         Disabled
    [] dbw.state = "ENABLED" /\ ~enabled -> Disabled
    [] OTHER -> dbw

ControlCmdSent(dbw) ==
  CASE dbw.state = "ENABLE_REQUESTED" /\ BothSent(dbw) ->
         [dbw EXCEPT !.state = "ENABLE_SENT"]
    [] dbw.state = "ENABLE_REQUESTED" /\ ~BothSent(dbw) ->
         [dbw EXCEPT !.first_control_cmd_sent = TRUE]
    [] OTHER -> dbw

StateCmdSent(dbw) ==
  CASE dbw.state = "ENABLE_REQUESTED" /\ BothSent(dbw) ->
         [dbw EXCEPT !.state = "ENABLE_SENT"]
    [] dbw.state = "ENABLE_REQUESTED" /\ ~BothSent(dbw) ->
         [dbw EXCEPT !.first_state_cmd_sent = TRUE]
    [] OTHER -> dbw

\* Mutant: a request to disable leaves the record of the commands sent.
UserRequestKeepsFlags(dbw, enable) ==
  CASE enable /\ dbw.state = "DISABLED" -> [dbw EXCEPT !.state = "ENABLE_REQUESTED"]
    [] ~enable -> [dbw EXCEPT !.state = "DISABLED"]
    [] OTHER -> dbw

UserRequest(dbw, enable) ==
  CASE enable /\ dbw.state = "DISABLED" -> [dbw EXCEPT !.state = "ENABLE_REQUESTED"]
    [] ~enable -> Disabled
    [] OTHER -> dbw
=============================================================================
