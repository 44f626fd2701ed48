-------------------------- MODULE SafetyStateMachine --------------------------
(***************************************************************************)
(* The safety state machine of the vehicle interface.  It looks at every   *)
(* control command and at the state command that goes with it, removes     *)
(* what is out of range or would shift gears at speed, shifts by itself    *)
(* between drive and reverse at low speed, and remembers which changes it  *)
(* asked the vehicle for, to report those that do not happen in time.      *)
(*                                                                         *)
(* The unit of velocity and the time step are chosen such that an          *)
(* acceleration is the change of velocity in one time step.                *)
(***************************************************************************)
EXTENDS Integers

CONSTANTS
  Threshold,          \* gear_shift_velocity_threshold
  Deadzone,           \* auto_gear_shift_accel_deadzone
  AccelMin, AccelMax, \* accel_limits: the range
  AccelThreshold,     \* accel_limits: distance from the range that is reported
  TransitionTimeout,  \* state_transition_timeout
  Velocities          \* velocities the vehicle may report

ASSUME ConfigAssumption ==
  /\ Threshold \in Nat \ {0} /\ Deadzone \in Nat \ {0}
  /\ AccelMin \in Int /\ AccelMax \in Int /\ AccelMin < AccelMax
  /\ AccelThreshold \in Int
  /\ TransitionTimeout \in Nat
ASSUME VelocitiesAssumption == Velocities \subseteq Int

VARIABLES
  m_odometry,  \* m_odometry.velocity_mps
  m_state,     \* m_state: the last report of each component
  m_requests,  \* m_requests: for each component, value and stamp of the last request
  m_reports,   \* m_reports
  asked,       \* history: changes asked for, neither reported nor taken back since
  overdue      \* history: was one of them too old at the last report?

machineVars == <<m_odometry, m_state, m_requests, m_reports, asked, overdue>>

-----------------------------------------------------------------------------
(* The components of the vehicle's state.                                  *)

NoCommand == "NO_COMMAND"

\* The commands for each component, as far as sanitize knows them.
Commands == [gear      |-> {"DRIVE", "REVERSE", "PARK", "NEUTRAL", "LOW"},
             blinker   |-> {"OFF", "LEFT", "RIGHT", "HAZARD"},
             wiper     |-> {"DISABLE", "ENABLE_LOW", "ENABLE_HIGH", "ENABLE_CLEAN"},
             headlight |-> {"DISABLE", "ENABLE_LOW", "ENABLE_HIGH"},
             mode      |-> {"AUTONOMOUS", "MANUAL"}]
Fields == DOMAIN Commands
Flags == {"horn", "hand_brake"}
Components == Fields \union Flags

\* The values of a flag, true and false.
FlagValues == {"ON", "RELEASED"}

\* A command or a report may hold a value that is none of these.
FieldValues == (UNION {Commands[f] : f \in Fields}) \union {NoCommand, "INVALID"}
Vectors == {v \in [Components -> FieldValues \union FlagValues] :
              /\ \A f \in Fields : v[f] \in FieldValues
              /\ \A f \in Flags : v[f] \in FlagValues}

\* The default value of a component in a command.
Nothing(c) == IF c \in Flags THEN "RELEASED" ELSE NoCommand
NoVector == [c \in Components |-> Nothing(c)]

\* The smallest stamp there is.
MinStamp == -(TransitionTimeout + 1)
Stamps == Nat \union {MinStamp}

ReportKinds == {"CLAMP_PAST_THRESHOLD", "BAD_STATE", "WIPERS_ON_HEADLIGHTS_ON",
                "REMOVE_GEAR_COMMAND", "STATE_TRANSITION_TIMEOUT"}

MachineTypeOK ==
  /\ m_odometry \in Int
  /\ m_state \in Vectors
  /\ DOMAIN m_requests = Components
  /\ \A f \in Fields : /\ m_requests[f].value \in Commands[f] \union {NoCommand}
                       /\ m_requests[f].stamp \in Stamps
  /\ \A f \in Flags : /\ m_requests[f].value \in FlagValues
                      /\ m_requests[f].stamp \in Stamps
  /\ m_reports \subseteq ReportKinds
  /\ \A a \in asked : a.component \in Components /\ a.stamp \in Nat
  /\ overdue \in BOOLEAN

MachineInit ==
  /\ m_odometry = 0
  /\ m_state = [c \in Components |->
                  CASE c = "gear" -> "DRIVE" [] c = "blinker" -> "OFF"
                    [] c \in {"wiper", "headlight"} -> "DISABLE"
                    [] c = "mode" -> "INVALID" [] OTHER -> "RELEASED"]
  /\ m_requests = [c \in Components |-> [value |-> Nothing(c), stamp |-> MinStamp]]
  /\ m_reports = {}
  /\ asked = {}
  /\ overdue = FALSE

-----------------------------------------------------------------------------
(* compute_safe_commands.                                                  *)

Abs(n) == IF n < 0 THEN -n ELSE n
Clamp(accel) == IF accel < AccelMin THEN AccelMin ELSE IF accel > AccelMax THEN AccelMax ELSE accel
ClampWarns(accel) == Abs(Clamp(accel) - accel) >= AccelThreshold

Sanitize(v) ==
  [c \in Components |-> IF c \in Fields /\ v[c] \notin Commands[c] THEN NoCommand ELSE v[c]]

HeadlightsOnIfWipersOn(v) ==
  /\ v["wiper"] \in {"ENABLE_LOW", "ENABLE_HIGH"}
  /\ v["headlight"] \in {"DISABLE", NoCommand}

OverThreshold == Abs(m_odometry) > Threshold
Forward(gear) == gear \in {"DRIVE", "LOW"}

\* Mutant: the vehicle is taken for slow while it rolls backwards.
BadGearShiftForward(gear) ==
  /\ gear # NoCommand
  /\ m_odometry > Threshold
  /\ m_state["gear"] # gear

BadGearShift(gear) ==
  /\ gear # NoCommand
  /\ OverThreshold
  /\ \/ Forward(m_state["gear"]) # Forward(gear)
     \/ m_state["gear"] # gear

AutomaticGearShift(accel, gear) ==
  IF \/ gear = "PARK"
     \/ Abs(accel) < Deadzone
     \/ OverThreshold
     \/ accel * m_odometry > 0
     \/ m_odometry # 0 /\ m_odometry * (m_odometry + accel) >= 0
  THEN gear
  ELSE IF accel > 0 THEN "DRIVE" ELSE "REVERSE"

WithHeadlights(v) ==
  IF HeadlightsOnIfWipersOn(v) THEN [v EXCEPT !["headlight"] = "ENABLE_LOW"] ELSE v

\* The gear to ask for, before bad_gear_shift has seen it.
WantedGear(v, accel) ==
  LET gear == AutomaticGearShift(accel, v["gear"])
  IN  IF gear = m_state["gear"] THEN NoCommand ELSE gear

SafeState(v, accel) ==
  LET lit  == WithHeadlights(Sanitize(v))
      gear == WantedGear(lit, accel)
  IN  [lit EXCEPT !["gear"] = IF BadGearShift(gear) THEN NoCommand ELSE gear]

StateReports(v, accel) ==
  {r \in ReportKinds :
     \/ r = "BAD_STATE" /\ \E f \in Fields : v[f] \notin Commands[f] \union {NoCommand}
     \/ r = "WIPERS_ON_HEADLIGHTS_ON" /\ HeadlightsOnIfWipersOn(Sanitize(v))
     \/ r = "REMOVE_GEAR_COMMAND" /\ BadGearShift(WantedGear(Sanitize(v), accel))}

\* Does command v ask component c to change?
Asks(v, c) == (c \in Flags \/ v[c] # NoCommand) /\ v[c] # m_state[c]

\* Mutant: a request is kept until it is satisfied.
CacheOneRequest(v, stamp) ==
  m_requests' = [c \in Components |->
                   IF Asks(v, c) /\ m_requests[c].value = Nothing(c)
                   THEN [value |-> v[c], stamp |-> stamp] ELSE m_requests[c]]

CacheStateChangeRequest(v, stamp) ==
  m_requests' = [c \in Components |->
                   IF Asks(v, c) THEN [value |-> v[c], stamp |-> stamp] ELSE m_requests[c]]

\* A command for a component overtakes what was asked of it before.
Ask(v, stamp) ==
  asked' = {a \in asked : a.component \in Fields /\ v[a.component] = NoCommand}
             \union {[component |-> c, value |-> v[c], stamp |-> stamp] :
                       c \in {d \in Components : Asks(v, d)}}

\* With a state command: what the platform gets is SafeState(v, accel).
ComputeSafeCommands(v, stamp, accel, wheel_warns) ==
  /\ m_reports' = (IF ClampWarns(accel) \/ wheel_warns THEN {"CLAMP_PAST_THRESHOLD"} ELSE {})
                    \union StateReports(v, Clamp(accel))
  /\ CacheStateChangeRequest(SafeState(v, Clamp(accel)), stamp)
  /\ Ask(SafeState(v, Clamp(accel)), stamp)
  /\ overdue' = FALSE
  /\ UNCHANGED <<m_odometry, m_state>>

\* Without one: the platform may get a gear to shift into, which is not cached.
GearWithoutCommand(accel) ==
  LET gear == AutomaticGearShift(Clamp(accel), m_state["gear"])
  IN  IF gear = m_state["gear"] THEN NoCommand ELSE gear

ComputeWithoutState(accel, wheel_warns) ==
  /\ m_reports' = IF ClampWarns(accel) \/ wheel_warns THEN {"CLAMP_PAST_THRESHOLD"} ELSE {}
  /\ overdue' = FALSE
  /\ UNCHANGED <<m_odometry, m_state, m_requests, asked>>

-----------------------------------------------------------------------------
(* update.                                                                 *)

\* check_state_change: a request that is satisfied gets the smallest stamp and
\* is then compared with it; those of the flags are never taken back.
Satisfied(state, c) ==
  c \in Fields /\ m_requests[c].value # NoCommand /\ m_requests[c].value = state[c]

RequestTimedOut(state, stamp, c) ==
  \/ Satisfied(state, c)
  \/ /\ m_requests[c].value # state[c]
     /\ c \in Flags \/ m_requests[c].value # NoCommand
     /\ stamp - TransitionTimeout > m_requests[c].stamp

CheckStateChange(state, stamp) ==
  /\ m_requests' = [c \in Components |-> IF Satisfied(state, c)
                                         THEN [value |-> NoCommand, stamp |-> MinStamp]
                                         ELSE m_requests[c]]
  /\ m_reports' = IF \E c \in Components : RequestTimedOut(state, stamp, c)
                  THEN {"STATE_TRANSITION_TIMEOUT"} ELSE {}

Update(velocity, state, stamp) ==
  /\ m_odometry' = velocity
  /\ m_state' = state
  /\ CheckStateChange(state, stamp)
  /\ asked' = {a \in asked : state[a.component] # a.value}
  /\ overdue' = (\E a \in asked' : stamp - TransitionTimeout > a.stamp)
=============================================================================
