--------------------------- MODULE EmergencyHandler ---------------------------
(***************************************************************************)
(* The emergency_handler node: it watches the driving capability, the      *)
(* state of the stack and the vehicle, decides on every timer call whether *)
(* there is an emergency, and then stops the vehicle.  An emergency may be *)
(* held until a service clears it.                                         *)
(*                                                                         *)
(* Two subscriptions read the driving capability: onDrivingCapability      *)
(* stores it and HeartbeatChecker::onHeartbeat takes its time, each from a *)
(* queue of depth one, so that they run in either order and with any       *)
(* callback in between.  A message reaches both readers: the publisher has *)
(* discovered both, and loses none.  All callbacks run on one thread.      *)
(***************************************************************************)
EXTENDS Naturals

CONSTANTS
  DataReadyTimeout,     \* data_ready_timeout
  HeartbeatTimeout,     \* timeout_driving_capability
  TimerPeriod,          \* 1 / update_rate
  UseEmergencyHold,     \* the values of use_emergency_hold
  UseParking,           \* use_parking_after_stopped
  Velocities,           \* the signs of velocity that odometry reports
  NoCapability          \* no DrivingCapability message

ASSUME TimeoutsAssumption ==
  /\ DataReadyTimeout \in Nat /\ HeartbeatTimeout \in Nat
  /\ TimerPeriod \in Nat \ {0}
ASSUME VelocitiesAssumption == "zero" \in Velocities
ASSUME SwitchesAssumption == UseEmergencyHold \subseteq BOOLEAN /\ UseParking \in BOOLEAN

VARIABLES
  use_emergency_hold,   \* use_emergency_hold_, a parameter read once
  autoware_state,       \* autoware_state_
  driving_capability,   \* driving_capability_
  state_report,         \* state_report_->mode
  velocity,             \* the sign of odometry_->velocity_mps
  heartbeat,            \* HeartbeatChecker: was there one, and the age of the last
  queue,                \* the two reader queues of input/driving_capability
  sinceInit,            \* age of initialized_time_
  sinceTimer,           \* age of the last onTimer call
  is_emergency,         \* is_emergency_
  hazard,               \* hazard_status_.emergency
  published,            \* last EmergencyState published
  gear,                 \* gear of the last VehicleStateCommand published
  crashed,              \* has an exception left a callback?
  silence               \* history: for how long the heartbeat has been overdue

inputs  == <<autoware_state, driving_capability, state_report, velocity>>
outputs == <<published, gear>>
verdict == <<is_emergency, hazard>>
clocks  == <<sinceInit, sinceTimer>>
vars    == <<use_emergency_hold, inputs, heartbeat, queue, clocks, verdict, outputs, crashed, silence>>

\* WAITING_FOR_ROUTE is treated as PLANNING is, and WAITING_FOR_ENGAGE and
\* ARRIVED_GOAL as DRIVING.
AutowareStates == {"INITIALIZING", "PLANNING", "DRIVING", "FINALIZING"}
Modes          == {"AUTONOMOUS", "MANUAL", "OTHER"}

\* The hazard status of each driving mode, reduced to its flag "emergency".
Capability   == [autonomous_driving : BOOLEAN, remote_control : BOOLEAN]
ASSUME NoCapabilityAssumption == NoCapability \notin Capability

DataReadyCap == DataReadyTimeout + TimerPeriod + 1
HeartbeatCap == HeartbeatTimeout + 1
SilenceCap   == TimerPeriod + 1
Older(age, cap) == IF age < cap THEN age + 1 ELSE cap

TypeOK ==
  /\ use_emergency_hold \in UseEmergencyHold
  /\ autoware_state \in AutowareStates \union {"none"}
  /\ driving_capability \in Capability \union {NoCapability}
  /\ state_report \in Modes \union {"none"}
  /\ velocity \in Velocities
  /\ heartbeat \in [received : BOOLEAN, age : 0..HeartbeatCap]
  /\ queue \in [capability : Capability \union {NoCapability}, heartbeat : BOOLEAN]
  /\ sinceInit \in 0..DataReadyCap
  /\ sinceTimer \in 0..TimerPeriod
  /\ is_emergency \in BOOLEAN
  /\ hazard \in BOOLEAN
  /\ published \in {"none", "NORMAL", "MRM_OPERATING"}
  /\ gear \in {"none", "PARK", "NO_COMMAND"}
  /\ crashed \in BOOLEAN
  /\ silence \in 0..SilenceCap

Init ==
  /\ use_emergency_hold \in UseEmergencyHold
  /\ autoware_state = "none"
  /\ driving_capability = NoCapability
  /\ state_report = "none"
  /\ velocity = "zero"
  /\ heartbeat = [received |-> FALSE, age |-> 0]
  /\ queue = [capability |-> NoCapability, heartbeat |-> FALSE]
  /\ sinceInit = 0
  /\ sinceTimer = 0
  /\ is_emergency = FALSE
  /\ hazard = FALSE
  /\ published = "none"
  /\ gear = "none"
  /\ crashed = FALSE
  /\ silence = 0

-----------------------------------------------------------------------------
(* Judging the inputs.                                                     *)

IsDataReady ==
  /\ autoware_state # "none"
  /\ driving_capability # NoCapability
  /\ state_report # "none"

ReportedHazard ==
  IF state_report = "AUTONOMOUS" THEN driving_capability.autonomous_driving
                                 ELSE driving_capability.remote_control

IsIgnored ==
  \/ /\ state_report = "AUTONOMOUS"
     /\ autoware_state \in {"INITIALIZING", "PLANNING", "FINALIZING"}
  \/ /\ state_report = "MANUAL"
     /\ autoware_state \in {"INITIALIZING", "FINALIZING"}

\* isTimeout subtracts a time stamp of the system clock from one of the ROS
\* clock, which throws, as long as no heartbeat has replaced the initial stamp.
IsTimeout == heartbeat.age > HeartbeatTimeout
ChecksHeartbeat == autoware_state # "INITIALIZING"

JudgeThrows ==
  \/ ~IsDataReady
  \/ ChecksHeartbeat /\ ~heartbeat.received

\* Mutant: the ignored states cover the heartbeat as well.
JudgeIgnoresSilence == (ReportedHazard \/ (ChecksHeartbeat /\ IsTimeout)) /\ ~IsIgnored

JudgeHazardStatus ==
  \/ ReportedHazard /\ ~IsIgnored
  \/ ChecksHeartbeat /\ IsTimeout

\* The velocity is compared with its sign.
IsStopped == velocity \in {"zero", "reverse"}

-----------------------------------------------------------------------------
(* The callbacks.                                                          *)

OnAutowareState ==
  /\ autoware_state' \in AutowareStates
  /\ UNCHANGED <<driving_capability, state_report, velocity, heartbeat, queue,
                 clocks, verdict, outputs, crashed>>

OnStateReport ==
  /\ state_report' \in Modes
  /\ UNCHANGED <<autoware_state, driving_capability, velocity, heartbeat, queue,
                 clocks, verdict, outputs, crashed>>

OnOdometry ==
  /\ velocity' \in Velocities
  /\ UNCHANGED <<autoware_state, driving_capability, state_report, heartbeat, queue,
                 clocks, verdict, outputs, crashed>>

\* A message published on input/driving_capability replaces the one that each
\* of the two readers has not taken yet.
PublishDrivingCapability ==
  /\ \E c \in Capability : queue' = [capability |-> c, heartbeat |-> TRUE]
  /\ UNCHANGED <<inputs, heartbeat, clocks, verdict, outputs, crashed>>

OnDrivingCapability ==
  /\ queue.capability # NoCapability
  /\ driving_capability' = queue.capability
  /\ queue' = [queue EXCEPT !.capability = NoCapability]
  /\ UNCHANGED <<autoware_state, state_report, velocity, heartbeat,
                 clocks, verdict, outputs, crashed>>

\* Mutant: heartbeats count only once the other inputs are there.
OnHeartbeatOnceReady ==
  /\ queue.heartbeat
  /\ heartbeat' = IF IsDataReady THEN [received |-> TRUE, age |-> 0] ELSE heartbeat
  /\ queue' = [queue EXCEPT !.heartbeat = FALSE]
  /\ UNCHANGED <<inputs, clocks, verdict, outputs, crashed>>

OnHeartbeat ==
  /\ queue.heartbeat
  /\ heartbeat' = [received |-> TRUE, age |-> 0]
  /\ queue' = [queue EXCEPT !.heartbeat = FALSE]
  /\ UNCHANGED <<inputs, clocks, verdict, outputs, crashed>>

\* An exception that leaves a callback ends the process.
Crash ==
  /\ crashed' = TRUE
  /\ UNCHANGED <<inputs, heartbeat, queue, clocks, verdict, outputs>>

\* A call refused because of a remaining hazard changes nothing.
OnClearEmergencyService ==
  \/ /\ JudgeThrows
     /\ Crash
  \/ /\ ~JudgeThrows /\ ~JudgeHazardStatus
     /\ is_emergency' = FALSE
     /\ hazard' = FALSE
     /\ UNCHANGED <<inputs, heartbeat, queue, clocks, outputs, crashed>>

\* What onTimer does with the hazard status it has arrived at.
Report(h) ==
  /\ hazard' = h
  /\ is_emergency' = h
  /\ published' = IF h THEN "MRM_OPERATING" ELSE "NORMAL"
  /\ gear' = CASE h /\ UseParking /\ IsStopped    -> "PARK"
               [] h /\ ~(UseParking /\ IsStopped) -> "NO_COMMAND"
               [] OTHER                           -> gear
  /\ sinceTimer' = 0
  /\ UNCHANGED <<inputs, heartbeat, queue, sinceInit, crashed>>

\* Mutants: the emergency is never held; always held.
AlwaysJudges == TRUE
AlwaysHolds == ~is_emergency

JudgesOnTimer == ~use_emergency_hold \/ ~is_emergency

\* Mutant: the timer waits for data without a word.
OnTimerWaits ==
  \/ /\ ~IsDataReady /\ sinceTimer' = 0
     /\ UNCHANGED <<inputs, heartbeat, queue, sinceInit, verdict, outputs, crashed>>
  \/ IsDataReady /\ ~JudgeThrows /\ Report(JudgeHazardStatus)

OnTimer ==
  \/ ~IsDataReady /\ Report(hazard \/ sinceInit > DataReadyTimeout)
  \/ IsDataReady /\ ~JudgesOnTimer /\ Report(hazard)
  \/ IsDataReady /\ JudgesOnTimer /\ ~JudgeThrows /\ Report(JudgeHazardStatus)
  \/ IsDataReady /\ JudgesOnTimer /\ JudgeThrows /\ Crash

\* The timer is served before its next period begins.
Tick ==
  /\ sinceTimer < TimerPeriod
  /\ sinceTimer' = sinceTimer + 1
  /\ sinceInit' = Older(sinceInit, DataReadyCap)
  /\ heartbeat' = [heartbeat EXCEPT
                     !.age = IF heartbeat.received THEN Older(@, HeartbeatCap) ELSE @]
  /\ UNCHANGED <<inputs, queue, verdict, outputs, crashed>>

\* The heartbeat is overdue in a state of the stack that is watched.
HeartbeatOverdue ==
  IsDataReady /\ ChecksHeartbeat /\ heartbeat.received /\ IsTimeout

TrackSilence ==
  silence' = IF HeartbeatOverdue /\ HeartbeatOverdue'
             THEN IF sinceTimer' > sinceTimer THEN Older(silence, SilenceCap) ELSE silence
             ELSE 0

Next ==
  /\ ~crashed
  /\ \/ OnAutowareState
     \/ OnStateReport
     \/ OnOdometry
     \/ PublishDrivingCapability
     \/ OnDrivingCapability
     \/ OnHeartbeat
     \/ OnClearEmergencyService
     \/ OnTimer
     \/ Tick
  /\ TrackSilence
  /\ UNCHANGED use_emergency_hold

Spec == Init /\ [][Next]_vars

\* The executor serves the timer, and time passes.
Fairness ==
  /\ WF_vars(~crashed /\ OnTimer /\ TrackSilence /\ UNCHANGED use_emergency_hold)
  /\ WF_vars(~crashed /\ Tick /\ TrackSilence /\ UNCHANGED use_emergency_hold)
FairSpec == Spec /\ Fairness

-----------------------------------------------------------------------------
(* Properties.                                                             *)

\* use_emergency_hold: a held emergency outlives every timer call and every
\* message; only the clear service ends it, and only once the inputs it would
\* be judged by are good.
HoldStep ==
  use_emergency_hold /\ is_emergency /\ ~is_emergency'
    => IsDataReady /\ ~JudgeHazardStatus /\ sinceTimer' = sinceTimer /\ UNCHANGED outputs
EmergencyIsHeld == [][HoldStep]_vars

\* The watchdog: once the driving capability has been silent for longer than
\* its timeout and for a timer period more, an emergency is being reported,
\* whatever the ignored states, the hold and the clear service did meanwhile.
WatchdogReports == silence > TimerPeriod => published = "MRM_OPERATING" \/ crashed

\* Input data that does not appear within data_ready_timeout is reported as an
\* emergency at the next timer call, and goes on being reported.
MissingDataIsReported ==
  sinceInit > DataReadyTimeout + TimerPeriod /\ ~IsDataReady
    => published = "MRM_OPERATING" \/ crashed

\* The race of the two readers: once all inputs have arrived an exception can end
\* the node only while the very first message of input/driving_capability, or one
\* that replaced it, has been stored by onDrivingCapability and still waits for
\* onHeartbeat.  No message is lost between the two that would leave the node
\* without the time of a heartbeat and every later call to the exception.
CrashesOnlyBetweenReaders ==
  crashed /\ IsDataReady => ~heartbeat.received /\ queue.heartbeat

\* What the node tells the stack and what it believes agree: NORMAL is never
\* the last word while an emergency is held.
ReportMatchesVerdict ==
  /\ published = "NORMAL" => ~is_emergency
  /\ is_emergency => hazard /\ gear # "none"

\* Without hold the emergency ends by itself once the inputs stay good.
Healthy == ~JudgeThrows /\ ~JudgeHazardStatus
RecoversWithoutHold ==
  (~use_emergency_hold /\ <>[]Healthy) => <>[](published = "NORMAL" \/ crashed)

-----------------------------------------------------------------------------
(* Why the safety properties hold: the inductive invariant of the proofs.  *)

\* A silence, or a lack of data, that is older than the last timer call was seen
\* by that call.
SilenceIsSeen == silence > sinceTimer => published = "MRM_OPERATING" \/ crashed
MissingDataIsSeen ==
  sinceInit > DataReadyTimeout + sinceTimer /\ ~IsDataReady
    => published = "MRM_OPERATING" \/ crashed

\* As long as no heartbeat was received, a message that reached the reader of the
\* capability has one for the reader of the heartbeat beside it.
HeartbeatIsComing ==
  ~heartbeat.received /\ (driving_capability # NoCapability \/ queue.capability # NoCapability)
    => queue.heartbeat

InductiveInv ==
  /\ TypeOK /\ SilenceIsSeen /\ MissingDataIsSeen /\ ReportMatchesVerdict
  /\ HeartbeatIsComing /\ CrashesOnlyBetweenReaders
=============================================================================
