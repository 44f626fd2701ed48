-------------------------- MODULE TrajectoryFollower --------------------------
(***************************************************************************)
(* The trajectory follower: a longitudinal and a lateral controller, each  *)
(* with a timer, and the muxer that joins their commands.  Commands carry  *)
(* the time they were made; the topics between the nodes keep the newest   *)
(* message only.                                                           *)
(*                                                                         *)
(* Time is counted in periods of the timers.  In a period each controller  *)
(* that is up runs once and the muxer is served, in any order; a node that *)
(* is held up may miss periods, and the muxer may then be served for one   *)
(* input only.  Of a command it matters whether it is an emergency stop.   *)
(***************************************************************************)
EXTENDS LongitudinalController

CONSTANTS
  Timeout,      \* timeout_thr_sec
  Situations,   \* situations that occur
  Unreliable,   \* nodes that may be held up
  SmoothStop,   \* values of enable_smooth_stop
  Overshooting  \* values of enable_overshoot_emergency

ASSUME FollowerAssumption ==
  /\ Timeout \in Nat
  /\ Situations \subseteq Situation
  /\ Unreliable \subseteq {"lateral", "longitudinal", "muxer"}
  /\ SmoothStop \subseteq BOOLEAN /\ Overshooting \subseteq BOOLEAN

VARIABLES
  enable_smooth_stop, enable_overshoot_emergency,
  situation,   \* what the longitudinal controller sees
  lon,         \* the longitudinal controller
  lon_ready,   \* it has a trajectory
  lat_ready,   \* the lateral controller has a reference trajectory
  to_run,      \* controllers whose timer is due in this period
  held_up,     \* nodes that do not keep up
  lat_topic, lon_topic,      \* commands on the way to the muxer
  m_lat_cmd, m_lon_cmd,      \* commands stored by the muxer
  output,      \* longitudinal half of the last command published in this period
  stop_age     \* history: periods since EMERGENCY was entered, 0 in other states

params == <<enable_smooth_stop, enable_overshoot_emergency>>
muxer == <<lat_topic, lon_topic, m_lat_cmd, m_lon_cmd, output>>
vars == <<params, situation, lon, lon_ready, lat_ready, to_run, held_up, muxer, stop_age>>

Kinds == {"drive", "emergency"}
TooOld == Timeout + 1
NoCommand == [kind |-> "none", age |-> 0]
Commands == {NoCommand} \cup [kind : Kinds, age : 0..TooOld]

TypeOK ==
  /\ enable_smooth_stop \in BOOLEAN /\ enable_overshoot_emergency \in BOOLEAN
  /\ situation \in Situations
  /\ lon \in Controllers
  /\ lon_ready \in BOOLEAN /\ lat_ready \in BOOLEAN
  /\ to_run \subseteq {"lateral", "longitudinal"} /\ held_up \subseteq Unreliable
  /\ {lat_topic, lon_topic, m_lat_cmd, m_lon_cmd} \subseteq Commands
  /\ output \in Kinds \cup {"none"}
  /\ stop_age \in 0..TooOld

Init ==
  /\ enable_smooth_stop \in SmoothStop
  /\ enable_overshoot_emergency \in Overshooting
  /\ situation \in Situations
  /\ lon = ControllerInit
  /\ lon_ready = FALSE /\ lat_ready = FALSE
  /\ to_run = {} /\ held_up = {}
  /\ lat_topic = NoCommand /\ lon_topic = NoCommand
  /\ m_lat_cmd = NoCommand /\ m_lon_cmd = NoCommand
  /\ output = "none"
  /\ stop_age = 0

-----------------------------------------------------------------------------
(* Trajectories.  Two points are enough for the longitudinal controller,   *)
(* the lateral one wants three and to know where it is.                    *)

OnTrajectory ==
  /\ ~(lon_ready /\ lat_ready)
  /\ lon_ready' = TRUE
  /\ lat_ready' \in BOOLEAN
  /\ lat_ready => lat_ready'
  /\ UNCHANGED <<params, situation, lon, to_run, held_up, muxer, stop_age>>

-----------------------------------------------------------------------------
(* The controllers.                                                        *)

CommandKind(c) == IF c.state = "EMERGENCY" THEN "emergency" ELSE "drive"

\* Mutant: the early return far from the trajectory sends nothing.
SilentWhenFar ==
  /\ "longitudinal" \in to_run
  /\ to_run' = to_run \ {"longitudinal"}
  /\ IF lon_ready
     THEN /\ lon' = TimerControl(lon, situation, enable_smooth_stop,
                                 enable_overshoot_emergency)
          /\ lon_topic' = IF situation.far THEN lon_topic
                          ELSE [kind |-> CommandKind(lon'), age |-> 0]
          /\ stop_age' = IF lon'.state = lon.state THEN stop_age ELSE 0
     ELSE UNCHANGED <<lon, lon_topic, stop_age>>
  /\ UNCHANGED <<params, situation, lon_ready, lat_ready, held_up,
                 lat_topic, m_lat_cmd, m_lon_cmd, output>>

CallbackTimerControl ==
  /\ "longitudinal" \in to_run
  /\ to_run' = to_run \ {"longitudinal"}
  /\ IF lon_ready
     THEN /\ lon' = TimerControl(lon, situation, enable_smooth_stop,
                                 enable_overshoot_emergency)
          /\ lon_topic' = [kind |-> CommandKind(lon'), age |-> 0]
          /\ stop_age' = IF lon'.state = lon.state THEN stop_age ELSE 0
     ELSE UNCHANGED <<lon, lon_topic, stop_age>>
  /\ UNCHANGED <<params, situation, lon_ready, lat_ready, held_up,
                 lat_topic, m_lat_cmd, m_lon_cmd, output>>

\* Whether it stands, has solved its problem or not, the lateral controller sends
\* a command as soon as it has a trajectory.
OnTimer ==
  /\ "lateral" \in to_run
  /\ to_run' = to_run \ {"lateral"}
  /\ lat_topic' = IF lat_ready THEN [kind |-> "drive", age |-> 0] ELSE lat_topic
  /\ UNCHANGED <<params, situation, lon, lon_ready, lat_ready, held_up,
                 lon_topic, m_lat_cmd, m_lon_cmd, output, stop_age>>

-----------------------------------------------------------------------------
(* The muxer.                                                              *)

\* Mutant: only the lateral half is looked at.
CheckLateral(lat, longitudinal) == lat.age <= Timeout

CheckTimeout(lat, longitudinal) ==
  lat.age <= Timeout /\ longitudinal.age <= Timeout

PublishCmd(lat, longitudinal) ==
  IF lat # NoCommand /\ longitudinal # NoCommand /\ CheckTimeout(lat, longitudinal)
  THEN longitudinal.kind ELSE output

LatCtrlCmdCallback ==
  /\ lat_topic # NoCommand
  /\ m_lat_cmd' = lat_topic
  /\ lat_topic' = NoCommand
  /\ output' = PublishCmd(m_lat_cmd', m_lon_cmd)
  /\ UNCHANGED <<params, situation, lon, lon_ready, lat_ready, to_run, held_up,
                 lon_topic, m_lon_cmd, stop_age>>

LonCtrlCmdCallback ==
  /\ lon_topic # NoCommand
  /\ m_lon_cmd' = lon_topic
  /\ lon_topic' = NoCommand
  /\ output' = PublishCmd(m_lat_cmd, m_lon_cmd')
  /\ UNCHANGED <<params, situation, lon, lon_ready, lat_ready, to_run, held_up,
                 lat_topic, m_lat_cmd, stop_age>>

-----------------------------------------------------------------------------
(* The nodes fall behind and catch up, and time passes.                    *)

HoldUp(n) ==
  /\ held_up' = held_up \cup {n}
  /\ held_up' # held_up
  /\ UNCHANGED <<params, situation, lon, lon_ready, lat_ready, to_run, muxer, stop_age>>

CatchUp(n) ==
  /\ n \in held_up
  /\ held_up' = held_up \ {n}
  /\ UNCHANGED <<params, situation, lon, lon_ready, lat_ready, to_run, muxer, stop_age>>

Aged(cmd) == IF cmd = NoCommand \/ cmd.age = TooOld THEN cmd ELSE [cmd EXCEPT !.age = @ + 1]

Tick ==
  /\ to_run \subseteq held_up
  /\ (lat_topic = NoCommand /\ lon_topic = NoCommand) \/ "muxer" \in held_up
  /\ situation' \in Situations
  /\ to_run' = {"lateral", "longitudinal"}
  /\ lon' = Older(lon)
  /\ lat_topic' = Aged(lat_topic) /\ lon_topic' = Aged(lon_topic)
  /\ m_lat_cmd' = Aged(m_lat_cmd) /\ m_lon_cmd' = Aged(m_lon_cmd)
  /\ stop_age' = IF lon.state = "EMERGENCY" /\ stop_age < TooOld THEN stop_age + 1 ELSE stop_age
  /\ output' = "none"
  /\ UNCHANGED <<params, lon_ready, lat_ready, held_up>>

Next ==
  \/ OnTrajectory
  \/ CallbackTimerControl
  \/ OnTimer
  \/ LatCtrlCmdCallback
  \/ LonCtrlCmdCallback
  \/ \E n \in Unreliable : HoldUp(n) \/ CatchUp(n)
  \/ Tick

Spec == Init /\ [][Next]_vars

\* Timers fire and executors serve their nodes; one that is held up owes nothing.
FairSpec ==
  /\ Spec
  /\ WF_vars("longitudinal" \notin held_up /\ CallbackTimerControl)
  /\ WF_vars("lateral" \notin held_up /\ OnTimer)
  /\ WF_vars("muxer" \notin held_up /\ LatCtrlCmdCallback)
  /\ WF_vars("muxer" \notin held_up /\ LonCtrlCmdCallback)
  /\ WF_vars(Tick)
-----------------------------------------------------------------------------
(* Properties.                                                             *)

\* Driving begins afresh: what was commanded and what the feedback controller
\* integrated before a stop or an emergency, or integrated before a change of
\* direction, has no part in it (the resets in updateControlState and
\* getControlData, storeAccelCmd).
DriveStartsAfresh ==
  lon.state = "DRIVE" => lon.pid = "this_drive" /\ lon.accels = "this_drive"

\* Whatever is held up and however commands age on the way, the vehicle is not told
\* to drive on once the longitudinal controller has been stopping in an emergency
\* for longer than the timeout of the muxer (checkTimeout looks at both halves).
EmergencyIsNotDriven ==
  output = "drive" /\ lon.state = "EMERGENCY" => stop_age <= Timeout

\* In a situation that stays as it is the controller settles in one state: the
\* thresholds leave it no way to alternate between stopping and departing.
Settles ==
  <>[][situation' = situation]_situation => <>[][lon'.state = lon.state]_(lon.state)

\* An emergency that lasts is forwarded to the vehicle again and again, if the nodes
\* keep up and the lateral controller has a trajectory to steer along.
StopIsForwarded ==
  <>[](lon.state = "EMERGENCY" /\ held_up = {} /\ lat_ready)
    => []<>(output = "emergency")
-----------------------------------------------------------------------------
(* Why the controller settles, and why its stops are forwarded: what the   *)
(* two liveness properties rest on in every single step.                   *)

\* The order in which a controller that sees one situation again and again passes
\* through its states: it is called to a stop, it may depart, or it has to stay.
Progress(s, overshoot) ==
  CASE s.far \/ Overshoot(s, overshoot) ->
         [STOPPED |-> 0, DRIVE |-> 1, STOPPING |-> 2, EMERGENCY |-> 3]
    [] ~(s.far \/ Overshoot(s, overshoot)) /\ DepartsFromStopped(s) ->
         [EMERGENCY |-> 0, STOPPING |-> 1, STOPPED |-> 2, DRIVE |-> 3]
    [] OTHER ->
         [EMERGENCY |-> 0, DRIVE |-> 1, STOPPING |-> 2, STOPPED |-> 3]

\* Every change of the state is progress in the order of the situation that was
\* seen: three changes are the most that one situation can cause.
MovesOn ==
  lon'.state # lon.state =>
    LET progress == Progress(situation, enable_overshoot_emergency)
    IN  progress[lon.state] < progress[lon'.state]

\* A period is over when both controllers ran and the muxer was served.  Whoever
\* was late before, a command made of what the longitudinal controller decided in
\* this period was sent, if each controller ever sent one.
PeriodIsOver == to_run = {} /\ lat_topic = NoCommand /\ lon_topic = NoCommand

EveryPeriodForwards ==
  PeriodIsOver /\ m_lat_cmd # NoCommand /\ m_lon_cmd # NoCommand
    => output = CommandKind(lon)

\* A controller that ran in this period and ever sent a command sent one in this
\* period; what is stored was joined when the newer of its halves came.
Newest(topic, stored) == IF topic = NoCommand THEN stored ELSE topic

LateralIsSent ==
  "lateral" \notin to_run => Newest(lat_topic, m_lat_cmd).age = 0

LongitudinalIsSent ==
  "longitudinal" \notin to_run =>
    Newest(lon_topic, m_lon_cmd) \in {NoCommand, [kind |-> CommandKind(lon), age |-> 0]}

NewestIsJoined ==
  m_lat_cmd # NoCommand /\ m_lon_cmd # NoCommand /\ CheckTimeout(m_lat_cmd, m_lon_cmd)
    => (m_lat_cmd.age = 0 \/ m_lon_cmd.age = 0 => output = m_lon_cmd.kind)

\* Without a trajectory nothing is sent.
SilentBefore ==
  /\ ~lon_ready => lon_topic = NoCommand /\ m_lon_cmd = NoCommand
  /\ ~lat_ready => lat_topic = NoCommand /\ m_lat_cmd = NoCommand

ForwardInv == SilentBefore /\ LateralIsSent /\ LongitudinalIsSent /\ NewestIsJoined
=============================================================================
