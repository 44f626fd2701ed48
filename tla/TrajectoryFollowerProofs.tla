------------------------ MODULE TrajectoryFollowerProofs ------------------------
(***************************************************************************)
(* Proofs about the trajectory follower, for any thresholds, timeout,      *)
(* situations and nodes that may be held up: the types, that driving       *)
(* begins afresh, that an emergency is not driven through, that the        *)
(* controller settles, and that what it decides is forwarded.              *)
(***************************************************************************)
EXTENDS TrajectoryFollower, TLAPS

USE ThresholdAssumption, FollowerAssumption

-----------------------------------------------------------------------------
(* The longitudinal controller.                                            *)

LEMMA NextControlStateType ==
  ASSUME NEW c \in Controllers, NEW s \in Situation,
         NEW smooth \in BOOLEAN, NEW overshoot \in BOOLEAN
  PROVE  NextControlState(c, s, smooth, overshoot) \in ControlStates
<1>1. c.state \in ControlStates
  BY DEF Controllers
<1>. QED  BY <1>1, Zenon DEF NextControlState, ControlStates

LEMMA LastRunningType ==
  ASSUME NEW c \in Controllers, NEW s \in Situation
  PROVE  LastRunning(c, s) \in 0..NeverRan
BY DEF LastRunning, Controllers, NeverRan

LEMMA CurrentShiftType ==
  ASSUME NEW c \in Controllers, NEW s \in Situation
  PROVE  CurrentShift(c, s) \in Shifts
BY DEF CurrentShift, Controllers, Situation

LEMMA OriginTypes ==
  ASSUME NEW origin \in Origins
  PROVE  /\ Earlier(origin) \in Origins
         /\ Used(origin) \in Origins
BY DEF Earlier, Used, Origins

\* The timer keeps the type of the controller, whatever it sees.
LEMMA TimerControlType ==
  ASSUME NEW c \in Controllers, NEW s \in Situation,
         NEW smooth \in BOOLEAN, NEW overshoot \in BOOLEAN
  PROVE  TimerControl(c, s, smooth, overshoot) \in Controllers
<1>1. CASE s.far
  BY <1>1, OriginTypes DEF TimerControl, EmergencyFar, Controllers, ControlStates
<1>2. CASE ~s.far
  <2>. DEFINE d == WithShift(c, s)
              u == UpdateControlState(d, s, smooth, overshoot)
  <2>1. d \in Controllers
    BY CurrentShiftType DEF WithShift, Controllers, Origins
  <2>2. u \in Controllers
    <3>1. NextControlState(d, s, smooth, overshoot) \in ControlStates
      BY <2>1, NextControlStateType
    <3>2. LastRunning(d, s) \in 0..NeverRan
      BY <2>1, LastRunningType
    <3>. QED  BY <2>1, <3>1, <3>2 DEF UpdateControlState, Controllers, Origins
  <2>3. CalcCtrlCmd(u) \in Controllers
    <3>. HIDE DEF u
    <3>. QED  BY <2>2, OriginTypes DEF CalcCtrlCmd, Controllers, Origins
  <2>. QED  BY <1>2, <2>3 DEF TimerControl
<1>. QED  BY <1>1, <1>2

\* What driving uses is of this drive; where driving may begin next, no command of
\* an earlier one is left.
IsAfresh(c) ==
  /\ c.state = "DRIVE" => c.pid = "this_drive" /\ c.accels = "this_drive"
  /\ c.state \in {"STOPPING", "STOPPED"} => c.accels = "none"

\* Driving is begun only from a stop.
LEMMA DriveFromStop ==
  ASSUME NEW c \in Controllers, NEW s \in Situation,
         NEW smooth \in BOOLEAN, NEW overshoot \in BOOLEAN,
         NextControlState(c, s, smooth, overshoot) = "DRIVE"
  PROVE  c.state \in {"DRIVE", "STOPPING", "STOPPED"}
<1>1. c.state \in ControlStates
  BY DEF Controllers
<1>. QED  BY <1>1, Zenon DEF NextControlState, ControlStates

LEMMA TimerControlAfresh ==
  ASSUME NEW c \in Controllers, NEW s \in Situation,
         NEW smooth \in BOOLEAN, NEW overshoot \in BOOLEAN, IsAfresh(c)
  PROVE  IsAfresh(TimerControl(c, s, smooth, overshoot))
<1>1. CASE s.far
  BY <1>1 DEF TimerControl, EmergencyFar, IsAfresh, Controllers
<1>2. CASE ~s.far
  <2>. DEFINE d == WithShift(c, s)
              next == NextControlState(d, s, smooth, overshoot)
              u == UpdateControlState(d, s, smooth, overshoot)
  <2>1. /\ d \in Controllers
        /\ d.state = c.state /\ d.accels = c.accels /\ d.pid \in {c.pid, "none"}
    BY CurrentShiftType DEF WithShift, Controllers, Origins
  <2>2. /\ u.state = next /\ u.accels = d.accels
        /\ u.pid = IF next = "DRIVE" /\ d.state # "DRIVE" THEN "none" ELSE d.pid
        /\ u \in [state : {u.state}, last_running : {u.last_running},
                  prev_shift : {u.prev_shift}, pid : {u.pid}, accels : {u.accels}]
    BY <2>1 DEF UpdateControlState, Controllers
  <2>3. next = "DRIVE" => u.pid \in {"none", "this_drive"} /\ u.accels \in {"none", "this_drive"}
    <3>1. next = "DRIVE" => d.state \in {"DRIVE", "STOPPING", "STOPPED"}
      BY <2>1, DriveFromStop
    <3>. HIDE DEF d, next, u
    <3>. QED  BY <2>1, <2>2, <3>1 DEF IsAfresh
  <2>4. IsAfresh(CalcCtrlCmd(u))
    <3>. HIDE DEF d, next, u
    <3>. QED  BY <2>2, <2>3 DEF CalcCtrlCmd, IsAfresh, Used, Earlier
  <2>. QED  BY <1>2, <2>4 DEF TimerControl
<1>. QED  BY <1>1, <1>2

-----------------------------------------------------------------------------
(* Types.                                                                  *)

LEMMA AgedType ==
  ASSUME NEW cmd \in Commands
  PROVE  Aged(cmd) \in Commands
<1>1. CASE cmd = NoCommand \/ cmd.age = TooOld
  BY <1>1 DEF Aged
<1>2. CASE ~(cmd = NoCommand \/ cmd.age = TooOld)
  BY <1>2 DEF Aged, Commands, TooOld
<1>. QED  BY <1>1, <1>2

LEMMA CommandKindType ==
  ASSUME NEW c
  PROVE  [kind |-> CommandKind(c), age |-> 0] \in Commands
BY DEF CommandKind, Commands, Kinds, TooOld

LEMMA PublishCmdType ==
  ASSUME NEW lat \in Commands, NEW longitudinal \in Commands,
         output \in Kinds \cup {"none"}
  PROVE  PublishCmd(lat, longitudinal) \in Kinds \cup {"none"}
BY DEF PublishCmd, Commands, NoCommand

LEMMA TypeInit == Init => TypeOK
<1>. SUFFICES ASSUME Init PROVE TypeOK
  OBVIOUS
<1>. USE DEF Init
<1>1. lon \in Controllers
  BY DEF Controllers, ControllerInit, ControlStates, Shifts, Origins, NeverRan
<1>2. {lat_topic, lon_topic, m_lat_cmd, m_lon_cmd} \subseteq Commands
  BY DEF Commands
<1>3. stop_age \in 0..TooOld
  BY DEF TooOld
<1>4. enable_smooth_stop \in BOOLEAN /\ enable_overshoot_emergency \in BOOLEAN
  BY Zenon
<1>. QED  BY <1>1, <1>2, <1>3, <1>4 DEF TypeOK

LEMMA TypeNext == TypeOK /\ [Next]_vars => TypeOK'
<1>. SUFFICES ASSUME TypeOK, [Next]_vars PROVE TypeOK'
  OBVIOUS
<1>. USE DEF TypeOK
<1>1. CASE OnTrajectory
  BY <1>1 DEF OnTrajectory, params, muxer
<1>2. CASE CallbackTimerControl
  <2>1. lon' \in Controllers
    BY <1>2, TimerControlType DEF CallbackTimerControl
  <2>2. lon_topic' \in Commands
    BY <1>2, CommandKindType DEF CallbackTimerControl
  <2>3. stop_age' \in 0..TooOld
    BY <1>2 DEF CallbackTimerControl, TooOld
  <2>. QED  BY <1>2, <2>1, <2>2, <2>3 DEF CallbackTimerControl, params
<1>3. CASE OnTimer
  BY <1>3 DEF OnTimer, params, Commands, Kinds, TooOld
<1>4. CASE LatCtrlCmdCallback
  BY <1>4, PublishCmdType DEF LatCtrlCmdCallback, params, Commands
<1>5. CASE LonCtrlCmdCallback
  BY <1>5, PublishCmdType DEF LonCtrlCmdCallback, params, Commands
<1>6. ASSUME NEW n \in Unreliable, HoldUp(n) \/ CatchUp(n) PROVE TypeOK'
  BY <1>6 DEF HoldUp, CatchUp, params, muxer
<1>7. CASE Tick
  <2>1. lon' \in Controllers
    BY <1>7 DEF Tick, Older, Controllers, NeverRan
  <2>2. {lat_topic, lon_topic, m_lat_cmd, m_lon_cmd}' \subseteq Commands
    BY <1>7, AgedType DEF Tick
  <2>3. stop_age' \in 0..TooOld
    BY <1>7 DEF Tick, TooOld
  <2>. QED  BY <1>7, <2>1, <2>2, <2>3 DEF Tick, params
<1>8. CASE UNCHANGED vars
  BY <1>8 DEF vars, params, muxer
<1>. QED  BY <1>1, <1>2, <1>3, <1>4, <1>5, <1>6, <1>7, <1>8 DEF Next

\* The variables keep to their types, for any thresholds, timeout and situations.
THEOREM TypeCorrect == Spec => []TypeOK
BY TypeInit, TypeNext, PTL DEF Spec

-----------------------------------------------------------------------------
(* Driving begins afresh.                                                  *)

LEMMA AfreshNext == TypeOK /\ IsAfresh(lon) /\ [Next]_vars => IsAfresh(lon)'
<1>. SUFFICES ASSUME TypeOK, IsAfresh(lon), [Next]_vars PROVE IsAfresh(lon')
  BY DEF IsAfresh
<1>1. CASE CallbackTimerControl
  <2>1. CASE lon_ready
    BY <1>1, <2>1, TimerControlAfresh DEF CallbackTimerControl, TypeOK
  <2>2. CASE ~lon_ready
    BY <1>1, <2>2 DEF CallbackTimerControl
  <2>. QED  BY <2>1, <2>2
<1>2. CASE Tick
  BY <1>2 DEF Tick, Older, IsAfresh, TypeOK, Controllers
<1>3. CASE UNCHANGED lon
  BY <1>3
<1>. QED
  BY <1>1, <1>2, <1>3
  DEF Next, OnTrajectory, OnTimer, LatCtrlCmdCallback, LonCtrlCmdCallback,
      HoldUp, CatchUp, vars

\* What was integrated and commanded before a stop, an emergency or a change of
\* direction has no part in driving, whatever situations follow one another.
THEOREM AfreshCorrect == Spec => []DriveStartsAfresh
<1>1. Init => IsAfresh(lon)
  BY DEF Init, ControllerInit, IsAfresh
<1>2. TypeOK /\ IsAfresh(lon) => DriveStartsAfresh
  BY DEF IsAfresh, DriveStartsAfresh
<1>. QED  BY <1>1, <1>2, TypeCorrect, AfreshNext, PTL DEF Spec

-----------------------------------------------------------------------------
(* An emergency is not driven through.                                     *)

\* During an emergency the commands to drive that are left are from before it.
OlderThanStop(cmd, age) == cmd.kind = "drive" => cmd.age >= age

StopInv ==
  lon.state = "EMERGENCY" =>
    /\ OlderThanStop(lon_topic, stop_age)
    /\ OlderThanStop(m_lon_cmd, stop_age)
    /\ output = "drive" => stop_age <= Timeout

\* Only a recent command to drive is joined, and only if the emergency is as recent.
LEMMA PublishedDrive ==
  ASSUME NEW lat \in Commands, NEW longitudinal \in Commands, NEW age \in 0..TooOld,
         OlderThanStop(longitudinal, age),
         output = "drive" => age <= Timeout,
         PublishCmd(lat, longitudinal) = "drive"
  PROVE  age <= Timeout
<1>1. CASE lat # NoCommand /\ longitudinal # NoCommand /\ CheckTimeout(lat, longitudinal)
  <2>1. longitudinal.kind = "drive" /\ longitudinal.age <= Timeout
    BY <1>1 DEF PublishCmd, CheckTimeout
  <2>. QED  BY <1>1, <2>1 DEF OlderThanStop, Commands, TooOld
<1>2. CASE ~(lat # NoCommand /\ longitudinal # NoCommand /\ CheckTimeout(lat, longitudinal))
  BY <1>2 DEF PublishCmd
<1>. QED  BY <1>1, <1>2

\* A command and the emergency grow older together.
LEMMA AgedOlder ==
  ASSUME NEW cmd \in Commands, NEW age \in 0..TooOld, OlderThanStop(cmd, age)
  PROVE  OlderThanStop(Aged(cmd), IF age < TooOld THEN age + 1 ELSE age)
<1>1. CASE cmd = NoCommand
  BY <1>1 DEF Aged, OlderThanStop, NoCommand
<1>2. CASE cmd # NoCommand
  BY <1>2 DEF Aged, OlderThanStop, Commands, TooOld
<1>. QED  BY <1>1, <1>2

LEMMA StopNext == TypeOK /\ StopInv /\ [Next]_vars => StopInv'
<1>. SUFFICES ASSUME TypeOK, StopInv, [Next]_vars, lon'.state = "EMERGENCY"
              PROVE  /\ OlderThanStop(lon_topic', stop_age')
                     /\ OlderThanStop(m_lon_cmd', stop_age')
                     /\ output' = "drive" => stop_age' <= Timeout
  BY DEF StopInv, OlderThanStop
<1>1. CASE CallbackTimerControl
  <2>1. CASE ~lon_ready
    BY <1>1, <2>1 DEF CallbackTimerControl, StopInv
  <2>2. CASE lon_ready /\ lon'.state = lon.state
    BY <1>1, <2>2 DEF CallbackTimerControl, StopInv, OlderThanStop, CommandKind
  <2>3. CASE lon_ready /\ lon'.state # lon.state
    <3>1. stop_age' = 0 /\ m_lon_cmd' = m_lon_cmd /\ lon_topic'.kind = "emergency"
      BY <1>1, <2>3 DEF CallbackTimerControl, CommandKind
    <3>2. m_lon_cmd.kind = "drive" => m_lon_cmd.age \in 0..TooOld
      BY DEF TypeOK, Commands, NoCommand
    <3>. QED  BY <3>1, <3>2 DEF OlderThanStop, TooOld
  <2>. QED  BY <2>1, <2>2, <2>3
<1>2. CASE LatCtrlCmdCallback
  <2>1. output' = PublishCmd(lat_topic, m_lon_cmd) /\ lon' = lon
        /\ UNCHANGED <<lon_topic, m_lon_cmd, stop_age>>
    BY <1>2 DEF LatCtrlCmdCallback
  <2>. QED  BY <2>1, PublishedDrive DEF StopInv, TypeOK
<1>3. CASE LonCtrlCmdCallback
  <2>1. /\ output' = PublishCmd(m_lat_cmd, lon_topic) /\ lon' = lon /\ stop_age' = stop_age
        /\ m_lon_cmd' = lon_topic /\ lon_topic' = NoCommand
    BY <1>3 DEF LonCtrlCmdCallback
  <2>2. OlderThanStop(lon_topic', stop_age')
    BY <2>1 DEF OlderThanStop, NoCommand
  <2>. QED  BY <2>1, <2>2, PublishedDrive DEF StopInv, TypeOK
<1>4. CASE Tick
  <2>1. lon.state = "EMERGENCY"
    BY <1>4 DEF Tick, Older, TypeOK, Controllers
  <2>2. /\ stop_age' = IF stop_age < TooOld THEN stop_age + 1 ELSE stop_age
        /\ lon_topic' = Aged(lon_topic) /\ m_lon_cmd' = Aged(m_lon_cmd) /\ output' = "none"
    BY <1>4, <2>1 DEF Tick
  <2>. QED  BY <2>1, <2>2, AgedOlder DEF StopInv, TypeOK
<1>5. CASE UNCHANGED <<lon, lon_topic, m_lon_cmd, output, stop_age>>
  BY <1>5 DEF StopInv
<1>. QED
  BY <1>1, <1>2, <1>3, <1>4, <1>5
  DEF Next, OnTrajectory, OnTimer, HoldUp, CatchUp, vars, muxer

\* Once the controller has been in EMERGENCY for longer than the timeout no command to
\* drive is published, for any timeout and whichever nodes are held up.
THEOREM EmergencyCorrect == Spec => []EmergencyIsNotDriven
<1>1. Init => StopInv
  BY DEF Init, ControllerInit, StopInv
<1>2. StopInv => EmergencyIsNotDriven
  BY DEF StopInv, EmergencyIsNotDriven
<1>. QED  BY <1>1, <1>2, TypeCorrect, StopNext, PTL DEF Spec
-----------------------------------------------------------------------------
(* The controller settles.                                                 *)

\* A change of the state is a step on in the order of the situation.
LEMMA NextControlStateMovesOn ==
  ASSUME NEW c \in Controllers, NEW s \in Situation, ~s.far,
         NEW smooth \in BOOLEAN, NEW overshoot \in BOOLEAN,
         NextControlState(c, s, smooth, overshoot) # c.state
  PROVE  Progress(s, overshoot)[c.state]
           < Progress(s, overshoot)[NextControlState(c, s, smooth, overshoot)]
<1>. DEFINE next == NextControlState(c, s, smooth, overshoot)
            beyond == Overshoot(s, overshoot)
            departs == DepartsFromStopped(s)
<1>1. c.state \in ControlStates
  BY DEF Controllers
<1>2. \/ c.state \in {"DRIVE", "STOPPING"} /\ beyond /\ next = "EMERGENCY"
      \/ c.state = "DRIVE" /\ ~beyond /\ Stopping(s) /\ next = "STOPPING"
      \/ c.state = "DRIVE" /\ ~beyond /\ ~departs /\ next = "STOPPED"
      \/ c.state = "STOPPING" /\ ~beyond /\ next = "STOPPED"
      \/ c.state = "STOPPING" /\ ~beyond /\ DepartsFromStopping(s) /\ next = "DRIVE"
      \/ c.state = "STOPPED" /\ departs /\ next = "DRIVE"
      \/ c.state = "EMERGENCY" /\ ~beyond /\ next = "STOPPED"
  BY <1>1, Zenon DEF NextControlState, ControlStates
<1>3. /\ beyond => ~departs
      /\ Stopping(s) => ~departs
      /\ DepartsFromStopping(s) => departs
  BY DEF Overshoot, DepartsFromStopped, DepartsFromStopping, Stopping, Situation
<1>4. /\ beyond => Progress(s, overshoot)
            = [STOPPED |-> 0, DRIVE |-> 1, STOPPING |-> 2, EMERGENCY |-> 3]
      /\ ~beyond /\ departs => Progress(s, overshoot)
            = [EMERGENCY |-> 0, STOPPING |-> 1, STOPPED |-> 2, DRIVE |-> 3]
      /\ ~beyond /\ ~departs => Progress(s, overshoot)
            = [EMERGENCY |-> 0, DRIVE |-> 1, STOPPING |-> 2, STOPPED |-> 3]
  BY DEF Progress
<1>. HIDE DEF next, beyond, departs
<1>5. beyond => Progress(s, overshoot)[c.state] < Progress(s, overshoot)[next]
  BY <1>2, <1>3, <1>4
<1>6. ~beyond /\ departs => Progress(s, overshoot)[c.state] < Progress(s, overshoot)[next]
  BY <1>2, <1>3, <1>4
<1>7. ~beyond /\ ~departs => Progress(s, overshoot)[c.state] < Progress(s, overshoot)[next]
  BY <1>2, <1>3, <1>4
<1>. QED  BY <1>5, <1>6, <1>7 DEF next

LEMMA TimerControlMovesOn ==
  ASSUME NEW c \in Controllers, NEW s \in Situation,
         NEW smooth \in BOOLEAN, NEW overshoot \in BOOLEAN,
         TimerControl(c, s, smooth, overshoot).state # c.state
  PROVE  Progress(s, overshoot)[c.state]
           < Progress(s, overshoot)[TimerControl(c, s, smooth, overshoot).state]
<1>1. c.state \in ControlStates
  BY DEF Controllers
<1>2. CASE s.far
  <2>1. TimerControl(c, s, smooth, overshoot).state = "EMERGENCY"
    BY <1>2 DEF TimerControl, EmergencyFar, Controllers
  <2>2. Progress(s, overshoot) = [STOPPED |-> 0, DRIVE |-> 1, STOPPING |-> 2, EMERGENCY |-> 3]
    BY <1>2 DEF Progress
  <2>. QED  BY <1>1, <2>1, <2>2 DEF ControlStates
<1>3. CASE ~s.far
  <2>. DEFINE d == WithShift(c, s)
              next == NextControlState(d, s, smooth, overshoot)
              u == UpdateControlState(d, s, smooth, overshoot)
  <2>1. d \in Controllers /\ d.state = c.state
    BY CurrentShiftType DEF WithShift, Controllers, Origins
  <2>2. u.state = next
    BY <2>1 DEF UpdateControlState, Controllers
  <2>3. u \in [state : {u.state}, last_running : {u.last_running},
               prev_shift : {u.prev_shift}, pid : {u.pid}, accels : {u.accels}]
    BY <2>1 DEF UpdateControlState, Controllers
  <2>4. CalcCtrlCmd(u).state = u.state
    <3>. HIDE DEF u
    <3>. QED  BY <2>3 DEF CalcCtrlCmd
  <2>5. TimerControl(c, s, smooth, overshoot).state = next
    BY <1>3, <2>2, <2>4 DEF TimerControl
  <2>. HIDE DEF d, u
  <2>. QED  BY <1>3, <2>1, <2>5, NextControlStateMovesOn
<1>. QED  BY <1>2, <1>3

\* In one situation the controller passes through each of its states at most once,
\* for any thresholds, without a hysteresis too: it cannot alternate between stopping
\* and departing.  Settles adds that it comes to an end.
THEOREM SettlingCorrect == Spec => [][MovesOn]_vars
<1>1. TypeOK /\ [Next]_vars => [MovesOn]_vars
  <2>. SUFFICES ASSUME TypeOK, Next, lon'.state # lon.state PROVE MovesOn
    BY DEF MovesOn
  <2>1. CASE CallbackTimerControl
    <3>1. lon_ready /\ lon' = TimerControl(lon, situation, enable_smooth_stop,
                                          enable_overshoot_emergency)
      BY <2>1 DEF CallbackTimerControl
    <3>2. /\ lon \in Controllers /\ situation \in Situation
          /\ enable_smooth_stop \in BOOLEAN /\ enable_overshoot_emergency \in BOOLEAN
      BY DEF TypeOK
    <3>. QED  BY <3>1, <3>2, TimerControlMovesOn DEF MovesOn
  <2>2. CASE Tick
    BY <2>2 DEF Tick, Older, TypeOK, Controllers
  <2>. QED
    BY <2>1, <2>2
    DEF Next, OnTrajectory, OnTimer, LatCtrlCmdCallback, LonCtrlCmdCallback, HoldUp, CatchUp
<1>. QED  BY <1>1, TypeCorrect, PTL DEF Spec

-----------------------------------------------------------------------------
(* Stops are forwarded.                                                    *)

\* What is joined is the longitudinal half that is stored.
LEMMA Joined ==
  ASSUME NEW lat, NEW longitudinal, lat # NoCommand, longitudinal # NoCommand,
         CheckTimeout(lat, longitudinal)
  PROVE  PublishCmd(lat, longitudinal) = longitudinal.kind
BY DEF PublishCmd

\* What is aged is not new.
LEMMA AgedIsNotNew ==
  ASSUME NEW cmd \in Commands, cmd # NoCommand
  PROVE  Aged(cmd) # NoCommand /\ Aged(cmd).age # 0
BY DEF Aged, Commands, NoCommand, Kinds, TooOld

LEMMA ForwardNext ==
  ASSUME TypeOK, ForwardInv, [Next]_vars
  PROVE  ForwardInv'
<1>. USE DEF ForwardInv
<1>1. CASE OnTrajectory
  BY <1>1 DEF OnTrajectory, muxer, TypeOK, SilentBefore, LateralIsSent, LongitudinalIsSent,
              NewestIsJoined, Newest
<1>2. CASE CallbackTimerControl
  <2>1. /\ "longitudinal" \notin to_run' /\ ("lateral" \in to_run' <=> "lateral" \in to_run)
        /\ UNCHANGED <<lon_ready, lat_ready, lat_topic, m_lat_cmd, m_lon_cmd, output>>
    BY <1>2 DEF CallbackTimerControl
  <2>2. LateralIsSent' /\ NewestIsJoined'
    BY <2>1 DEF LateralIsSent, NewestIsJoined, Newest
  <2>3. CASE lon_ready
    <3>1. lon_topic' = [kind |-> CommandKind(lon'), age |-> 0] /\ lon_topic' # NoCommand
      BY <1>2, <2>3 DEF CallbackTimerControl, NoCommand, CommandKind
    <3>. QED  BY <2>1, <2>2, <2>3, <3>1 DEF SilentBefore, LongitudinalIsSent, Newest, CommandKind
  <2>4. CASE ~lon_ready
    <3>1. lon_topic' = NoCommand /\ m_lon_cmd' = NoCommand
      BY <1>2, <2>1, <2>4 DEF CallbackTimerControl, SilentBefore
    <3>. QED  BY <2>1, <2>2, <3>1 DEF SilentBefore, LongitudinalIsSent, Newest
  <2>. QED  BY <2>3, <2>4
<1>3. CASE OnTimer
  <2>1. /\ ("longitudinal" \in to_run' <=> "longitudinal" \in to_run) /\ "lateral" \notin to_run'
        /\ UNCHANGED <<lon, lon_ready, lat_ready, lon_topic, m_lat_cmd, m_lon_cmd, output>>
        /\ lat_topic' = IF lat_ready THEN [kind |-> "drive", age |-> 0] ELSE lat_topic
    BY <1>3 DEF OnTimer
  <2>2. LongitudinalIsSent' /\ NewestIsJoined'
    BY <2>1 DEF LongitudinalIsSent, NewestIsJoined, Newest, CommandKind
  <2>3. SilentBefore' /\ LateralIsSent'
    BY <2>1 DEF SilentBefore, LateralIsSent, Newest, NoCommand
  <2>. QED  BY <2>2, <2>3
<1>4. CASE LatCtrlCmdCallback
  <2>1. /\ lat_topic # NoCommand /\ m_lat_cmd' = lat_topic /\ lat_topic' = NoCommand
        /\ output' = PublishCmd(m_lat_cmd', m_lon_cmd)
        /\ UNCHANGED <<lon, lon_ready, lat_ready, to_run, lon_topic, m_lon_cmd>>
    BY <1>4 DEF LatCtrlCmdCallback
  <2>2. NewestIsJoined'
    BY <2>1, Joined DEF NewestIsJoined, CheckTimeout
  <2>. QED
    BY <2>1, <2>2 DEF SilentBefore, LateralIsSent, LongitudinalIsSent, Newest, CommandKind
<1>5. CASE LonCtrlCmdCallback
  <2>1. /\ lon_topic # NoCommand /\ m_lon_cmd' = lon_topic /\ lon_topic' = NoCommand
        /\ output' = PublishCmd(m_lat_cmd, m_lon_cmd')
        /\ UNCHANGED <<lon, lon_ready, lat_ready, to_run, lat_topic, m_lat_cmd>>
    BY <1>5 DEF LonCtrlCmdCallback
  <2>2. NewestIsJoined'
    BY <2>1, Joined DEF NewestIsJoined, CheckTimeout
  <2>. QED
    BY <2>1, <2>2 DEF SilentBefore, LateralIsSent, LongitudinalIsSent, Newest, CommandKind
<1>6. ASSUME NEW n \in Unreliable, HoldUp(n) \/ CatchUp(n) PROVE ForwardInv'
  BY <1>6 DEF HoldUp, CatchUp, muxer, SilentBefore, LateralIsSent, LongitudinalIsSent,
              NewestIsJoined, Newest, CommandKind
<1>7. CASE Tick
  <2>1. /\ "lateral" \in to_run' /\ "longitudinal" \in to_run'
        /\ UNCHANGED <<lon_ready, lat_ready>>
        /\ lat_topic' = Aged(lat_topic) /\ lon_topic' = Aged(lon_topic)
        /\ m_lat_cmd' = Aged(m_lat_cmd) /\ m_lon_cmd' = Aged(m_lon_cmd)
    BY <1>7 DEF Tick
  <2>2. Aged(NoCommand) = NoCommand
    BY DEF Aged
  <2>3. NewestIsJoined'
    <3>1. m_lat_cmd' # NoCommand => m_lat_cmd'.age # 0
      BY <2>1, <2>2, AgedIsNotNew DEF TypeOK
    <3>2. m_lon_cmd' # NoCommand => m_lon_cmd'.age # 0
      BY <2>1, <2>2, AgedIsNotNew DEF TypeOK
    <3>. QED  BY <3>1, <3>2 DEF NewestIsJoined
  <2>. QED  BY <2>1, <2>2, <2>3 DEF SilentBefore, LateralIsSent, LongitudinalIsSent
<1>8. CASE UNCHANGED vars
  BY <1>8 DEF vars, muxer, SilentBefore, LateralIsSent, LongitudinalIsSent, NewestIsJoined,
              Newest, CommandKind
<1>. QED  BY <1>1, <1>2, <1>3, <1>4, <1>5, <1>6, <1>7, <1>8 DEF Next

\* At the end of a period in which both controllers ran and the muxer was served the
\* last thing the vehicle was told is what the longitudinal controller decided in
\* that period, for any timeout and whoever was late before: an emergency as well as
\* its end.  StopIsForwarded adds that such periods come.
THEOREM ForwardingCorrect == Spec => []EveryPeriodForwards
<1>1. Init => ForwardInv
  BY DEF Init, ForwardInv, SilentBefore, LateralIsSent, LongitudinalIsSent, NewestIsJoined,
         Newest, NoCommand
<1>2. TypeOK /\ ForwardInv => EveryPeriodForwards
  <2>. SUFFICES ASSUME TypeOK, ForwardInv, PeriodIsOver,
                       m_lat_cmd # NoCommand, m_lon_cmd # NoCommand
                PROVE  output = CommandKind(lon)
    BY DEF EveryPeriodForwards
  <2>1. m_lat_cmd.age = 0 /\ m_lon_cmd = [kind |-> CommandKind(lon), age |-> 0]
    BY DEF ForwardInv, PeriodIsOver, LateralIsSent, LongitudinalIsSent, Newest
  <2>2. CheckTimeout(m_lat_cmd, m_lon_cmd)
    BY <2>1 DEF CheckTimeout
  <2>. QED  BY <2>1, <2>2 DEF ForwardInv, NewestIsJoined
<1>. QED  BY <1>1, <1>2, TypeCorrect, ForwardNext, PTL DEF Spec
=============================================================================
