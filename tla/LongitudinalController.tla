------------------------ MODULE LongitudinalController ------------------------
(***************************************************************************)
(* The states of the longitudinal controller (class                        *)
(* LongitudinalController of trajectory_follower_nodes): driving by        *)
(* feedback, stopping smoothly, standing, and stopping in an emergency.    *)
(*                                                                         *)
(* What the controller sees at a call of its timer is a situation: whether *)
(* it is far from the trajectory, the distance to the stop line (negative  *)
(* behind it), whether the vehicle moves, and the sign of the velocity the *)
(* trajectory asks for.  Distances are integers in any unit, times are     *)
(* counted in periods of the timer.  Of the memory of the feedback         *)
(* controller and of the accelerations commanded last it matters only from *)
(* when they are.                                                          *)
(***************************************************************************)
EXTENDS Integers

CONSTANTS
  DriveStopDist,      \* drive_state_stop_dist
  DriveOffset,        \* drive_state_offset_stop_dist
  StoppingStopDist,   \* stopping_state_stop_dist
  OvershootStopDist,  \* emergency_state_overshoot_stop_dist
  StoppedDelay        \* periods without motion after which the vehicle stands (0.5 s)

ASSUME ThresholdAssumption ==
  /\ {DriveStopDist, DriveOffset, StoppingStopDist, OvershootStopDist} \subseteq Nat
  /\ StoppedDelay \in Nat
  /\ StoppingStopDist <= DriveStopDist

ControlStates == {"DRIVE", "STOPPING", "STOPPED", "EMERGENCY"}
Shifts == {"Forward", "Reverse"}

\* Where remembered values come from: nowhere, the current drive (of the feedback
\* controller: in its current direction), or before it.
Origins == {"none", "this_drive", "earlier"}

\* m_last_running_time is kept as an age: saturated at StoppedDelay + 1, and one
\* more if the vehicle was never seen moving.
NeverRan == StoppedDelay + 2

Controllers ==
  [state : ControlStates, last_running : 0..NeverRan, prev_shift : Shifts,
   pid : Origins, accels : Origins]

ControllerInit ==
  [state |-> "STOPPED", last_running |-> NeverRan, prev_shift |-> "Forward",
   pid |-> "none", accels |-> "none"]

Situation ==
  [far : BOOLEAN, stop_dist : Int, running : BOOLEAN,
   target : Shifts \cup {"Zero"}]

Earlier(origin) == IF origin = "none" THEN "none" ELSE "earlier"
Used(origin) == IF origin = "none" THEN "this_drive" ELSE origin

-----------------------------------------------------------------------------

DepartsFromStopping(s) == s.stop_dist > DriveStopDist + DriveOffset
DepartsFromStopped(s) == s.stop_dist > DriveStopDist

\* Mutant: the threshold of departing from a stop that is under way.
StoppingFarAhead(s) == s.stop_dist < DriveStopDist + DriveOffset

Stopping(s) == s.stop_dist < StoppingStopDist

Overshoot(s, overshoot) == overshoot /\ s.stop_dist < -OvershootStopDist

\* A trajectory that asks for a stand keeps the direction.
CurrentShift(c, s) == IF s.target = "Zero" THEN c.prev_shift ELSE s.target

\* getControlData, as far as it remembers anything.
WithShift(c, s) ==
  [c EXCEPT !.prev_shift = CurrentShift(c, s),
            !.pid = IF CurrentShift(c, s) = c.prev_shift THEN @ ELSE "none"]

LastRunning(c, s) == IF s.running THEN 0 ELSE c.last_running
IsStopped(c, s) == LastRunning(c, s) \in (StoppedDelay + 1)..(NeverRan - 1)

\* The transitions of updateControlState, one to a line.
NextControlState(c, s, smooth, overshoot) ==
  LET beyond == Overshoot(s, overshoot)
      stopped == IsStopped(c, s)
  IN
  CASE c.state \in {"DRIVE", "STOPPING"} /\ beyond                        -> "EMERGENCY"
    [] c.state = "DRIVE" /\ ~beyond /\ smooth /\ Stopping(s)              -> "STOPPING"
    [] /\ c.state = "DRIVE" /\ ~beyond /\ ~smooth
       /\ stopped /\ ~DepartsFromStopped(s)                               -> "STOPPED"
    [] c.state = "STOPPING" /\ ~beyond /\ stopped                         -> "STOPPED"
    [] c.state = "STOPPING" /\ ~beyond /\ ~stopped /\ DepartsFromStopping(s) -> "DRIVE"
    [] c.state = "STOPPED" /\ DepartsFromStopped(s)                       -> "DRIVE"
    [] c.state = "EMERGENCY" /\ ~beyond /\ stopped                        -> "STOPPED"
    [] OTHER                                                            -> c.state

\* Whoever departs forgets the feedback of the drive before.
UpdateControlState(c, s, smooth, overshoot) ==
  LET next == NextControlState(c, s, smooth, overshoot)
  IN  [c EXCEPT !.state = next,
                !.last_running = LastRunning(c, s),
                !.pid = IF next = "DRIVE" /\ c.state # "DRIVE" THEN "none" ELSE @]

\* Mutant: nothing is cleared.
CalcCtrlCmdKeeps(c) ==
  IF c.state = "DRIVE"
  THEN [c EXCEPT !.pid = Used(@), !.accels = Used(@)]
  ELSE [c EXCEPT !.pid = Earlier(@), !.accels = Earlier(@)]

\* The accelerations commanded while driving are stored, to predict the velocity of
\* the next call; a call in any other state clears them.
CalcCtrlCmd(c) ==
  IF c.state = "DRIVE"
  THEN [c EXCEPT !.pid = Used(@), !.accels = Used(@)]
  ELSE [c EXCEPT !.pid = Earlier(@), !.accels = "none"]

\* Far from the trajectory the controller returns early: it does not look whether
\* the vehicle moves, and stores and clears nothing.
EmergencyFar(c) ==
  [c EXCEPT !.state = "EMERGENCY", !.pid = Earlier(@), !.accels = Earlier(@)]

TimerControl(c, s, smooth, overshoot) ==
  IF s.far THEN EmergencyFar(c)
  ELSE CalcCtrlCmd(UpdateControlState(WithShift(c, s), s, smooth, overshoot))

\* A period passes.
Older(c) ==
  [c EXCEPT !.last_running = IF @ < StoppedDelay + 1 THEN @ + 1 ELSE @]
=============================================================================
