--------------------------- MODULE VehicleInterface ---------------------------
(***************************************************************************)
(* The node between the controllers and the vehicle.  State commands wait  *)
(* in a slot until a control command takes them along; what the vehicle    *)
(* reports is read on a timer.  The node runs in one of several ways, by   *)
(* its parameter control_command; only the basic one makes its commands    *)
(* safe with the safety state machine.  A node configured for high level   *)
(* commands throws at each of them and is left out.                        *)
(***************************************************************************)
EXTENDS SafetyStateMachine

CONSTANTS
  Kinds,          \* ways to run: values of control_command
  StateCommands,  \* state commands the node may receive
  VehicleReports, \* states the vehicle may report
  Accels,         \* accelerations the node may be commanded
  MaxLag,         \* the age a report of the vehicle may have
  MaxTime,        \* bound on the clock
  None            \* nothing there

ASSUME KindsAssumption == Kinds \subseteq {"raw", "ackermann", "basic"}
ASSUME VectorsAssumption ==
  StateCommands \subseteq Vectors /\ VehicleReports \subseteq Vectors
ASSUME BoundsAssumption == Accels \subseteq Int /\ MaxLag \in Nat /\ MaxTime \in Nat
ASSUME NoneAssumption ==
  None \notin Nat /\ None \notin Vectors /\ None \notin [vector : Vectors, stamp : Nat]

VARIABLES
  now,                  \* the clock that stamps the messages
  kind,                 \* the parameter control_command
  running,              \* FALSE after an exception nobody catches
  m_last_state_command, \* m_last_state_command, the slot
  m_last_command_stamp, \* m_last_command_stamp
  out_control,          \* stamp of the control command handed over in this step
  out_state,            \* state command handed over in this step
  refused,              \* what the platform refused in this step
  newest                \* history: greatest stamp of a control command handed over

nodeVars == <<now, kind, running, m_last_state_command, m_last_command_stamp>>
outputs == <<out_control, out_state, refused, newest>>
vars == <<nodeVars, outputs, machineVars>>

\* A command in the slot, with its stamp.
SlotCommands == [vector : Vectors, stamp : Nat]

TypeOK ==
  /\ MachineTypeOK
  /\ now \in Nat
  /\ kind \in Kinds
  /\ running \in BOOLEAN
  /\ m_last_state_command \in SlotCommands \union {None}
  /\ m_last_command_stamp \in Nat
  /\ out_control \in Nat \union {None}
  /\ out_state \in Vectors \union {None}
  /\ refused \in {"nothing", "control", "state"}
  /\ newest \in Nat

Init ==
  /\ MachineInit
  /\ now = 0
  /\ kind \in Kinds
  /\ running = TRUE
  /\ m_last_state_command = None
  /\ m_last_command_stamp = 0
  /\ out_control = None
  /\ out_state = None
  /\ refused = "nothing"
  /\ newest = 0

\* Nothing is handed to the platform.
Quiet ==
  /\ out_control' = None
  /\ out_state' = None
  /\ refused' = "nothing"
  /\ newest' = newest

-----------------------------------------------------------------------------
(* Commands.                                                               *)

\* A state command replaces the one that waits.
OnStateCommand ==
  /\ running
  /\ \E v \in StateCommands, stamp \in 0..now :
       m_last_state_command' = [vector |-> v, stamp |-> stamp]
  /\ Quiet
  /\ UNCHANGED <<now, kind, running, m_last_command_stamp, machineVars>>

\* The platform gets a control command and then, if it takes it, state command v;
\* it may refuse each of them, which throws.
HandOver(stamp, v, refusal) ==
  /\ refusal = "state" => v # None
  /\ refused' = refusal
  /\ out_control' = stamp
  /\ out_state' = IF refusal = "control" THEN None ELSE v
  /\ newest' = IF stamp > newest THEN stamp ELSE newest

\* Without the safety state machine: what waits is handed over as it is, and
\* stays where it is if something is refused.
PassThrough(stamp) ==
  /\ \E refusal \in {"nothing", "control", "state"} :
       /\ HandOver(stamp, IF m_last_state_command = None
                          THEN None ELSE m_last_state_command.vector, refusal)
       /\ m_last_state_command' = IF refusal = "nothing" THEN None ELSE m_last_state_command
  /\ UNCHANGED <<now, kind, running, m_last_command_stamp, machineVars>>

\* Mutant: a command that is not used takes the state command along.
IgnoreBothCommands ==
  /\ Quiet
  /\ m_last_state_command' = None
  /\ UNCHANGED <<now, kind, running, m_last_command_stamp, machineVars>>

\* A command that is not used.
IgnoreCommand ==
  /\ Quiet
  /\ UNCHANGED <<nodeVars, machineVars>>

\* An older command throws, one with the same stamp is skipped.
Stale(stamp) == stamp <= m_last_command_stamp

OnRawCommand ==
  /\ running
  /\ kind = "raw"
  /\ \E stamp \in 0..now : PassThrough(stamp)

\* Nothing ever sets m_last_command_stamp in this handler.
OnAckermannCommand ==
  /\ running
  /\ kind = "ackermann"
  /\ \E stamp \in 0..now :
       IF stamp < m_last_command_stamp THEN IgnoreCommand ELSE PassThrough(stamp)

\* The slot is emptied and the stamp stored before anything may be refused.
OnBasicCommand ==
  /\ running
  /\ kind = "basic"
  /\ \E stamp \in 0..now :
       \/ Stale(stamp) /\ IgnoreCommand
       \/ /\ ~Stale(stamp)
          /\ m_last_state_command' = None
          /\ m_last_command_stamp' = stamp
          /\ UNCHANGED <<now, kind, running>>
          /\ \E accel \in Accels, wheel_warns \in BOOLEAN,
                refusal \in {"nothing", "control", "state"} :
               IF m_last_state_command # None
               THEN LET command == m_last_state_command
                    IN  /\ HandOver(stamp, SafeState(command.vector, Clamp(accel)), refusal)
                        /\ ComputeSafeCommands(command.vector, command.stamp, accel, wheel_warns)
               ELSE LET gear == GearWithoutCommand(accel)
                    IN  /\ HandOver(stamp, IF gear = NoCommand THEN None
                                           ELSE [NoVector EXCEPT !["gear"] = gear], refusal)
                        /\ ComputeWithoutState(accel, wheel_warns)

-----------------------------------------------------------------------------
(* The vehicle.                                                            *)

\* The timer reads from the platform; a failed read throws and changes nothing.
ReadAndPublish ==
  /\ running
  /\ Quiet
  /\ UNCHANGED nodeVars
  /\ \E ok \in BOOLEAN :
       IF ok /\ kind # "raw"
       THEN \E velocity \in Velocities, state \in VehicleReports,
               stamp \in (now - MaxLag)..now \intersect Nat : Update(velocity, state, stamp)
       ELSE UNCHANGED machineVars

\* The mode service throws if the platform refuses, and nobody catches it.
OnModeChangeRequest ==
  /\ running
  /\ running' \in BOOLEAN
  /\ Quiet
  /\ UNCHANGED <<now, kind, m_last_state_command, m_last_command_stamp, machineVars>>

Tick ==
  /\ now < MaxTime
  /\ now' = now + 1
  /\ Quiet
  /\ UNCHANGED <<kind, running, m_last_state_command, m_last_command_stamp, machineVars>>

Next ==
  \/ OnStateCommand \/ OnRawCommand \/ OnAckermannCommand \/ OnBasicCommand
  \/ ReadAndPublish \/ OnModeChangeRequest \/ Tick

Spec == Init /\ [][Next]_vars

-----------------------------------------------------------------------------
(* Properties.                                                             *)

\* Is state command v one that leaves the gear alone, as far as is known?
KeepsGear(v) == v["gear"] \in {NoCommand, m_state["gear"]}

\* With the safety state machine no gear reaches the platform that is not the one
\* the vehicle is in, while the vehicle is fast in either direction: neither a
\* gear from a state command nor one the machine chose (bad_gear_shift and
\* automatic_gear_shift of safety_state_machine.cpp).
GearShiftsAreSafe ==
  kind = "basic" /\ out_state # None /\ OverThreshold => KeepsGear(out_state)

\* A state command leaves its slot only towards the platform or for a newer one;
\* the only way to lose it is that the platform refuses the control command it
\* was to follow (on_command_message and send_state_command of
\* vehicle_interface_node.cpp).
StateCommandIsNotLost ==
  [][m_last_state_command # None /\ m_last_state_command' = None =>
       \/ out_state' # None
       \/ kind = "basic" /\ refused' = "control"]_vars

\* With basic commands the platform gets control commands in the order of their
\* stamps and none twice, refused ones included (the check of dt in
\* on_command_message of vehicle_interface_node.cpp).
CommandsAreInOrder ==
  [][kind = "basic" /\ out_control' # None => out_control' > newest]_vars

\* After each report of the vehicle, a change that was asked for longer than
\* state_transition_timeout ago, and that was neither reported nor overtaken by
\* another command for the same component, is in the reports of the safety state
\* machine (cache_state_change_request and check_state_change of
\* safety_state_machine.cpp).  The node reads the reports right then, but does not log
\* this one: the line is commented out (vehicle_interface_node.cpp:565-569), so that
\* nobody is warned.
OverdueIsReported == overdue => "STATE_TRANSITION_TIMEOUT" \in m_reports

\* What was asked of the vehicle is what the machine remembers.
AskedIsRequested ==
  \A a \in asked : /\ a.component \in Fields => a.value # NoCommand
                   /\ a.value = m_requests[a.component].value
                   /\ a.stamp = m_requests[a.component].stamp

\* The stamp that is compared with is that of the newest command handed over.
StampIsNewest == kind = "basic" => newest = m_last_command_stamp

\* Why the properties hold: the inductive invariant.
InductiveInv ==
  /\ TypeOK
  /\ AskedIsRequested
  /\ StampIsNewest
  /\ OverdueIsReported
  /\ GearShiftsAreSafe
=============================================================================
