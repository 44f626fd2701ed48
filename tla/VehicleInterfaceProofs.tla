------------------------ MODULE VehicleInterfaceProofs ------------------------
(***************************************************************************)
(* Theorems about the vehicle interface for any limits, timeouts, commands *)
(* and reports.                                                            *)
(***************************************************************************)
EXTENDS VehicleInterface, TLAPS

-----------------------------------------------------------------------------
(* The operators of the safety state machine.                              *)

LEMMA FieldsAndFlags ==
  /\ Fields = {"gear", "blinker", "wiper", "headlight", "mode"}
  /\ Flags = {"horn", "hand_brake"}
  /\ Components = Fields \union Flags
  /\ \A f \in Fields : NoCommand \notin Commands[f] /\ Commands[f] \subseteq FieldValues
  /\ {"DRIVE", "REVERSE"} \subseteq Commands["gear"]
  /\ "ENABLE_LOW" \in Commands["headlight"]
  /\ NoCommand \in FieldValues
<1>1. /\ Fields = {"gear", "blinker", "wiper", "headlight", "mode"}
      /\ {"DRIVE", "REVERSE"} \subseteq Commands["gear"]
      /\ "ENABLE_LOW" \in Commands["headlight"]
  BY DEF Fields, Commands
<1>2. \A f \in Fields : NoCommand \notin Commands[f]
  BY <1>1 DEF Commands, NoCommand
<1>3. \A f \in Fields : Commands[f] \subseteq FieldValues
  BY DEF FieldValues
<1> QED
  BY <1>1, <1>2, <1>3 DEF Flags, Components, FieldValues

\* A vector gives each component a value of its kind.
LEMMA VectorValues ==
  ASSUME NEW v \in Vectors
  PROVE  /\ DOMAIN v = Components
         /\ \A f \in Fields : v[f] \in FieldValues
         /\ \A f \in Flags : v[f] \in FlagValues
BY DEF Vectors

\* Whatever gives each component a value of its kind is a vector.
LEMMA MakeVector ==
  ASSUME NEW v, v = [c \in Components |-> v[c]],
         \A f \in Fields : v[f] \in FieldValues,
         \A f \in Flags : v[f] \in FlagValues
  PROVE  v \in Vectors
<1>1. \A c \in Components : v[c] \in FieldValues \union FlagValues
  BY DEF Components
<1> QED
  BY <1>1 DEF Vectors

LEMMA NoVectorIsVector == NoVector \in Vectors
<1>1. NoVector = [c \in Components |-> NoVector[c]]
  BY DEF NoVector
<1>2. \A f \in Fields : NoVector[f] = NoCommand
  BY FieldsAndFlags DEF NoVector, Nothing
<1>3. \A f \in Flags : NoVector[f] \in FlagValues
  BY FieldsAndFlags DEF NoVector, Nothing, FlagValues
<1> QED
  BY <1>1, <1>2, <1>3, FieldsAndFlags, MakeVector

\* What is sanitized holds commands that exist.
LEMMA SanitizeType ==
  ASSUME NEW v \in Vectors
  PROVE  /\ DOMAIN Sanitize(v) = Components
         /\ Sanitize(v) = [c \in Components |-> Sanitize(v)[c]]
         /\ \A f \in Fields : Sanitize(v)[f] \in Commands[f] \union {NoCommand}
         /\ \A f \in Flags : Sanitize(v)[f] \in FlagValues
BY VectorValues, FieldsAndFlags DEF Sanitize

LEMMA AutomaticGearShiftType ==
  ASSUME NEW accel, NEW gear
  PROVE  AutomaticGearShift(accel, gear) \in {gear, "DRIVE", "REVERSE"}
BY DEF AutomaticGearShift

\* So does what is handed over.
LEMMA SafeStateType ==
  ASSUME NEW v \in Vectors, NEW accel
  PROVE  /\ SafeState(v, accel) \in Vectors
         /\ \A f \in Fields : SafeState(v, accel)[f] \in Commands[f] \union {NoCommand}
<1> DEFINE lit == WithHeadlights(Sanitize(v))
           gear == WantedGear(lit, accel)
           safe == SafeState(v, accel)
<1>1. /\ lit = [c \in Components |-> lit[c]]
      /\ \A f \in Fields : lit[f] \in Commands[f] \union {NoCommand}
      /\ \A f \in Flags : lit[f] \in FlagValues
  <2>1. CASE HeadlightsOnIfWipersOn(Sanitize(v))
    <3>1. lit = [Sanitize(v) EXCEPT !["headlight"] = "ENABLE_LOW"]
      BY <2>1 DEF WithHeadlights
    <3> HIDE DEF lit
    <3> QED BY <3>1, SanitizeType, FieldsAndFlags
  <2>2. CASE ~HeadlightsOnIfWipersOn(Sanitize(v))
    BY <2>2, SanitizeType DEF WithHeadlights
  <2> QED BY <2>1, <2>2
<1>2. gear \in Commands["gear"] \union {NoCommand}
  <2>1. AutomaticGearShift(accel, lit["gear"]) \in {lit["gear"], "DRIVE", "REVERSE"}
    BY AutomaticGearShiftType
  <2> QED BY <1>1, <2>1, FieldsAndFlags DEF WantedGear
<1>3. safe = [lit EXCEPT !["gear"] = IF BadGearShift(gear) THEN NoCommand ELSE gear]
  BY DEF SafeState
<1> HIDE DEF lit, gear, safe
<1>4. /\ safe = [c \in Components |-> safe[c]]
      /\ \A f \in Fields : safe[f] \in Commands[f] \union {NoCommand}
      /\ \A f \in Flags : safe[f] \in FlagValues
  BY <1>1, <1>2, <1>3, FieldsAndFlags
<1>5. \A f \in Fields : safe[f] \in FieldValues
  BY <1>4, FieldsAndFlags
<1>6. safe \in Vectors
  BY <1>4, <1>5, MakeVector
<1> QED BY <1>4, <1>6 DEF safe

\* At speed no gear but the reported one is handed over.
LEMMA SafeStateKeepsGear ==
  ASSUME NEW v \in Vectors, NEW accel, OverThreshold
  PROVE  SafeState(v, accel)["gear"] \in {NoCommand, m_state["gear"]}
<1> DEFINE lit == WithHeadlights(Sanitize(v))
           gear == WantedGear(lit, accel)
<1>1. SafeState(v, accel)["gear"] = IF BadGearShift(gear) THEN NoCommand ELSE gear
  <2>1. DOMAIN lit = Components
    BY SanitizeType DEF WithHeadlights
  <2> QED BY <2>1, FieldsAndFlags DEF SafeState
<1> HIDE DEF gear
<1> QED
  BY <1>1 DEF BadGearShift

\* Nor does the machine choose one by itself.
LEMMA GearWithoutCommandKeepsGear ==
  ASSUME NEW accel, OverThreshold
  PROVE  GearWithoutCommand(accel) = NoCommand
BY DEF GearWithoutCommand, AutomaticGearShift

\* What is handed over without a state command is a vector.
LEMMA GearVector ==
  ASSUME NEW accel, GearWithoutCommand(accel) # NoCommand
  PROVE  [NoVector EXCEPT !["gear"] = GearWithoutCommand(accel)] \in Vectors
<1> DEFINE gear == GearWithoutCommand(accel)
           new == [NoVector EXCEPT !["gear"] = gear]
<1>1. gear \in FieldValues
  <2>1. gear \in {"DRIVE", "REVERSE"}
    BY AutomaticGearShiftType DEF GearWithoutCommand
  <2> QED BY <2>1, FieldsAndFlags
<1> HIDE DEF gear
<1>2. /\ new = [c \in Components |-> new[c]]
      /\ \A f \in Fields : new[f] \in FieldValues
      /\ \A f \in Flags : new[f] \in FlagValues
  BY <1>1, NoVectorIsVector, VectorValues, FieldsAndFlags
<1> HIDE DEF new
<1> QED BY <1>2, MakeVector DEF new, gear

-----------------------------------------------------------------------------
(* Type correctness.                                                       *)

USE NoneAssumption

LEMMA InitType == Init => TypeOK
<1> SUFFICES ASSUME Init PROVE TypeOK
  OBVIOUS
<1>1. TransitionTimeout \in Nat
  BY ConfigAssumption
<1>2. m_state \in Vectors
  <2>1. m_state = [c \in Components |-> m_state[c]]
    BY DEF Init, MachineInit
  <2>2. \A f \in Fields : m_state[f] \in FieldValues
    <3>1. /\ "DRIVE" \in Commands["gear"] /\ "OFF" \in Commands["blinker"]
          /\ "DISABLE" \in Commands["wiper"] /\ "DISABLE" \in Commands["headlight"]
      BY DEF Commands
    <3>2. {"DRIVE", "OFF", "DISABLE", "INVALID"} \subseteq FieldValues
      BY <3>1, FieldsAndFlags DEF FieldValues
    <3> QED BY <3>2, FieldsAndFlags DEF Init, MachineInit
  <2>3. \A f \in Flags : m_state[f] \in FlagValues
    BY FieldsAndFlags DEF Init, MachineInit, FlagValues
  <2> QED BY <2>1, <2>2, <2>3, MakeVector
<1>3. /\ DOMAIN m_requests = Components
      /\ \A c \in Components : /\ m_requests[c].value = Nothing(c)
                               /\ m_requests[c].stamp \in Stamps
  BY FieldsAndFlags DEF Init, MachineInit, Stamps
<1>4. /\ \A f \in Fields : m_requests[f].value = NoCommand
      /\ \A f \in Flags : m_requests[f].value \in FlagValues
  BY <1>3, FieldsAndFlags DEF Nothing, FlagValues
<1>5. MachineTypeOK
  <2>1. m_odometry = 0 /\ m_reports = {} /\ asked = {} /\ overdue = FALSE
    BY DEF Init, MachineInit
  <2>2. Fields \subseteq Components /\ Flags \subseteq Components
    BY FieldsAndFlags
  <2>3. \A f \in Fields : /\ m_requests[f].value \in Commands[f] \union {NoCommand}
                          /\ m_requests[f].stamp \in Stamps
    BY <1>3, <1>4, <2>2
  <2>4. \A f \in Flags : m_requests[f].value \in FlagValues /\ m_requests[f].stamp \in Stamps
    BY <1>3, <1>4, <2>2
  <2>5. m_odometry \in Int /\ m_reports \subseteq ReportKinds
    BY <2>1
  <2>6. overdue \in BOOLEAN
    BY <2>1, Zenon
  <2>7. \A a \in asked : a.component \in Components /\ a.stamp \in Nat
    BY <2>1
  <2> QED BY <1>2, <1>3, <2>3, <2>4, <2>5, <2>6, <2>7 DEF MachineTypeOK
<1> QED
  BY <1>5 DEF Init, TypeOK

\* Reports come from the list of kinds.
LEMMA ReportsType ==
  ASSUME NEW v, NEW accel
  PROVE  /\ StateReports(v, accel) \subseteq ReportKinds
         /\ "CLAMP_PAST_THRESHOLD" \in ReportKinds
         /\ "STATE_TRANSITION_TIMEOUT" \in ReportKinds
BY DEF StateReports, ReportKinds

\* The machine keeps its types when it makes a command safe ...
LEMMA ComputeType ==
  ASSUME MachineTypeOK, NEW v \in Vectors, NEW stamp \in Nat, NEW accel, NEW warns,
         ComputeSafeCommands(v, stamp, accel, warns)
  PROVE  MachineTypeOK'
<1> DEFINE safe == SafeState(v, Clamp(accel))
<1>1. /\ safe \in Vectors
      /\ \A f \in Fields : safe[f] \in Commands[f] \union {NoCommand}
  BY SafeStateType
<1>2. /\ CacheStateChangeRequest(safe, stamp)
      /\ Ask(safe, stamp)
  BY DEF ComputeSafeCommands
<1> HIDE DEF safe
<1>3. \A f \in Flags : safe[f] \in FlagValues
  BY <1>1, VectorValues
<1>4. stamp \in Stamps
  BY DEF Stamps
<1>5. /\ DOMAIN m_requests' = Components
      /\ \A f \in Fields : /\ m_requests'[f].value \in Commands[f] \union {NoCommand}
                           /\ m_requests'[f].stamp \in Stamps
      /\ \A f \in Flags : /\ m_requests'[f].value \in FlagValues
                          /\ m_requests'[f].stamp \in Stamps
  BY <1>1, <1>2, <1>3, <1>4, FieldsAndFlags DEF CacheStateChangeRequest, MachineTypeOK
<1>6. \A a \in asked' : a.component \in Components /\ a.stamp \in Nat
  BY <1>2 DEF Ask, MachineTypeOK
<1>7. m_reports' \subseteq ReportKinds
  BY ReportsType DEF ComputeSafeCommands
<1>8. /\ m_odometry' \in Int /\ m_state' \in Vectors /\ overdue' \in BOOLEAN
  BY DEF ComputeSafeCommands, MachineTypeOK
<1> QED
  BY <1>5, <1>6, <1>7, <1>8 DEF MachineTypeOK

LEMMA ComputeWithoutStateType ==
  ASSUME MachineTypeOK, NEW accel, NEW warns, ComputeWithoutState(accel, warns)
  PROVE  MachineTypeOK'
BY ReportsType DEF ComputeWithoutState, MachineTypeOK

\* ... and when it hears from the vehicle.
LEMMA UpdateType ==
  ASSUME MachineTypeOK, NEW velocity \in Velocities, NEW state \in VehicleReports,
         NEW stamp \in Nat, Update(velocity, state, stamp)
  PROVE  MachineTypeOK'
<1>1. m_odometry' \in Int /\ m_state' \in Vectors
  BY VelocitiesAssumption, VectorsAssumption DEF Update
<1>2. /\ DOMAIN m_requests' = Components
      /\ \A f \in Fields : /\ m_requests'[f].value \in Commands[f] \union {NoCommand}
                           /\ m_requests'[f].stamp \in Stamps
      /\ \A f \in Flags : /\ m_requests'[f].value \in FlagValues
                          /\ m_requests'[f].stamp \in Stamps
  <2>1. m_requests' = [c \in Components |-> IF Satisfied(state, c)
                                            THEN [value |-> NoCommand, stamp |-> MinStamp]
                                            ELSE m_requests[c]]
    BY DEF Update, CheckStateChange
  <2>2. \A f \in Flags : ~Satisfied(state, f)
    BY FieldsAndFlags DEF Satisfied
  <2> QED BY <2>1, <2>2, FieldsAndFlags DEF MachineTypeOK, Stamps
<1>3. m_reports' \subseteq ReportKinds
  BY ReportsType DEF Update, CheckStateChange
<1>4. \A a \in asked' : a.component \in Components /\ a.stamp \in Nat
  BY DEF Update, MachineTypeOK
<1>5. overdue' \in BOOLEAN
  BY DEF Update
<1> QED
  BY <1>1, <1>2, <1>3, <1>4, <1>5 DEF MachineTypeOK

\* What is handed over is well typed.
LEMMA HandOverType ==
  ASSUME TypeOK, NEW stamp \in Nat, NEW v \in Vectors \union {None},
         NEW refusal \in {"nothing", "control", "state"}, HandOver(stamp, v, refusal)
  PROVE  /\ out_control' \in Nat \union {None}
         /\ out_state' \in Vectors \union {None}
         /\ refused' \in {"nothing", "control", "state"}
         /\ newest' \in Nat
BY DEF HandOver, TypeOK

\* The cases of a control command, with what each of them hands over.
LEMMA PassThroughType ==
  ASSUME TypeOK, NEW stamp \in Nat, PassThrough(stamp)
  PROVE  TypeOK'
<1>1. PICK refusal \in {"nothing", "control", "state"} :
        /\ HandOver(stamp, IF m_last_state_command = None
                           THEN None ELSE m_last_state_command.vector, refusal)
        /\ m_last_state_command' = IF refusal = "nothing" THEN None ELSE m_last_state_command
  BY DEF PassThrough
<1>2. (IF m_last_state_command = None THEN None ELSE m_last_state_command.vector)
        \in Vectors \union {None}
  BY DEF TypeOK, SlotCommands
<1>3. MachineTypeOK'
  BY DEF PassThrough, TypeOK, MachineTypeOK, machineVars
<1> QED
  BY <1>1, <1>2, <1>3, HandOverType DEF PassThrough, TypeOK

\* A basic command that is used, with and without a state command.
UsesBasicCommand(stamp) ==
  /\ kind = "basic"
  /\ ~Stale(stamp)
  /\ m_last_state_command' = None
  /\ m_last_command_stamp' = stamp
  /\ UNCHANGED <<now, kind, running>>

Follows(stamp, accel, warns, refusal) ==
  LET command == m_last_state_command
  IN  /\ command # None
      /\ HandOver(stamp, SafeState(command.vector, Clamp(accel)), refusal)
      /\ ComputeSafeCommands(command.vector, command.stamp, accel, warns)

Alone(stamp, accel, warns, refusal) ==
  LET gear == GearWithoutCommand(accel)
  IN  /\ m_last_state_command = None
      /\ HandOver(stamp, IF gear = NoCommand THEN None
                         ELSE [NoVector EXCEPT !["gear"] = gear], refusal)
      /\ ComputeWithoutState(accel, warns)

LEMMA BasicCases ==
  ASSUME OnBasicCommand
  PROVE  \/ IgnoreCommand
         \/ \E stamp \in 0..now, accel \in Accels, warns \in BOOLEAN,
               refusal \in {"nothing", "control", "state"} :
              /\ UsesBasicCommand(stamp)
              /\ Follows(stamp, accel, warns, refusal) \/ Alone(stamp, accel, warns, refusal)
BY DEF OnBasicCommand, UsesBasicCommand, Follows, Alone

LEMMA BasicType ==
  ASSUME TypeOK, NEW stamp \in Nat, NEW accel \in Accels, NEW warns \in BOOLEAN,
         NEW refusal \in {"nothing", "control", "state"}, UsesBasicCommand(stamp),
         Follows(stamp, accel, warns, refusal) \/ Alone(stamp, accel, warns, refusal)
  PROVE  TypeOK'
<1>1. CASE Follows(stamp, accel, warns, refusal)
  <2> DEFINE command == m_last_state_command
             safe == SafeState(command.vector, Clamp(accel))
  <2>1. command.vector \in Vectors /\ command.stamp \in Nat
    BY <1>1 DEF Follows, TypeOK, SlotCommands
  <2>2. safe \in Vectors
    BY <2>1, SafeStateType
  <2>3. MachineTypeOK'
    BY <1>1, <2>1, ComputeType DEF Follows, TypeOK
  <2>4. HandOver(stamp, safe, refusal)
    BY <1>1 DEF Follows
  <2> HIDE DEF command, safe
  <2> QED
    BY <2>2, <2>3, <2>4, HandOverType DEF UsesBasicCommand, TypeOK
<1>2. CASE Alone(stamp, accel, warns, refusal)
  <2> DEFINE gear == GearWithoutCommand(accel)
             v == IF gear = NoCommand THEN None ELSE [NoVector EXCEPT !["gear"] = gear]
  <2>1. v \in Vectors \union {None}
    BY GearVector
  <2>2. MachineTypeOK'
    BY <1>2, ComputeWithoutStateType DEF Alone, TypeOK
  <2>3. HandOver(stamp, v, refusal)
    BY <1>2 DEF Alone
  <2> HIDE DEF v
  <2> QED
    BY <2>1, <2>2, <2>3, HandOverType DEF UsesBasicCommand, TypeOK
<1> QED
  BY <1>1, <1>2

LEMMA IgnoreType == TypeOK /\ IgnoreCommand => TypeOK'
BY DEF IgnoreCommand, Quiet, nodeVars, machineVars, TypeOK, MachineTypeOK

LEMMA NextType == TypeOK /\ [Next]_vars => TypeOK'
<1>1. ASSUME TypeOK, UNCHANGED vars PROVE TypeOK'
  BY <1>1 DEF TypeOK, MachineTypeOK, vars, nodeVars, outputs, machineVars
<1> SUFFICES ASSUME TypeOK, Next PROVE TypeOK'
  BY <1>1
<1>2. \A stamp \in 0..now : stamp \in Nat
  BY DEF TypeOK
<1>3. MachineTypeOK /\ UNCHANGED machineVars => MachineTypeOK'
  BY DEF machineVars, MachineTypeOK
<1>4. CASE OnStateCommand
  <2>1. m_last_state_command' \in SlotCommands
    BY <1>2, <1>4, VectorsAssumption DEF OnStateCommand, SlotCommands
  <2> QED BY <1>3, <1>4, <2>1 DEF OnStateCommand, Quiet, TypeOK
<1>5. CASE OnRawCommand
  BY <1>2, <1>5, PassThroughType DEF OnRawCommand
<1>6. CASE OnAckermannCommand
  BY <1>2, <1>6, PassThroughType, IgnoreType DEF OnAckermannCommand
<1>7. CASE OnBasicCommand
  BY <1>2, <1>7, BasicCases, BasicType, IgnoreType
<1>8. CASE ReadAndPublish
  <2>1. MachineTypeOK'
    <3>1. \/ UNCHANGED machineVars
          \/ \E velocity \in Velocities, state \in VehicleReports, stamp \in Nat :
               Update(velocity, state, stamp)
      BY <1>8 DEF ReadAndPublish
    <3> QED BY <1>3, <3>1, UpdateType DEF TypeOK
  <2> QED BY <1>8, <2>1 DEF ReadAndPublish, Quiet, nodeVars, TypeOK
<1>9. CASE OnModeChangeRequest
  BY <1>3, <1>9 DEF OnModeChangeRequest, Quiet, TypeOK
<1>10. CASE Tick
  BY <1>3, <1>10 DEF Tick, Quiet, TypeOK
<1> QED
  BY <1>4, <1>5, <1>6, <1>7, <1>8, <1>9, <1>10 DEF Next

\* The variables of the node and of its safety state machine keep to their types.
THEOREM TypeCorrect == Spec => []TypeOK
<1> QED
  BY InitType, NextType, PTL DEF Spec

-----------------------------------------------------------------------------
(* The inductive invariant.                                                *)

LEMMA InitInv == Init => InductiveInv
<1> SUFFICES ASSUME Init PROVE InductiveInv
  OBVIOUS
<1> QED
  BY InitType DEF Init, MachineInit, InductiveInv, AskedIsRequested, StampIsNewest,
                  OverdueIsReported, GearShiftsAreSafe

\* A command that is cached is remembered as it was asked.
LEMMA ComputeKeepsAsked ==
  ASSUME MachineTypeOK, AskedIsRequested, NEW v \in Vectors, NEW stamp \in Nat,
         NEW accel, NEW warns, ComputeSafeCommands(v, stamp, accel, warns)
  PROVE  AskedIsRequested' /\ OverdueIsReported'
<1> DEFINE safe == SafeState(v, Clamp(accel))
<1>1. /\ CacheStateChangeRequest(safe, stamp)
      /\ Ask(safe, stamp)
      /\ m_state' = m_state
      /\ overdue' = FALSE
  BY DEF ComputeSafeCommands
<1> HIDE DEF safe
<1> SUFFICES ASSUME NEW a \in asked'
             PROVE  /\ a.component \in Fields => a.value # NoCommand
                    /\ a.value = m_requests'[a.component].value
                    /\ a.stamp = m_requests'[a.component].stamp
  BY <1>1 DEF AskedIsRequested, OverdueIsReported
<1>2. CASE a \in asked /\ a.component \in Fields /\ safe[a.component] = NoCommand
  <2>1. m_requests'[a.component] = m_requests[a.component]
    BY <1>1, <1>2, FieldsAndFlags DEF CacheStateChangeRequest, Asks
  <2> QED BY <1>2, <2>1 DEF AskedIsRequested
<1>3. CASE \E c \in Components : /\ Asks(safe, c)
                                 /\ a = [component |-> c, value |-> safe[c], stamp |-> stamp]
  <2>1. PICK c \in Components : /\ Asks(safe, c)
                                /\ a = [component |-> c, value |-> safe[c], stamp |-> stamp]
    BY <1>3
  <2>2. m_requests'[c] = [value |-> safe[c], stamp |-> stamp]
    BY <1>1, <2>1 DEF CacheStateChangeRequest
  <2>3. c \in Fields => safe[c] # NoCommand
    BY <2>1, FieldsAndFlags DEF Asks
  <2> QED BY <2>1, <2>2, <2>3
<1> QED
  BY <1>1, <1>2, <1>3 DEF Ask

\* A report takes back only what is satisfied, and lists what is overdue.
LEMMA UpdateKeepsAsked ==
  ASSUME MachineTypeOK, AskedIsRequested, NEW velocity, NEW state, NEW stamp \in Nat,
         Update(velocity, state, stamp)
  PROVE  AskedIsRequested' /\ OverdueIsReported'
<1>1. ASSUME NEW a \in asked'
      PROVE  /\ a \in asked /\ a.component \in Components
             /\ state[a.component] # a.value
             /\ ~Satisfied(state, a.component)
             /\ m_requests'[a.component] = m_requests[a.component]
  BY <1>1 DEF Update, CheckStateChange, Satisfied, AskedIsRequested, MachineTypeOK
<1>2. AskedIsRequested'
  BY <1>1 DEF AskedIsRequested
<1>3. OverdueIsReported'
  <2> SUFFICES ASSUME overdue' PROVE "STATE_TRANSITION_TIMEOUT" \in m_reports'
    BY DEF OverdueIsReported
  <2>1. PICK a \in asked' : stamp - TransitionTimeout > a.stamp
    BY DEF Update
  <2>2. RequestTimedOut(state, stamp, a.component)
    BY <1>1, <2>1, FieldsAndFlags DEF RequestTimedOut, AskedIsRequested
  <2> QED BY <1>1, <2>2 DEF Update, CheckStateChange
<1> QED
  BY <1>2, <1>3

\* What a basic command hands over is safe, and newer than anything before.
LEMMA BasicIsSafe ==
  ASSUME InductiveInv, NEW stamp \in Nat, NEW accel \in Accels, NEW warns \in BOOLEAN,
         NEW refusal \in {"nothing", "control", "state"}, UsesBasicCommand(stamp),
         Follows(stamp, accel, warns, refusal) \/ Alone(stamp, accel, warns, refusal)
  PROVE  AskedIsRequested' /\ OverdueIsReported' /\ StampIsNewest' /\ GearShiftsAreSafe'
<1>1. stamp > newest /\ newest \in Nat
  BY DEF InductiveInv, TypeOK, StampIsNewest, UsesBasicCommand, Stale
<1>2. CASE Follows(stamp, accel, warns, refusal)
  <2> DEFINE command == m_last_state_command
             safe == SafeState(command.vector, Clamp(accel))
  <2>1. command.vector \in Vectors /\ command.stamp \in Nat
    BY <1>2 DEF Follows, InductiveInv, TypeOK, SlotCommands
  <2>2. ComputeSafeCommands(command.vector, command.stamp, accel, warns)
    BY <1>2 DEF Follows
  <2>3. HandOver(stamp, safe, refusal)
    BY <1>2 DEF Follows
  <2>4. OverThreshold => safe["gear"] \in {NoCommand, m_state["gear"]}
    BY <2>1, SafeStateKeepsGear
  <2>5. AskedIsRequested' /\ OverdueIsReported'
    BY <2>1, <2>2, ComputeKeepsAsked DEF InductiveInv, TypeOK
  <2>6. m_odometry' = m_odometry /\ m_state' = m_state
    BY <2>2 DEF ComputeSafeCommands
  <2> HIDE DEF safe
  <2>7. GearShiftsAreSafe'
    BY <2>3, <2>4, <2>6 DEF GearShiftsAreSafe, KeepsGear, OverThreshold, HandOver
  <2>8. StampIsNewest'
    BY <1>1, <2>3 DEF StampIsNewest, HandOver, UsesBasicCommand
  <2> QED BY <2>5, <2>7, <2>8
<1>3. CASE Alone(stamp, accel, warns, refusal)
  <2> DEFINE gear == GearWithoutCommand(accel)
             v == IF gear = NoCommand THEN None ELSE [NoVector EXCEPT !["gear"] = gear]
  <2>1. ComputeWithoutState(accel, warns)
    BY <1>3 DEF Alone
  <2>2. HandOver(stamp, v, refusal)
    BY <1>3 DEF Alone
  <2>3. OverThreshold => v = None
    BY GearWithoutCommandKeepsGear
  <2>4. AskedIsRequested' /\ OverdueIsReported'
    BY <2>1 DEF ComputeWithoutState, InductiveInv, AskedIsRequested, OverdueIsReported
  <2>5. m_odometry' = m_odometry
    BY <2>1 DEF ComputeWithoutState
  <2> HIDE DEF v
  <2>6. GearShiftsAreSafe'
    BY <2>2, <2>3, <2>5 DEF GearShiftsAreSafe, OverThreshold, HandOver
  <2>7. StampIsNewest'
    BY <1>1, <2>2 DEF StampIsNewest, HandOver, UsesBasicCommand
  <2> QED BY <2>4, <2>6, <2>7
<1> QED
  BY <1>2, <1>3

LEMMA NextInv == InductiveInv /\ [Next]_vars => InductiveInv'
<1> SUFFICES ASSUME InductiveInv, [Next]_vars
             PROVE  AskedIsRequested' /\ OverdueIsReported' /\ StampIsNewest' /\ GearShiftsAreSafe'
  BY NextType DEF InductiveInv
<1>1. UNCHANGED machineVars => AskedIsRequested' /\ OverdueIsReported'
  BY DEF InductiveInv, machineVars, AskedIsRequested, OverdueIsReported
<1>2. Quiet => GearShiftsAreSafe'
  BY DEF Quiet, GearShiftsAreSafe
<1>3. Quiet /\ UNCHANGED <<kind, m_last_command_stamp>> => StampIsNewest'
  BY DEF Quiet, InductiveInv, StampIsNewest
<1>4. CASE UNCHANGED vars
  BY <1>4 DEF vars, nodeVars, outputs, machineVars, InductiveInv, AskedIsRequested,
              OverdueIsReported, StampIsNewest, GearShiftsAreSafe, KeepsGear, OverThreshold
<1>5. CASE OnStateCommand
  BY <1>1, <1>2, <1>3, <1>5 DEF OnStateCommand
<1>6. ASSUME NEW stamp \in 0..now, PassThrough(stamp), kind # "basic"
      PROVE  AskedIsRequested' /\ OverdueIsReported' /\ StampIsNewest' /\ GearShiftsAreSafe'
  BY <1>1, <1>6 DEF PassThrough, StampIsNewest, GearShiftsAreSafe
<1>7. ASSUME IgnoreCommand
      PROVE  AskedIsRequested' /\ OverdueIsReported' /\ StampIsNewest' /\ GearShiftsAreSafe'
  BY <1>1, <1>2, <1>3, <1>7 DEF IgnoreCommand, nodeVars
<1>8. CASE OnRawCommand
  BY <1>6, <1>8 DEF OnRawCommand
<1>9. CASE OnAckermannCommand
  BY <1>6, <1>7, <1>9 DEF OnAckermannCommand
<1>10. CASE OnBasicCommand
  <2>1. \A stamp \in 0..now : stamp \in Nat
    BY DEF InductiveInv, TypeOK
  <2> QED BY <1>7, <1>10, <2>1, BasicCases, BasicIsSafe
<1>11. CASE ReadAndPublish
  <2>1. \/ UNCHANGED machineVars
        \/ \E velocity \in Velocities, state \in VehicleReports, stamp \in Nat :
             Update(velocity, state, stamp)
    BY <1>11 DEF ReadAndPublish
  <2>2. AskedIsRequested' /\ OverdueIsReported'
    BY <1>1, <2>1, UpdateKeepsAsked DEF InductiveInv, TypeOK
  <2> QED BY <1>2, <1>3, <1>11, <2>2 DEF ReadAndPublish, nodeVars
<1>12. CASE OnModeChangeRequest
  BY <1>1, <1>2, <1>3, <1>12 DEF OnModeChangeRequest
<1>13. CASE Tick
  BY <1>1, <1>2, <1>3, <1>13 DEF Tick
<1> QED
  BY <1>4, <1>5, <1>8, <1>9, <1>10, <1>11, <1>12, <1>13 DEF Next

\* Requests and warnings agree, and so do stamps and commands handed over.
THEOREM InvariantCorrect == Spec => []InductiveInv
<1> QED
  BY InitInv, NextInv, PTL DEF Spec

\* No gear shift passes the safety state machine at speed, whatever the limits.
THEOREM GearCorrect == Spec => []GearShiftsAreSafe
<1>1. InductiveInv => GearShiftsAreSafe
  BY DEF InductiveInv
<1> QED
  BY <1>1, InvariantCorrect, PTL

\* After each report of the vehicle a change that is overdue is in the reports of the
\* safety state machine, whatever the timeout; the node does not log it.
THEOREM OverdueCorrect == Spec => []OverdueIsReported
<1>1. InductiveInv => OverdueIsReported
  BY DEF InductiveInv
<1> QED
  BY <1>1, InvariantCorrect, PTL

\* Basic commands reach the platform in the order of their stamps.
THEOREM OrderCorrect == Spec => CommandsAreInOrder
<1>1. InductiveInv /\ [Next]_vars =>
        [kind = "basic" /\ out_control' # None => out_control' > newest]_vars
  <2> SUFFICES ASSUME InductiveInv, Next, kind = "basic", out_control' # None
               PROVE  out_control' > newest
    OBVIOUS
  <2>1. ~Quiet
    BY DEF Quiet
  <2>2. OnBasicCommand
    BY <2>1 DEF Next, OnStateCommand, OnRawCommand, OnAckermannCommand, ReadAndPublish,
                OnModeChangeRequest, Tick
  <2>3. PICK stamp \in 0..now : UsesBasicCommand(stamp) /\ out_control' = stamp
    BY <2>1, <2>2, BasicCases DEF IgnoreCommand, Follows, Alone, HandOver
  <2> QED
    BY <2>3 DEF UsesBasicCommand, Stale, InductiveInv, StampIsNewest, TypeOK
<1> QED
  BY <1>1, InvariantCorrect, PTL DEF Spec, CommandsAreInOrder

\* A state command that waits is handed over, unless its control command is refused.
THEOREM SlotCorrect == Spec => StateCommandIsNotLost
<1> DEFINE Lost == /\ m_last_state_command # None /\ m_last_state_command' = None
                   /\ out_state' = None
                   /\ ~(kind = "basic" /\ refused' = "control")
<1>1. TypeOK /\ [Next]_vars =>
        [m_last_state_command # None /\ m_last_state_command' = None =>
           out_state' # None \/ (kind = "basic" /\ refused' = "control")]_vars
  <2> SUFFICES ASSUME TypeOK, Next, Lost PROVE FALSE
    OBVIOUS
  <2>1. m_last_state_command \in SlotCommands /\ m_last_state_command.vector \in Vectors
    BY DEF TypeOK, SlotCommands
  <2>2. ~(m_last_state_command' = m_last_state_command)
    BY DEF Lost
  <2>3. ASSUME NEW stamp, PassThrough(stamp) PROVE FALSE
    BY <2>1, <2>2, <2>3 DEF PassThrough, HandOver
  <2>4. CASE OnStateCommand
    <3>1. PICK v \in StateCommands, stamp \in 0..now :
            m_last_state_command' = [vector |-> v, stamp |-> stamp]
      BY <2>4 DEF OnStateCommand
    <3>2. m_last_state_command'.stamp \in Nat
      BY <3>1 DEF TypeOK
    <3>3. m_last_state_command' \in SlotCommands
      BY <3>1, VectorsAssumption DEF TypeOK, SlotCommands
    <3> QED BY <3>3 DEF SlotCommands
  <2>5. CASE OnBasicCommand
    <3>1. PICK stamp \in 0..now, accel \in Accels, warns \in BOOLEAN,
               refusal \in {"nothing", "control", "state"} :
            /\ UsesBasicCommand(stamp)
            /\ Follows(stamp, accel, warns, refusal) \/ Alone(stamp, accel, warns, refusal)
      BY <2>2, <2>5, BasicCases DEF IgnoreCommand, nodeVars
    <3>2. Follows(stamp, accel, warns, refusal)
      BY <3>1 DEF Alone
    <3>3. SafeState(m_last_state_command.vector, Clamp(accel)) # None
      BY <2>1, SafeStateType
    <3> QED BY <3>1, <3>2, <3>3 DEF UsesBasicCommand, Follows, HandOver
  <2> QED
    BY <2>2, <2>3, <2>4, <2>5 DEF Next, OnRawCommand, OnAckermannCommand, IgnoreCommand, nodeVars,
       ReadAndPublish, OnModeChangeRequest, Tick
<1> QED
  BY <1>1, TypeCorrect, PTL DEF Spec, StateCommandIsNotLost
=============================================================================
