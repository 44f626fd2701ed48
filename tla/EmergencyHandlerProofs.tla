------------------------ MODULE EmergencyHandlerProofs ------------------------
(***************************************************************************)
(* Theorems about the emergency handler for any timeouts, any timer period *)
(* and either setting of its two switches.                                 *)
(***************************************************************************)
EXTENDS EmergencyHandler, TLAPS

USE TimeoutsAssumption

-----------------------------------------------------------------------------
(* Type correctness.                                                       *)

\* Ages stay between zero and their cap and never go down as time passes.
LEMMA OlderInRange ==
  ASSUME NEW cap \in Nat, NEW age \in 0..cap
  PROVE  Older(age, cap) \in 0..cap /\ age <= Older(age, cap) /\ Older(age, cap) <= age + 1
BY DEF Older

\* The caps of the ages are numbers, and ages may begin at zero.
LEMMA Caps ==
  /\ DataReadyCap \in Nat /\ HeartbeatCap \in Nat /\ SilenceCap \in Nat
  /\ 0 \in 0..DataReadyCap /\ 0 \in 0..HeartbeatCap /\ 0 \in 0..SilenceCap
  /\ 0 \in 0..TimerPeriod
BY DEF DataReadyCap, HeartbeatCap, SilenceCap

LEMMA InitType == Init => TypeOK
<1> SUFFICES ASSUME Init PROVE TypeOK
  OBVIOUS
<1>1. /\ heartbeat \in [received : BOOLEAN, age : 0..HeartbeatCap]
      /\ sinceInit \in 0..DataReadyCap /\ sinceTimer \in 0..TimerPeriod
      /\ silence \in 0..SilenceCap
  BY Caps DEF Init
<1>2. queue \in [capability : Capability \union {NoCapability}, heartbeat : BOOLEAN]
  BY DEF Init
<1>3. velocity \in Velocities
  BY VelocitiesAssumption DEF Init
<1> QED
  BY <1>1, <1>2, <1>3 DEF Init, TypeOK

\* The history is a silence, whatever the step.
LEMMA SilenceType == TypeOK /\ TrackSilence => silence' \in 0..SilenceCap
BY Caps, OlderInRange DEF TypeOK, TrackSilence

\* A report is well typed.
LEMMA ReportType ==
  ASSUME TypeOK, NEW h \in BOOLEAN, Report(h), TrackSilence, UNCHANGED use_emergency_hold
  PROVE  TypeOK'
<1>1. /\ hazard' \in BOOLEAN /\ is_emergency' \in BOOLEAN
      /\ published' \in {"none", "NORMAL", "MRM_OPERATING"}
      /\ sinceTimer' \in 0..TimerPeriod
  BY Caps DEF Report
<1>2. gear' \in {"none", "PARK", "NO_COMMAND"}
  BY DEF Report, TypeOK
<1> QED
  BY <1>1, <1>2, SilenceType DEF Report, TypeOK, inputs

\* Every timer call reports a truth value, or crashes.
LEMMA TimerReports ==
  ASSUME TypeOK, OnTimer
  PROVE  (\E h \in BOOLEAN : Report(h)) \/ (Crash /\ JudgeThrows)
<1>1. /\ hazard \in BOOLEAN /\ (hazard \/ sinceInit > DataReadyTimeout) \in BOOLEAN
      /\ JudgeHazardStatus \in BOOLEAN
  BY DEF TypeOK, JudgeHazardStatus
<1> QED
  BY <1>1 DEF OnTimer

LEMMA NextType == TypeOK /\ [Next]_vars => TypeOK'
<1>1. ASSUME TypeOK, UNCHANGED vars PROVE TypeOK'
  BY <1>1 DEF TypeOK, vars, inputs, clocks, verdict, outputs
<1> SUFFICES ASSUME TypeOK, Next PROVE TypeOK'
  BY <1>1
<1> USE DEF inputs, clocks, verdict, outputs
<1>2. silence' \in 0..SilenceCap /\ use_emergency_hold' = use_emergency_hold
  BY SilenceType DEF Next
<1>3. CASE OnAutowareState
  BY <1>2, <1>3 DEF OnAutowareState, TypeOK
<1>4. CASE OnStateReport
  BY <1>2, <1>4 DEF OnStateReport, TypeOK
<1>5. CASE OnOdometry
  BY <1>2, <1>5 DEF OnOdometry, TypeOK
<1>6. CASE PublishDrivingCapability
  BY <1>2, <1>6 DEF PublishDrivingCapability, TypeOK
<1>7. CASE OnDrivingCapability
  BY <1>2, <1>7 DEF OnDrivingCapability, TypeOK
<1>8. CASE OnHeartbeat
  BY <1>2, <1>8, Caps DEF OnHeartbeat, TypeOK
<1>9. CASE OnClearEmergencyService
  BY <1>2, <1>9 DEF OnClearEmergencyService, Crash, TypeOK
<1>10. CASE OnTimer
  <2>1. CASE \E h \in BOOLEAN : Report(h)
    BY <2>1, <1>2, ReportType DEF Next
  <2>2. CASE Crash
    BY <1>2, <1>10, <2>2 DEF Crash, TypeOK
  <2> QED BY <1>10, <2>1, <2>2, TimerReports
<1>11. CASE Tick
  <2>1. heartbeat' \in [received : BOOLEAN, age : 0..HeartbeatCap]
    <3>1. heartbeat \in [received : BOOLEAN, age : 0..HeartbeatCap]
      BY DEF TypeOK
    <3>2. Older(heartbeat.age, HeartbeatCap) \in 0..HeartbeatCap
      BY <3>1, Caps, OlderInRange
    <3> QED BY <1>11, <3>1, <3>2 DEF Tick
  <2>2. sinceInit' \in 0..DataReadyCap
    BY <1>11, Caps, OlderInRange DEF Tick, TypeOK
  <2>3. sinceTimer' \in 0..TimerPeriod
    BY <1>11 DEF Tick, TypeOK
  <2> QED BY <1>2, <1>11, <2>1, <2>2, <2>3 DEF Tick, TypeOK
<1> QED
  BY <1>3, <1>4, <1>5, <1>6, <1>7, <1>8, <1>9, <1>10, <1>11 DEF Next

\* The variables keep to their types for every value of the constants.
THEOREM TypeCorrect == Spec => []TypeOK
BY InitType, NextType, PTL DEF Spec

-----------------------------------------------------------------------------
(* What the steps leave alone.                                             *)

\* Callbacks that only collect data.
Collects == \/ OnAutowareState \/ OnStateReport \/ OnOdometry \/ PublishDrivingCapability
            \/ OnDrivingCapability \/ OnHeartbeat

\* Data once received does not go missing.
LEMMA DataStaysReady == TypeOK /\ [Next]_vars /\ IsDataReady => IsDataReady'
<1> SUFFICES ASSUME TypeOK, [Next]_vars, IsDataReady PROVE IsDataReady'
  OBVIOUS
<1>1. CASE OnAutowareState
  BY <1>1 DEF OnAutowareState, IsDataReady, AutowareStates
<1>2. CASE OnStateReport
  BY <1>2 DEF OnStateReport, IsDataReady, Modes
<1>3. CASE OnDrivingCapability
  BY <1>3 DEF OnDrivingCapability, IsDataReady
<1>4. ASSUME \/ OnOdometry \/ PublishDrivingCapability \/ OnHeartbeat
             \/ OnClearEmergencyService \/ OnTimer \/ Tick \/ UNCHANGED vars
      PROVE  UNCHANGED <<autoware_state, driving_capability, state_report>>
  BY <1>4 DEF OnOdometry, PublishDrivingCapability, OnHeartbeat, OnClearEmergencyService,
     OnTimer, Report, Crash, Tick, inputs, vars
<1> QED
  BY <1>1, <1>2, <1>3, <1>4 DEF Next, IsDataReady

LEMMA CollectingLeavesTheRest ==
  Collects => UNCHANGED <<sinceInit, sinceTimer, is_emergency, hazard, published, gear, crashed>>
BY DEF Collects, OnAutowareState, OnStateReport, OnOdometry, PublishDrivingCapability,
       OnDrivingCapability, OnHeartbeat, clocks, verdict, outputs

-----------------------------------------------------------------------------
(* The parts of the inductive invariant.                                   *)

\* The report and the verdict change together.
LEMMA NextKeepsMatch == TypeOK /\ ReportMatchesVerdict /\ [Next]_vars => ReportMatchesVerdict'
<1> SUFFICES ASSUME TypeOK, ReportMatchesVerdict, [Next]_vars PROVE ReportMatchesVerdict'
  OBVIOUS
<1>1. CASE \E h \in BOOLEAN : Report(h)
  BY <1>1 DEF Report, ReportMatchesVerdict
<1>2. CASE OnClearEmergencyService
  BY <1>2 DEF OnClearEmergencyService, Crash, ReportMatchesVerdict, verdict, outputs
<1>3. CASE UNCHANGED <<verdict, outputs>>
  BY <1>3 DEF ReportMatchesVerdict, verdict, outputs
<1>4. ASSUME Collects PROVE UNCHANGED <<verdict, outputs>>
  BY <1>4, CollectingLeavesTheRest DEF verdict, outputs
<1>5. ASSUME Crash \/ Tick \/ UNCHANGED vars PROVE UNCHANGED <<verdict, outputs>>
  BY <1>5 DEF Crash, Tick, vars
<1> QED
  BY <1>1, <1>2, <1>3, <1>4, <1>5, TimerReports DEF Next, Collects

\* Only onHeartbeat empties its queue, and it keeps the time of what it takes.
LEMMA NextKeepsComing == TypeOK /\ HeartbeatIsComing /\ [Next]_vars => HeartbeatIsComing'
<1> SUFFICES ASSUME TypeOK, HeartbeatIsComing, [Next]_vars PROVE HeartbeatIsComing'
  OBVIOUS
<1> USE DEF HeartbeatIsComing
<1>1. CASE PublishDrivingCapability
  BY <1>1 DEF PublishDrivingCapability
<1>2. CASE OnDrivingCapability
  BY <1>2 DEF OnDrivingCapability, TypeOK
<1>3. CASE OnHeartbeat
  BY <1>3 DEF OnHeartbeat
<1>4. CASE Tick
  BY <1>4 DEF Tick, inputs, TypeOK
<1>5. CASE UNCHANGED <<driving_capability, heartbeat, queue>>
  BY <1>5
<1>6. ASSUME \/ OnAutowareState \/ OnStateReport \/ OnOdometry
             \/ OnClearEmergencyService \/ OnTimer \/ UNCHANGED vars
      PROVE  UNCHANGED <<driving_capability, heartbeat, queue>>
  BY <1>6 DEF OnAutowareState, OnStateReport, OnOdometry, OnClearEmergencyService,
     OnTimer, Report, Crash, inputs, vars
<1> QED
  BY <1>1, <1>2, <1>3, <1>4, <1>5, <1>6 DEF Next

\* A call that throws once the data is there judges a capability whose message has
\* not reached onHeartbeat, and it changes nothing that it judged by.
LEMMA NextKeepsCrash ==
  TypeOK /\ HeartbeatIsComing /\ CrashesOnlyBetweenReaders /\ [Next]_vars
    => CrashesOnlyBetweenReaders'
<1> SUFFICES ASSUME TypeOK, HeartbeatIsComing, CrashesOnlyBetweenReaders, [Next]_vars
             PROVE  CrashesOnlyBetweenReaders'
  OBVIOUS
<1>1. CASE Crash /\ JudgeThrows
  <2>1. IsDataReady => ~heartbeat.received /\ queue.heartbeat
    BY <1>1 DEF JudgeThrows, IsDataReady, HeartbeatIsComing
  <2> QED
    BY <1>1, <2>1 DEF Crash, CrashesOnlyBetweenReaders, IsDataReady, inputs
<1>2. CASE UNCHANGED vars
  BY <1>2 DEF vars, inputs, IsDataReady, CrashesOnlyBetweenReaders
<1>3. CASE ~crashed /\ crashed' = crashed
  BY <1>3 DEF CrashesOnlyBetweenReaders
<1>4. ASSUME Next PROVE (Crash /\ JudgeThrows) \/ (~crashed /\ crashed' = crashed)
  BY <1>4, TimerReports, CollectingLeavesTheRest
     DEF Next, Collects, OnClearEmergencyService, Report, Tick
<1> QED
  BY <1>1, <1>2, <1>3, <1>4

\* A timer call that finds the heartbeat overdue reports an emergency: it judges
\* the silence itself, or an emergency is already held.
LEMMA TimerSeesSilence ==
  ASSUME TypeOK, ReportMatchesVerdict, HeartbeatOverdue, OnTimer
  PROVE  published' = "MRM_OPERATING"
<1>1. IsDataReady /\ ~JudgeThrows /\ JudgeHazardStatus
  BY DEF HeartbeatOverdue, JudgeThrows, JudgeHazardStatus
<1>2. ~JudgesOnTimer => hazard
  BY DEF JudgesOnTimer, ReportMatchesVerdict
<1> QED
  BY <1>1, <1>2 DEF OnTimer, Report

LEMMA NextKeepsSilence ==
  TypeOK /\ ReportMatchesVerdict /\ SilenceIsSeen /\ [Next]_vars => SilenceIsSeen'
<1> SUFFICES ASSUME TypeOK, ReportMatchesVerdict, SilenceIsSeen, [Next]_vars
             PROVE  SilenceIsSeen'
  OBVIOUS
<1>1. CASE UNCHANGED vars
  BY <1>1 DEF SilenceIsSeen, vars, clocks, outputs
<1> SUFFICES ASSUME Next, silence' > sinceTimer' PROVE published' = "MRM_OPERATING" \/ crashed'
  BY <1>1 DEF SilenceIsSeen
<1>2. sinceTimer \in 0..TimerPeriod /\ silence \in 0..SilenceCap
  BY DEF TypeOK
<1>3. sinceTimer' \in 0..TimerPeriod /\ silence' \in 0..SilenceCap
  BY NextType DEF TypeOK
<1>4. /\ HeartbeatOverdue
      /\ silence' = IF sinceTimer' > sinceTimer THEN Older(silence, SilenceCap) ELSE silence
  BY <1>3 DEF Next, TrackSilence
<1>5. CASE OnTimer
  BY <1>4, <1>5, TimerSeesSilence
<1>6. CASE Tick
  <2>1. sinceTimer' = sinceTimer + 1 /\ UNCHANGED <<published, crashed>>
    BY <1>6 DEF Tick, outputs
  <2>2. silence' <= silence + 1
    BY <1>2, <1>4, <2>1, Caps, OlderInRange
  <2>3. silence > sinceTimer
    BY <1>2, <1>3, <2>1, <2>2
  <2> QED BY <2>1, <2>3 DEF SilenceIsSeen
<1>7. CASE UNCHANGED <<sinceTimer, published>> /\ (crashed => crashed')
  <2>1. silence' = silence
    BY <1>2, <1>4, <1>7
  <2> QED BY <1>7, <2>1 DEF SilenceIsSeen
<1>8. ASSUME Collects \/ OnClearEmergencyService
      PROVE  UNCHANGED <<sinceTimer, published>> /\ (crashed => crashed')
  BY <1>8, CollectingLeavesTheRest DEF OnClearEmergencyService, Crash, clocks, outputs
<1> QED
  BY <1>5, <1>6, <1>7, <1>8 DEF Next, Collects

LEMMA NextKeepsMissing ==
  TypeOK /\ MissingDataIsSeen /\ [Next]_vars => MissingDataIsSeen'
<1> SUFFICES ASSUME TypeOK, MissingDataIsSeen, [Next]_vars,
                    sinceInit' > DataReadyTimeout + sinceTimer', ~IsDataReady'
             PROVE  published' = "MRM_OPERATING" \/ crashed'
  BY DEF MissingDataIsSeen
<1>1. ~IsDataReady
  BY DataStaysReady
<1>2. sinceTimer \in 0..TimerPeriod /\ sinceInit \in 0..DataReadyCap
  BY DEF TypeOK
<1>3. CASE OnTimer
  <2>1. sinceTimer' = 0 /\ sinceInit' = sinceInit
    BY <1>1, <1>3 DEF OnTimer, Report
  <2>2. sinceInit > DataReadyTimeout
    BY <2>1
  <2> QED BY <1>1, <1>3, <2>2 DEF OnTimer, Report
<1>4. CASE Tick
  <2>1. /\ sinceTimer' = sinceTimer + 1 /\ sinceInit' = Older(sinceInit, DataReadyCap)
        /\ UNCHANGED <<published, crashed>>
    BY <1>4 DEF Tick, outputs
  <2>2. sinceInit' <= sinceInit + 1 /\ sinceInit' \in Nat
    BY <1>2, <2>1, Caps, OlderInRange
  <2>3. sinceInit > DataReadyTimeout + sinceTimer
    BY <1>2, <2>1, <2>2
  <2> QED BY <1>1, <2>1, <2>3 DEF MissingDataIsSeen
<1>5. CASE UNCHANGED <<sinceInit, sinceTimer, published>> /\ (crashed => crashed')
  BY <1>1, <1>5 DEF MissingDataIsSeen
<1>6. ASSUME Collects \/ OnClearEmergencyService \/ UNCHANGED vars
      PROVE  UNCHANGED <<sinceInit, sinceTimer, published>> /\ (crashed => crashed')
  BY <1>6, CollectingLeavesTheRest DEF OnClearEmergencyService, Crash, clocks, outputs, vars
<1> QED
  BY <1>3, <1>4, <1>5, <1>6 DEF Next, Collects

-----------------------------------------------------------------------------
(* The theorems.                                                           *)

LEMMA InitInductive == Init => InductiveInv
<1> SUFFICES ASSUME Init PROVE InductiveInv
  OBVIOUS
<1>1. TypeOK
  BY InitType
<1>2. /\ SilenceIsSeen /\ MissingDataIsSeen /\ ReportMatchesVerdict
      /\ HeartbeatIsComing /\ CrashesOnlyBetweenReaders
  BY DEF Init, SilenceIsSeen, MissingDataIsSeen, ReportMatchesVerdict, HeartbeatIsComing,
         CrashesOnlyBetweenReaders
<1> QED
  BY <1>1, <1>2 DEF InductiveInv

\* The inductive invariant, of which the safety properties are consequences.
THEOREM InvariantCorrect == Spec => []InductiveInv
<1>1. InductiveInv /\ [Next]_vars => InductiveInv'
  BY NextType, NextKeepsSilence, NextKeepsMissing, NextKeepsMatch, NextKeepsComing,
     NextKeepsCrash
     DEF InductiveInv
<1> QED
  BY InitInductive, <1>1, PTL DEF Spec

\* The watchdog reports every silence that is longer than its timeout and one
\* timer period, for any timeout and any period.
THEOREM WatchdogCorrect == Spec => []WatchdogReports
<1>1. InductiveInv => WatchdogReports
  BY DEF InductiveInv, SilenceIsSeen, WatchdogReports, TypeOK
<1> QED
  BY InvariantCorrect, <1>1, PTL

\* Data that has not appeared in time is reported, and goes on being reported.
THEOREM MissingDataCorrect == Spec => []MissingDataIsReported
<1>1. InductiveInv => MissingDataIsReported
  BY DEF InductiveInv, MissingDataIsSeen, MissingDataIsReported, TypeOK
<1> QED
  BY InvariantCorrect, <1>1, PTL

\* Once all inputs have arrived the node can be ended by an exception only while
\* the message it took the capability from still waits to be taken as a heartbeat:
\* whatever the order of the two readers, no heartbeat goes missing.
THEOREM CrashCorrect == Spec => []CrashesOnlyBetweenReaders
<1>1. InductiveInv => CrashesOnlyBetweenReaders
  BY DEF InductiveInv
<1> QED
  BY InvariantCorrect, <1>1, PTL

\* NORMAL is never the last word while an emergency is held.
THEOREM MatchCorrect == Spec => []ReportMatchesVerdict
<1>1. InductiveInv => ReportMatchesVerdict
  BY DEF InductiveInv
<1> QED
  BY InvariantCorrect, <1>1, PTL

\* A held emergency is ended by the clear service only, and only when the inputs
\* it would be judged by are good.
THEOREM HoldCorrect == Spec => EmergencyIsHeld
<1>1. InductiveInv /\ [Next]_vars => [HoldStep]_vars
  <2> SUFFICES ASSUME InductiveInv, Next, use_emergency_hold, is_emergency, ~is_emergency'
               PROVE  IsDataReady /\ ~JudgeHazardStatus /\ sinceTimer' = sinceTimer
                      /\ UNCHANGED outputs
    BY DEF HoldStep
  <2>1. hazard
    BY DEF InductiveInv, ReportMatchesVerdict
  <2>2. CASE OnTimer
    BY <2>1, <2>2 DEF OnTimer, JudgesOnTimer, Report, Crash, verdict
  <2>3. CASE OnClearEmergencyService
    BY <2>3 DEF OnClearEmergencyService, Crash, JudgeThrows, clocks, verdict
  <2>4. ASSUME Collects \/ Tick PROVE FALSE
    BY <2>4, CollectingLeavesTheRest DEF Tick, verdict
  <2> QED BY <2>2, <2>3, <2>4 DEF Next, Collects
<1> QED
  BY InvariantCorrect, <1>1, PTL DEF Spec, EmergencyIsHeld
=============================================================================
