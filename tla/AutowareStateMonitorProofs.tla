---------------------- MODULE AutowareStateMonitorProofs ----------------------
(***************************************************************************)
(* Theorems about the state monitor for any set of routes, any delays and  *)
(* either executor.  TLC checks the same formulas on a small instance.     *)
(***************************************************************************)
EXTENDS AutowareStateMonitor, SequenceTheorems, TLAPS

-----------------------------------------------------------------------------
(* Type correctness.                                                       *)

USE WaitsAssumption

\* Ages stay between zero and their cap and never go down as time passes.
LEMMA OlderInRange ==
  ASSUME NEW cap \in Nat, NEW age \in 0..cap
  PROVE  Older(age, cap) \in 0..cap /\ age <= Older(age, cap)
BY DEF Older

\* Changing the state keeps it a state and its age an age.
LEMMA GotoType ==
  ASSUME TypeOK
  PROVE  \A s \in States :
           Goto(s) => autoware_state' \in States /\ sinceEntry' \in 0..SinceEntryCap
BY DEF TypeOK, Goto, SinceEntryCap

\* A call of judgeAutowareState keeps the machine well typed.
LEMMA JudgeType ==
  ASSUME TypeOK, NEW pose \in Poses, JudgeAutowareState(pose)
  PROVE  /\ autoware_state' \in States
         /\ waiting' \in [after_initializing : BOOLEAN, after_planning : BOOLEAN]
         /\ elapsed' \in [initializing : 0..WaitInit, planning : 0..WaitPlanning,
                          arrived : 0..WaitArrived]
         /\ executing_route' \in Routes \union {NoRoute}
         /\ sinceEntry' \in 0..SinceEntryCap
<1>1. PICK s \in States : Goto(s)
  <2> USE DEF States
  <2>1. CASE JudgeFinalizing BY <2>1 DEF JudgeFinalizing
  <2>2. CASE JudgeInitializing BY <2>2 DEF JudgeInitializing
  <2>3. CASE JudgeWaitingForRoute BY <2>3 DEF JudgeWaitingForRoute
  <2>4. CASE JudgePlanning BY <2>4 DEF JudgePlanning
  <2>5. CASE JudgeWaitingForEngage(pose) BY <2>5 DEF JudgeWaitingForEngage, ArriveGoal
  <2>6. CASE JudgeDriving(pose) BY <2>6 DEF JudgeDriving, ArriveGoal
  <2>7. CASE JudgeArrivedGoal BY <2>7 DEF JudgeArrivedGoal
  <2> QED BY <2>1, <2>2, <2>3, <2>4, <2>5, <2>6, <2>7 DEF JudgeAutowareState
<1>2. \/ waiting' = waiting
      \/ \E b \in BOOLEAN : \/ waiting' = [waiting EXCEPT !.after_initializing = b]
                            \/ waiting' = [waiting EXCEPT !.after_planning = b]
  BY DEF JudgeAutowareState, JudgeFinalizing, JudgeInitializing, JudgeWaitingForRoute,
         JudgePlanning, JudgeWaitingForEngage, JudgeDriving, JudgeArrivedGoal
<1>3. \/ elapsed' = elapsed
      \/ elapsed' = [elapsed EXCEPT !.initializing = 0]
      \/ elapsed' = [elapsed EXCEPT !.planning = 0]
      \/ elapsed' = [elapsed EXCEPT !.arrived = 0]
  BY DEF JudgeAutowareState, JudgeFinalizing, JudgeInitializing, JudgeWaitingForRoute,
         JudgePlanning, JudgeWaitingForEngage, JudgeDriving, JudgeArrivedGoal, ArriveGoal
<1>4. executing_route' \in {executing_route, input.route}
  BY DEF JudgeAutowareState, JudgeFinalizing, JudgeInitializing, JudgeWaitingForRoute,
         JudgePlanning, JudgeWaitingForEngage, JudgeDriving, JudgeArrivedGoal
<1>5. autoware_state' \in States /\ sinceEntry' \in 0..SinceEntryCap
  BY <1>1, GotoType
<1>6. waiting' \in [after_initializing : BOOLEAN, after_planning : BOOLEAN]
  BY <1>2 DEF TypeOK
<1>7. elapsed' \in [initializing : 0..WaitInit, planning : 0..WaitPlanning,
                   arrived : 0..WaitArrived]
  <2>1. 0 \in 0..WaitInit /\ 0 \in 0..WaitPlanning /\ 0 \in 0..WaitArrived
    OBVIOUS
  <2>2. elapsed \in [initializing : 0..WaitInit, planning : 0..WaitPlanning,
                    arrived : 0..WaitArrived]
    BY DEF TypeOK
  <2> QED BY <1>3, <2>1, <2>2
<1>8. executing_route' \in Routes \union {NoRoute}
  BY <1>4 DEF TypeOK
<1> QED
  BY <1>5, <1>6, <1>7, <1>8

\* What OdometryUpdater::update leaves in the buffer: a tail of the old buffer
\* and the new message, where only messages before the window were dropped.
LEMMA BufferAfterUpdate ==
  ASSUME odometry \in Seq(OdometryMsg), NEW msg \in OdometryMsg, UpdateOdometry(msg)
  PROVE  /\ odometry' \in Seq(OdometryMsg)
         /\ \E front \in 1..(Len(odometry) + 1) :
              /\ Len(odometry') = Len(odometry) + 2 - front
              /\ odometry'[Len(odometry')] = msg
              /\ \A i \in 1..Len(odometry) :
                   IF i < front THEN ~InWindow(odometry[i], msg.age)
                                ELSE odometry'[i + 1 - front] = odometry[i]
<1> DEFINE extended == Append(odometry, msg)
           kept == {i \in 1..Len(extended) : InWindow(extended[i], msg.age)}
<1>1. PICK front \in kept :
        /\ \A i \in kept : front <= i
        /\ odometry' = SubSeq(extended, front, Len(extended))
  BY DEF UpdateOdometry
<1>2. /\ extended \in Seq(OdometryMsg)
      /\ Len(extended) = Len(odometry) + 1
      /\ extended[Len(extended)] = msg
      /\ \A i \in 1..Len(odometry) : extended[i] = odometry[i]
  BY AppendProperties
<1>3. Len(odometry) \in Nat /\ front \in 1..Len(extended)
  BY <1>1, LenProperties
<1> HIDE DEF extended
<1>4. \A i \in front..Len(extended) : extended[i] \in OdometryMsg
  BY <1>2, <1>3, ElementOfSeq
<1>5. /\ odometry' \in Seq(OdometryMsg)
      /\ Len(odometry') = Len(extended) - front + 1
      /\ \A i \in 1..(Len(extended) - front + 1) : odometry'[i] = extended[front + i - 1]
  BY <1>1, <1>2, <1>3, <1>4, SubSeqProperties
<1>6. \A i \in 1..Len(odometry) : i < front => ~InWindow(odometry[i], msg.age)
  BY <1>1, <1>2, <1>3
<1>7. \A i \in 1..Len(odometry) : i >= front => odometry'[i + 1 - front] = odometry[i]
  <2> SUFFICES ASSUME NEW i \in 1..Len(odometry), i >= front
               PROVE  odometry'[i + 1 - front] = odometry[i]
    OBVIOUS
  <2>1. i + 1 - front \in 1..(Len(extended) - front + 1)
    BY <1>2, <1>3
  <2>2. front + (i + 1 - front) - 1 = i
    BY <1>3
  <2> QED BY <1>2, <1>5, <2>1, <2>2
<1>8. odometry'[Len(odometry')] = msg
  <2>1. Len(odometry') \in 1..(Len(extended) - front + 1)
    BY <1>2, <1>3, <1>5
  <2>2. front + Len(odometry') - 1 = Len(extended)
    BY <1>2, <1>3, <1>5
  <2> QED BY <1>2, <1>5, <2>1, <2>2
<1>9. front \in 1..(Len(odometry) + 1) /\ Len(odometry') = Len(odometry) + 2 - front
  BY <1>2, <1>3, <1>5
<1>10. \A i \in 1..Len(odometry) : i < front \/ i >= front
  BY <1>3
<1> QED
  BY <1>5, <1>6, <1>7, <1>8, <1>9, <1>10
\* As time passes every message of the buffer grows older in its place.
LEMMA OdometryAges ==
  ASSUME TypeOK, Tick
  PROVE  /\ odometry' \in Seq(OdometryMsg)
         /\ Len(odometry') = Len(odometry)
         /\ \A i \in 1..Len(odometry) :
              odometry'[i] = [age |-> Older(odometry[i].age, OdometryAgeCap),
                              moving |-> odometry[i].moving]
<1> DEFINE older(m) == [m EXCEPT !.age = Older(@, OdometryAgeCap)]
<1>1. odometry' = [i \in 1..Len(odometry) |-> older(odometry[i])]
  BY DEF Tick
<1>2. Len(odometry) \in Nat /\ odometry \in Seq(OdometryMsg)
  BY LenProperties DEF TypeOK
<1>3. \A i \in 1..Len(odometry) : odometry[i] \in OdometryMsg
  BY <1>2, ElementOfSeq
<1>4. \A m \in OdometryMsg :
        /\ older(m) \in OdometryMsg
        /\ older(m) = [age |-> Older(m.age, OdometryAgeCap), moving |-> m.moving]
  BY OlderInRange DEF OdometryMsg, OdometryAgeCap
<1> HIDE DEF older
<1>5. odometry' \in Seq(OdometryMsg)
  BY <1>1, <1>2, <1>3, <1>4, IsASeq
<1> QED
  BY <1>1, <1>2, <1>3, <1>4, <1>5

\* Init and every step keep the variables within their types.
LEMMA InitType == Init => TypeOK
<1> SUFFICES ASSUME Init PROVE TypeOK
  OBVIOUS
<1>1. odometry \in Seq(OdometryMsg) /\ Len(odometry) = 0
  BY EmptySeq DEF Init
<1> QED
  BY <1>1 DEF Init, MachineInit, TypeOK, States, Engages, Reports, Answers, OdometryAgeCap, SinceEntryCap

LEMMA NextType == TypeOK /\ [Next]_vars => TypeOK'
<1> SUFFICES ASSUME TypeOK, [Next]_vars PROVE TypeOK'
  OBVIOUS
<1> USE DEF machine, node, history
<1>1. CASE OnTimer
  <2>1. PICK pose \in Poses : JudgeAutowareState(pose)
    BY <1>1 DEF OnTimer
  <2>2. sinceTimer' \in 0..TimerPeriod
    BY <1>1 DEF OnTimer
  <2> QED BY <1>1, <2>1, <2>2, JudgeType DEF OnTimer, TypeOK
<1>2. CASE OnAutowareEngage
  BY <1>2 DEF OnAutowareEngage, TypeOK, Engages
<1>3. CASE OnVehicleStateReport
  BY <1>3 DEF OnVehicleStateReport, TypeOK, Reports
<1>4. CASE OnRoute
  BY <1>4 DEF OnRoute, TypeOK
<1>5. CASE OnVehicleOdometry
  <2>1. PICK age \in 0..MaxDelay, moving \in BOOLEAN :
          /\ UpdateOdometry([age |-> age, moving |-> moving])
          /\ sinceMotion' = IF moving /\ age < sinceMotion THEN age ELSE sinceMotion
    BY <1>5 DEF OnVehicleOdometry
  <2>2. age \in 0..OdometryAgeCap
    BY DEF OdometryAgeCap
  <2>3. [age |-> age, moving |-> moving] \in OdometryMsg
    BY <2>2 DEF OdometryMsg
  <2>4. odometry' \in Seq(OdometryMsg)
    BY <2>1, <2>3, BufferAfterUpdate DEF TypeOK
  <2>5. sinceMotion' \in 0..OdometryAgeCap
    BY <2>1, <2>2 DEF TypeOK
  <2> QED BY <1>5, <2>4, <2>5 DEF OnVehicleOdometry, TypeOK
<1>6. CASE ShutdownRequest
  <2>1. 0 \in 0..(ShutdownTimeout + 1)
    OBVIOUS
  <2>2. shutdown' \in [phase : {"idle", "polling"} \union Answers,
                      age : 0..(ShutdownTimeout + 1)]
    BY <1>6, <2>1 DEF ShutdownRequest
  <2>3. input' \in [engage : Engages, report : Reports,
                   route : Routes \union {NoRoute}, is_finalizing : BOOLEAN]
    BY <1>6 DEF ShutdownRequest, TypeOK
  <2> QED BY <1>6, <2>2, <2>3 DEF ShutdownRequest, TypeOK
<1>7. CASE ShutdownPoll
  <2>1. PICK a \in Answers : Answer(a)
    BY <1>7 DEF ShutdownPoll, Answers
  <2>2. shutdown' \in [phase : {"idle", "polling"} \union Answers,
                      age : 0..(ShutdownTimeout + 1)]
    BY <2>1 DEF Answer
  <2> QED BY <2>1, <2>2 DEF Answer, TypeOK
<1>8. CASE ContextShutdown
  BY <1>8 DEF ContextShutdown, TypeOK
<1>9. CASE Tick
  <2>1. elapsed' \in [initializing : 0..WaitInit, planning : 0..WaitPlanning,
                     arrived : 0..WaitArrived]
    BY <1>9, OlderInRange DEF Tick, TypeOK
  <2>2. odometry' \in Seq(OdometryMsg) /\ Len(odometry') = Len(odometry)
    BY <1>9, OdometryAges
  <2>3. sinceTimer' \in 0..TimerPeriod
    BY <1>9, OlderInRange DEF Tick, TypeOK
  <2>4. shutdown' \in [phase : {"idle", "polling"} \union Answers,
                      age : 0..(ShutdownTimeout + 1)]
    <3>1. shutdown \in [phase : {"idle", "polling"} \union Answers,
                       age : 0..(ShutdownTimeout + 1)]
      BY DEF TypeOK
    <3>2. Older(shutdown.age, ShutdownTimeout + 1) \in 0..(ShutdownTimeout + 1)
      BY <3>1, OlderInRange
    <3> QED BY <1>9, <3>1, <3>2 DEF Tick
  <2>5. sinceEntry' \in 0..SinceEntryCap
    <3>1. SinceEntryCap \in Nat /\ sinceEntry \in 0..SinceEntryCap
      BY DEF TypeOK, SinceEntryCap
    <3> QED BY <1>9, <3>1, OlderInRange DEF Tick
  <2>6. sinceMotion' \in 0..OdometryAgeCap
    <3>1. OdometryAgeCap \in Nat /\ sinceMotion \in 0..OdometryAgeCap
      BY DEF TypeOK, OdometryAgeCap
    <3> QED BY <1>9, <3>1, OlderInRange DEF Tick
  <2> QED BY <1>9, <2>1, <2>2, <2>3, <2>4, <2>5, <2>6 DEF Tick, TypeOK
<1>10. CASE UNCHANGED vars
  BY <1>10 DEF vars, TypeOK
<1> QED
  BY <1>1, <1>2, <1>3, <1>4, <1>5, <1>6, <1>7, <1>8, <1>9, <1>10 DEF Next

\* The variables keep to their types for every value of the constants.
THEOREM TypeCorrect == Spec => []TypeOK
BY InitType, NextType, PTL DEF Spec

-----------------------------------------------------------------------------
(* Routes.                                                                 *)

\* judgeAutowareState takes the executing route from the inputs, and enters a
\* state that needs a route only with one.
LEMMA JudgeKeepsRoutes ==
  ASSUME TypeOK, RoutesAreKept, NEW pose \in Poses, JudgeAutowareState(pose),
         UNCHANGED input
  PROVE  RoutesAreKept'
<1> USE DEF RoutesAreKept, PlannedRouteExists, RouteStates, Goto
<1>1. CASE JudgeFinalizing
  BY <1>1 DEF JudgeFinalizing
<1>2. CASE JudgeInitializing
  BY <1>2 DEF JudgeInitializing
<1>3. CASE JudgeWaitingForRoute
  BY <1>3 DEF JudgeWaitingForRoute, IsRouteReceived
<1>4. CASE JudgePlanning
  BY <1>4 DEF JudgePlanning
<1>5. CASE JudgeWaitingForEngage(pose)
  BY <1>5 DEF JudgeWaitingForEngage, ArriveGoal
<1>6. CASE JudgeDriving(pose)
  BY <1>6 DEF JudgeDriving, ArriveGoal
<1>7. CASE JudgeArrivedGoal
  BY <1>7 DEF JudgeArrivedGoal
<1> QED
  BY <1>1, <1>2, <1>3, <1>4, <1>5, <1>6, <1>7 DEF JudgeAutowareState

LEMMA NextKeepsRoutes == TypeOK /\ RoutesAreKept /\ [Next]_vars => RoutesAreKept'
<1> SUFFICES ASSUME TypeOK, RoutesAreKept, [Next]_vars PROVE RoutesAreKept'
  OBVIOUS
<1>1. CASE OnTimer
  BY <1>1, JudgeKeepsRoutes DEF OnTimer
<1>2. CASE OnRoute
  BY <1>2, RoutesAssumption DEF OnRoute, machine, TypeOK, RoutesAreKept,
     PlannedRouteExists, RouteStates
<1>3. CASE UNCHANGED <<autoware_state, executing_route>> /\ input'.route = input.route
  BY <1>3 DEF RoutesAreKept, PlannedRouteExists, RouteStates
<1>4. ASSUME OnAutowareEngage \/ OnVehicleStateReport \/ ShutdownRequest
      PROVE  UNCHANGED <<autoware_state, executing_route>> /\ input'.route = input.route
  BY <1>4 DEF OnAutowareEngage, OnVehicleStateReport, ShutdownRequest, machine, TypeOK
<1>5. ASSUME OnVehicleOdometry \/ ShutdownPoll \/ ContextShutdown \/ Tick \/ UNCHANGED vars
      PROVE  UNCHANGED <<autoware_state, executing_route>> /\ input'.route = input.route
  BY <1>5 DEF OnVehicleOdometry, ShutdownPoll, Answer, ContextShutdown, Tick, machine,
     vars, node
<1> QED
  BY <1>1, <1>2, <1>3, <1>4, <1>5 DEF Next

-----------------------------------------------------------------------------
(* Delays.                                                                 *)

LEMMA JudgeKeepsDelays ==
  ASSUME TypeOK, DelaysBeginInState, NEW pose \in Poses, JudgeAutowareState(pose)
  PROVE  DelaysBeginInState'
<1> USE DEF DelaysBeginInState, Goto, TypeOK, SinceEntryCap
<1>1. CASE JudgeFinalizing
  BY <1>1 DEF JudgeFinalizing
<1>2. CASE JudgeInitializing
  BY <1>2 DEF JudgeInitializing
<1>3. CASE JudgeWaitingForRoute
  BY <1>3 DEF JudgeWaitingForRoute
<1>4. CASE JudgePlanning
  <2>1. autoware_state = "PLANNING" /\ sinceEntry >= 0
    BY <1>4 DEF JudgePlanning
  <2>2. CASE autoware_state' = "WAITING_FOR_ENGAGE"
    BY <1>4, <2>1, <2>2 DEF JudgePlanning
  <2>3. CASE autoware_state' = "PLANNING"
    <3>1. sinceEntry' = sinceEntry
      BY <1>4, <2>1, <2>3 DEF JudgePlanning
    <3>2. elapsed'.planning <= sinceEntry'
      BY <1>4, <2>1, <2>3, <3>1 DEF JudgePlanning
    <3> QED BY <2>3, <3>2
  <2> QED BY <1>4, <2>2, <2>3 DEF JudgePlanning
<1>5. CASE JudgeWaitingForEngage(pose)
  BY <1>5, SMTT(20) DEF JudgeWaitingForEngage, ArriveGoal
<1>6. CASE JudgeDriving(pose)
  BY <1>6, SMTT(20) DEF JudgeDriving, ArriveGoal
<1>7. CASE JudgeArrivedGoal
  BY <1>7 DEF JudgeArrivedGoal
<1> QED
  BY <1>1, <1>2, <1>3, <1>4, <1>5, <1>6, <1>7 DEF JudgeAutowareState

\* Two ages that grow together keep their order, if their caps are in order.
LEMMA OlderTogether ==
  ASSUME NEW cap1 \in Nat, NEW cap2 \in Nat, cap1 <= cap2,
         NEW age1 \in 0..cap1, NEW age2 \in 0..cap2, age1 <= age2
  PROVE  Older(age1, cap1) <= Older(age2, cap2)
BY DEF Older

LEMMA NextKeepsDelays == TypeOK /\ DelaysBeginInState /\ [Next]_vars => DelaysBeginInState'
<1> SUFFICES ASSUME TypeOK, DelaysBeginInState, [Next]_vars PROVE DelaysBeginInState'
  OBVIOUS
<1>1. CASE OnTimer
  BY <1>1, JudgeKeepsDelays DEF OnTimer
<1>2. CASE Tick
  <2>1. /\ autoware_state' = autoware_state /\ waiting' = waiting
        /\ elapsed'.planning = Older(elapsed.planning, WaitPlanning)
        /\ elapsed'.arrived = Older(elapsed.arrived, WaitArrived)
        /\ sinceEntry' = Older(sinceEntry, SinceEntryCap)
    BY <1>2 DEF Tick
  <2>2. /\ SinceEntryCap \in Nat
        /\ WaitPlanning <= SinceEntryCap /\ WaitArrived <= SinceEntryCap
        /\ elapsed.planning \in 0..WaitPlanning /\ elapsed.arrived \in 0..WaitArrived
        /\ sinceEntry \in 0..SinceEntryCap
    BY DEF TypeOK, SinceEntryCap
  <2>3. elapsed.planning <= sinceEntry => elapsed'.planning <= sinceEntry'
    BY <2>1, <2>2, OlderTogether
  <2>4. elapsed.arrived <= sinceEntry => elapsed'.arrived <= sinceEntry'
    BY <2>1, <2>2, OlderTogether
  <2> QED BY <2>1, <2>3, <2>4 DEF DelaysBeginInState
<1>3. ASSUME \/ OnAutowareEngage \/ OnVehicleStateReport \/ OnRoute \/ OnVehicleOdometry
             \/ ShutdownRequest \/ ShutdownPoll \/ ContextShutdown \/ UNCHANGED vars
      PROVE  UNCHANGED <<machine, sinceEntry>>
  BY <1>3 DEF OnAutowareEngage, OnVehicleStateReport, OnRoute, OnVehicleOdometry,
     ShutdownRequest, ShutdownPoll, Answer, ContextShutdown, vars, history
<1>4. CASE UNCHANGED <<machine, sinceEntry>>
  BY <1>4 DEF machine, DelaysBeginInState
<1> QED
  BY <1>1, <1>2, <1>3, <1>4 DEF Next

-----------------------------------------------------------------------------
(* The shutdown service.                                                   *)

\* With is_finalizing set, or from FINALIZING, a call of judgeAutowareState leads
\* to FINALIZING.
LEMMA JudgeFinalizes ==
  ASSUME NEW pose \in Poses, JudgeAutowareState(pose),
         input.is_finalizing \/ autoware_state = "FINALIZING"
  PROVE  autoware_state' = "FINALIZING"
BY DEF JudgeAutowareState, JudgeFinalizing, JudgeInitializing, JudgeWaitingForRoute,
       JudgePlanning, JudgeWaitingForEngage, JudgeDriving, JudgeArrivedGoal, Goto

LEMMA NextKeepsTimerOutrunning ==
  TypeOK /\ TimerOutrunsPolling /\ [Next]_vars => TimerOutrunsPolling'
<1> SUFFICES ASSUME TypeOK, TimerOutrunsPolling, [Next]_vars PROVE TimerOutrunsPolling'
  OBVIOUS
<1> USE DEF TimerOutrunsPolling, ShutdownAnswerIsTrue
<1>1. CASE OnTimer
  BY <1>1, JudgeFinalizes DEF OnTimer
<1>2. CASE ShutdownRequest
  BY <1>2 DEF ShutdownRequest, machine, TypeOK
<1>3. CASE ShutdownPoll
  BY <1>3, TimerFasterThanShutdown DEF ShutdownPoll, Answer, machine, TypeOK
<1>4. CASE Tick
  <2>1. UNCHANGED <<autoware_state, input>>
    BY <1>4 DEF Tick
  <2>2. CASE shutdown.phase # "polling"
    BY <1>4, <2>1, <2>2 DEF Tick
  <2>3. CASE shutdown.phase = "polling"
    <3>1. shutdown'.phase = "polling"
      BY <1>4, <2>3 DEF Tick, TypeOK
    <3>2. ASSUME MultiThreaded, autoware_state # "FINALIZING"
          PROVE  shutdown'.age <= sinceTimer'
      <4>1. shutdown.age <= sinceTimer /\ sinceTimer < TimerPeriod
        BY <1>4, <2>3, <3>2 DEF Tick, Blocked
      <4>2. sinceTimer' = sinceTimer + 1
        BY <1>4, <4>1 DEF Tick, Older
      <4>3. shutdown'.age = Older(shutdown.age, ShutdownTimeout + 1)
        BY <1>4, <2>3 DEF Tick, TypeOK
      <4>4. shutdown.age \in 0..(ShutdownTimeout + 1) /\ sinceTimer \in Nat
        BY DEF TypeOK
      <4>5. shutdown'.age <= shutdown.age + 1
        BY <4>3, <4>4 DEF Older
      <4>6. shutdown'.age \in Nat
        BY <4>3, <4>4 DEF Older
      <4> QED BY <4>1, <4>2, <4>4, <4>5, <4>6
    <3> QED BY <2>1, <2>3, <3>1, <3>2
  <2> QED BY <2>2, <2>3
<1>5. ASSUME OnAutowareEngage \/ OnVehicleStateReport \/ OnRoute
      PROVE  /\ UNCHANGED <<autoware_state, shutdown, sinceTimer>>
             /\ input'.is_finalizing = input.is_finalizing
  BY <1>5 DEF OnAutowareEngage, OnVehicleStateReport, OnRoute, machine, TypeOK
<1>6. ASSUME OnVehicleOdometry \/ ContextShutdown \/ UNCHANGED vars
      PROVE  /\ UNCHANGED <<autoware_state, shutdown, sinceTimer>>
             /\ input'.is_finalizing = input.is_finalizing
  BY <1>6 DEF OnVehicleOdometry, ContextShutdown, machine, vars, node
<1>7. CASE /\ UNCHANGED <<autoware_state, shutdown, sinceTimer>>
           /\ input'.is_finalizing = input.is_finalizing
  BY <1>7
<1> QED
  BY <1>1, <1>2, <1>3, <1>4, <1>5, <1>6, <1>7 DEF Next

-----------------------------------------------------------------------------
(* The odometry buffer.                                                    *)

\* A new message either is the newest report of motion, or leaves it in the
\* buffer: a message that update drops is older than the window.
LEMMA OdometryKeepsMotion ==
  ASSUME TypeOK, MotionIsRemembered, OnVehicleOdometry
  PROVE  MotionIsRemembered'
<1>1. PICK age \in 0..MaxDelay, moving \in BOOLEAN :
        /\ UpdateOdometry([age |-> age, moving |-> moving])
        /\ sinceMotion' = IF moving /\ age < sinceMotion THEN age ELSE sinceMotion
  BY DEF OnVehicleOdometry
<1> DEFINE msg == [age |-> age, moving |-> moving]
<1>2. msg \in OdometryMsg
  <2>1. age \in 0..OdometryAgeCap
    BY DEF OdometryAgeCap
  <2> QED BY <2>1 DEF OdometryMsg
<1>3. odometry \in Seq(OdometryMsg) /\ Len(odometry) \in Nat
  BY LenProperties DEF TypeOK
<1>4. PICK front \in 1..(Len(odometry) + 1) :
        /\ Len(odometry') = Len(odometry) + 2 - front
        /\ odometry'[Len(odometry')] = msg
        /\ \A i \in 1..Len(odometry) :
             IF i < front THEN ~InWindow(odometry[i], msg.age)
                          ELSE odometry'[i + 1 - front] = odometry[i]
  BY <1>1, <1>2, <1>3, BufferAfterUpdate
<1>5. Len(odometry') \in 1..Len(odometry')
  BY <1>3, <1>4
<1>6. CASE moving /\ age < sinceMotion
  <2>1. odometry'[Len(odometry')].moving /\ odometry'[Len(odometry')].age = sinceMotion'
    BY <1>1, <1>4, <1>6
  <2> QED BY <1>5, <2>1 DEF MotionIsRemembered
<1>7. CASE ~(moving /\ age < sinceMotion)
  <2> SUFFICES ASSUME sinceMotion <= StoppedTime
               PROVE  \E i \in 1..Len(odometry') :
                        odometry'[i].moving /\ odometry'[i].age = sinceMotion
    BY <1>1, <1>7 DEF MotionIsRemembered
  <2>1. PICK i \in 1..Len(odometry) : odometry[i].moving /\ odometry[i].age = sinceMotion
    BY DEF MotionIsRemembered
  <2>2. InWindow(odometry[i], msg.age)
    BY <2>1 DEF InWindow, TypeOK, OdometryAgeCap
  <2>3. ~(i < front)
    BY <1>4, <2>2
  <2>4. odometry'[i + 1 - front] = odometry[i]
    BY <1>4, <2>3
  <2>5. i + 1 - front \in 1..Len(odometry')
    BY <1>3, <1>4, <2>3
  <2> QED BY <2>1, <2>4, <2>5
<1> QED
  BY <1>6, <1>7

\* Time makes the newest report of motion older, in the buffer and in the history.
LEMMA TickKeepsMotion ==
  ASSUME TypeOK, MotionIsRemembered, Tick
  PROVE  MotionIsRemembered'
<1>1. sinceMotion' = Older(sinceMotion, OdometryAgeCap)
  BY DEF Tick
<1>2. OdometryAgeCap \in Nat /\ sinceMotion \in 0..OdometryAgeCap
  BY DEF TypeOK, OdometryAgeCap
<1> SUFFICES ASSUME sinceMotion' <= StoppedTime
             PROVE  \E i \in 1..Len(odometry') :
                      odometry'[i].moving /\ odometry'[i].age = sinceMotion'
  BY DEF MotionIsRemembered
<1>3. sinceMotion <= sinceMotion' /\ sinceMotion' \in 0..OdometryAgeCap
  BY <1>1, <1>2, OlderInRange
<1>4. sinceMotion <= StoppedTime
  BY <1>2, <1>3
<1>5. PICK i \in 1..Len(odometry) : odometry[i].moving /\ odometry[i].age = sinceMotion
  BY <1>4 DEF MotionIsRemembered
<1>6. odometry'[i] = [age |-> Older(odometry[i].age, OdometryAgeCap),
                      moving |-> odometry[i].moving]
  BY OdometryAges
<1>7. odometry'[i].moving /\ odometry'[i].age = sinceMotion'
  BY <1>1, <1>5, <1>6
<1> QED
  BY <1>7, OdometryAges

LEMMA NextKeepsMotion == TypeOK /\ MotionIsRemembered /\ [Next]_vars => MotionIsRemembered'
<1> SUFFICES ASSUME TypeOK, MotionIsRemembered, [Next]_vars PROVE MotionIsRemembered'
  OBVIOUS
<1>1. CASE OnVehicleOdometry
  BY <1>1, OdometryKeepsMotion
<1>2. CASE Tick
  BY <1>2, TickKeepsMotion
<1>3. ASSUME \/ OnTimer \/ OnAutowareEngage \/ OnVehicleStateReport \/ OnRoute
             \/ ShutdownRequest \/ ShutdownPoll \/ ContextShutdown \/ UNCHANGED vars
      PROVE  UNCHANGED <<odometry, sinceMotion>>
  BY <1>3 DEF OnTimer, OnAutowareEngage, OnVehicleStateReport, OnRoute,
     ShutdownRequest, ShutdownPoll, Answer, ContextShutdown, vars, node, history
<1>4. CASE UNCHANGED <<odometry, sinceMotion>>
  BY <1>4 DEF MotionIsRemembered
<1> QED
  BY <1>1, <1>2, <1>3, <1>4 DEF Next

-----------------------------------------------------------------------------
(* The way to PLANNING.                                                    *)

\* FINALIZING is entered only on request.
FinalizingIsRequested == autoware_state = "FINALIZING" => input.is_finalizing

LEMMA NextKeepsFinalizing == TypeOK /\ FinalizingIsRequested /\ [Next]_vars => FinalizingIsRequested'
<1> SUFFICES ASSUME TypeOK, FinalizingIsRequested, [Next]_vars PROVE FinalizingIsRequested'
  OBVIOUS
<1> USE DEF FinalizingIsRequested
<1>1. CASE OnTimer
  BY <1>1 DEF OnTimer, JudgeAutowareState, JudgeFinalizing, JudgeInitializing, JudgeWaitingForRoute,
     JudgePlanning, JudgeWaitingForEngage, JudgeDriving, JudgeArrivedGoal, ArriveGoal, Goto
<1>2. ASSUME OnAutowareEngage \/ OnVehicleStateReport \/ OnRoute \/ ShutdownRequest
      PROVE  FinalizingIsRequested'
  BY <1>2 DEF OnAutowareEngage, OnVehicleStateReport, OnRoute, ShutdownRequest, machine, TypeOK
<1>3. ASSUME OnVehicleOdometry \/ ShutdownPoll \/ ContextShutdown \/ Tick \/ UNCHANGED vars
      PROVE  FinalizingIsRequested'
  BY <1>3 DEF OnVehicleOdometry, ShutdownPoll, Answer, ContextShutdown, Tick, machine, vars, node
<1> QED
  BY <1>1, <1>2, <1>3 DEF Next

\* A timer call that does not plan the route leads closer unless a delay runs.
LEMMA TimerComesCloser ==
  ASSUME TypeOK, FinalizingIsRequested, OnTimer, Outstanding, Outstanding'
  PROVE  IF Waits THEN StatesToGo' = StatesToGo /\ WaitToGo' = WaitToGo ELSE ComesCloser
<1>1. PICK pose \in Poses : JudgeAutowareState(pose)
  BY DEF OnTimer
<1>2. UNCHANGED input /\ IsRouteReceived /\ ~input.is_finalizing /\ autoware_state # "FINALIZING"
  BY DEF OnTimer, Outstanding, FinalizingIsRequested
<1>3. /\ elapsed.initializing \in 0..WaitInit /\ elapsed.arrived \in 0..WaitArrived
      /\ elapsed \in [initializing : 0..WaitInit, planning : 0..WaitPlanning, arrived : 0..WaitArrived]
      /\ waiting \in [after_initializing : BOOLEAN, after_planning : BOOLEAN]
      /\ WaitInit \in Nat /\ WaitArrived \in Nat
  BY WaitsAssumption DEF TypeOK
<1> USE DEF Waits, ComesCloser, StatesToGo, WaitToGo, Goto
<1>4. CASE JudgeInitializing
  BY <1>3, <1>4 DEF JudgeInitializing
<1>5. CASE JudgeWaitingForRoute
  BY <1>2, <1>5 DEF JudgeWaitingForRoute
<1>6. CASE JudgePlanning
  <2>1. ~IsRouteReceived'
    BY <1>2, <1>6 DEF JudgePlanning, IsRouteReceived
  <2> QED BY <2>1 DEF Outstanding
<1>7. CASE JudgeWaitingForEngage(pose)
  BY <1>2, <1>7 DEF JudgeWaitingForEngage
<1>8. CASE JudgeDriving(pose)
  BY <1>2, <1>8 DEF JudgeDriving
<1>9. CASE JudgeArrivedGoal
  BY <1>3, <1>9 DEF JudgeArrivedGoal
<1> QED
  BY <1>1, <1>2, <1>4, <1>5, <1>6, <1>7, <1>8, <1>9 DEF JudgeAutowareState, JudgeFinalizing

\* While a delay runs, a tick brings its end closer.
LEMMA TickComesCloser ==
  ASSUME TypeOK, Tick
  PROVE  IF Waits THEN ComesCloser ELSE StatesToGo' = StatesToGo /\ WaitToGo' = WaitToGo
<1>1. /\ elapsed.initializing \in 0..WaitInit /\ elapsed.arrived \in 0..WaitArrived
      /\ WaitInit \in Nat /\ WaitArrived \in Nat
  BY WaitsAssumption DEF TypeOK
<1>2. /\ UNCHANGED <<autoware_state, waiting>>
      /\ elapsed'.initializing = Older(elapsed.initializing, WaitInit)
      /\ elapsed'.arrived = Older(elapsed.arrived, WaitArrived)
  BY DEF Tick
<1> QED
  BY <1>1, <1>2 DEF Waits, ComesCloser, StatesToGo, WaitToGo, Older

LEMMA RouteComes ==
  ASSUME TypeOK, FinalizingIsRequested, [Next]_vars
  PROVE  RouteStep
<1> SUFFICES ASSUME Outstanding, Outstanding' PROVE RouteStep
  BY DEF RouteStep
<1>1. OnTimer => IF Waits THEN StatesToGo' = StatesToGo /\ WaitToGo' = WaitToGo ELSE ComesCloser
  BY TimerComesCloser
<1>2. Tick => IF Waits THEN ComesCloser ELSE StatesToGo' = StatesToGo /\ WaitToGo' = WaitToGo
  BY TickComesCloser
<1>3. ASSUME ~OnTimer, ~Tick PROVE StatesToGo' = StatesToGo /\ WaitToGo' = WaitToGo
  <2>1. UNCHANGED machine
    BY <1>3 DEF Next, OnAutowareEngage, OnVehicleStateReport, OnRoute, OnVehicleOdometry,
       ShutdownRequest, ShutdownPoll, Answer, ContextShutdown, vars, machine
  <2> QED BY <2>1 DEF machine, StatesToGo, WaitToGo
<1> QED
  BY <1>1, <1>2, <1>3 DEF RouteStep

-----------------------------------------------------------------------------
(* The theorems.                                                           *)

LEMMA InitInductive == Init => InductiveInv
<1> SUFFICES ASSUME Init PROVE InductiveInv
  OBVIOUS
<1>1. TypeOK
  BY InitType
<1>2. RoutesAreKept
  BY DEF Init, MachineInit, RoutesAreKept, PlannedRouteExists, RouteStates
<1>3. DelaysBeginInState
  BY DEF Init, MachineInit, DelaysBeginInState
<1>4. TimerOutrunsPolling
  BY DEF Init, TimerOutrunsPolling, ShutdownAnswerIsTrue
<1>5. MotionIsRemembered
  BY DEF Init, MotionIsRemembered, OdometryAgeCap
<1> QED
  BY <1>1, <1>2, <1>3, <1>4, <1>5 DEF InductiveInv

\* The inductive invariant, of which the safety properties are consequences.
THEOREM InvariantCorrect == Spec => []InductiveInv
<1>1. InductiveInv /\ [Next]_vars => InductiveInv'
  BY NextType, NextKeepsRoutes, NextKeepsDelays, NextKeepsTimerOutrunning, NextKeepsMotion
     DEF InductiveInv
<1> QED
  BY InitInductive, <1>1, PTL DEF Spec

\* The vehicle is never driven, handed over or parked at a goal without a route
\* that was planned.
THEOREM PlannedRouteCorrect == Spec => []PlannedRouteExists
<1>1. InductiveInv => PlannedRouteExists
  BY DEF InductiveInv, RoutesAreKept
<1> QED
  BY InvariantCorrect, <1>1, PTL

\* The shutdown service answers "success" only in FINALIZING, and never
\* "timeout" on a parallel executor whose timer is no slower than the timeout.
THEOREM ShutdownAnswerCorrect == Spec => []ShutdownAnswerIsTrue
<1>1. InductiveInv => ShutdownAnswerIsTrue
  BY DEF InductiveInv, TimerOutrunsPolling
<1> QED
  BY InvariantCorrect, <1>1, PTL

\* A step that changes the state of the machine is a timer call.
LEMMA OnlyTimerMoves ==
  ASSUME Next, autoware_state' # autoware_state
  PROVE  \E pose \in Poses : JudgeAutowareState(pose)
BY DEF Next, OnTimer, OnAutowareEngage, OnVehicleStateReport, OnRoute, OnVehicleOdometry,
       ShutdownRequest, ShutdownPoll, Answer, ContextShutdown, Tick, machine

\* No delay is cut short, whatever its length and however the calls interleave.
THEOREM DelaysCorrect == Spec => DelaysAreKept
<1>1. InductiveInv /\ [Next]_vars => [DwellStep]_vars
  <2> SUFFICES ASSUME InductiveInv, Next, autoware_state' # autoware_state
               PROVE  DwellStep
    BY DEF DwellStep
  <2>1. PICK pose \in Poses : JudgeAutowareState(pose)
    BY OnlyTimerMoves
  <2>2. ASSUME autoware_state = "PLANNING", autoware_state' = "WAITING_FOR_ENGAGE"
        PROVE  sinceEntry >= WaitPlanning
    <3>1. JudgePlanning
      BY <2>1, <2>2 DEF JudgeAutowareState, JudgeFinalizing, JudgeInitializing,
         JudgeWaitingForRoute, JudgeWaitingForEngage, JudgeDriving, JudgeArrivedGoal, Goto
    <3>2. waiting.after_planning /\ elapsed.planning >= WaitPlanning
      BY <2>2, <3>1 DEF JudgePlanning, Goto
    <3> QED BY <2>2, <3>2 DEF InductiveInv, DelaysBeginInState, TypeOK, SinceEntryCap
  <2>3. ASSUME autoware_state = "ARRIVED_GOAL", autoware_state' = "WAITING_FOR_ROUTE"
        PROVE  sinceEntry >= WaitArrived
    <3>1. JudgeArrivedGoal
      BY <2>1, <2>3 DEF JudgeAutowareState, JudgeFinalizing, JudgeInitializing,
         JudgeWaitingForRoute, JudgeWaitingForEngage, JudgeDriving, JudgePlanning, Goto
    <3>2. elapsed.arrived >= WaitArrived
      BY <2>3, <3>1 DEF JudgeArrivedGoal, Goto
    <3> QED BY <2>3, <3>2 DEF InductiveInv, DelaysBeginInState, TypeOK, SinceEntryCap
  <2> QED BY <2>2, <2>3 DEF DwellStep
<1> QED
  BY InvariantCorrect, <1>1, PTL DEF Spec, DelaysAreKept

\* ARRIVED_GOAL is entered through ArriveGoal, with the predicates it is guarded by.
LEMMA ArrivalGuards ==
  ASSUME Next, autoware_state # "ARRIVED_GOAL", autoware_state' = "ARRIVED_GOAL"
  PROVE  ~IsRouteReceived /\ \E pose \in Poses : HasArrivedGoal(pose)
<1>1. PICK pose \in Poses : JudgeAutowareState(pose)
  BY OnlyTimerMoves
<1>2. JudgeWaitingForEngage(pose) \/ JudgeDriving(pose)
  BY <1>1 DEF JudgeAutowareState, JudgeFinalizing, JudgeInitializing, JudgeWaitingForRoute,
     JudgePlanning, JudgeArrivedGoal, Goto
<1> QED
  BY <1>2 DEF JudgeWaitingForEngage, JudgeDriving, Goto

\* The goal that is reached belongs to the route that was planned.
THEOREM ArrivalCorrect == Spec => ArrivesAtPlannedGoal
<1>1. InductiveInv /\ [Next]_vars => [ArrivalStep]_vars
  BY ArrivalGuards DEF ArrivalStep, IsRouteReceived, HasArrivedGoal
<1> QED
  BY InvariantCorrect, <1>1, PTL DEF Spec, ArrivesAtPlannedGoal

\* No motion reported with a stamp of the last stopped_time_threshold is missed,
\* whatever the size of the buffer and the delays of the messages.
THEOREM RestCorrect == Spec => ArrivesAtRest
<1>1. InductiveInv /\ [Next]_vars => [RestStep]_vars
  <2> SUFFICES ASSUME InductiveInv, Next,
                      autoware_state # "ARRIVED_GOAL", autoware_state' = "ARRIVED_GOAL"
               PROVE  sinceMotion > StoppedTime
    BY DEF RestStep
  <2>1. IsStopped
    BY ArrivalGuards DEF HasArrivedGoal
  <2>2. ~(sinceMotion <= StoppedTime)
    BY <2>1 DEF InductiveInv, MotionIsRemembered, IsStopped
  <2> QED BY <2>2 DEF InductiveInv, TypeOK, OdometryAgeCap
<1> QED
  BY InvariantCorrect, <1>1, PTL DEF Spec, ArrivesAtRest

\* The machine implements the diagram of the design document.
THEOREM DiagramCorrect == Spec => FollowsDiagram
<1>1. Init => Promise!Init
  BY DEF Init, MachineInit, Promise!Init
<1>2. TypeOK /\ [Next]_vars => [Promise!Next]_<<autoware_state, input.is_finalizing>>
  <2> SUFFICES ASSUME TypeOK, [Next]_vars
               PROVE  \/ Promise!Next
                      \/ UNCHANGED <<autoware_state, input.is_finalizing>>
    OBVIOUS
  <2> USE DEF Promise!Next
  <2>1. CASE OnTimer
    <3>1. PICK pose \in Poses : JudgeAutowareState(pose)
      BY <2>1 DEF OnTimer
    <3>2. input' = input
      BY <2>1 DEF OnTimer
    <3>3. CASE JudgeFinalizing
      BY <3>2, <3>3 DEF JudgeFinalizing, Goto, Promise!Finalize
    <3>4. ASSUME ~JudgeFinalizing
          PROVE  /\ ~input.is_finalizing
                 /\ \/ autoware_state' = autoware_state
                    \/ <<autoware_state, autoware_state'>> \in Promise!Diagram
      BY <3>1, <3>4 DEF JudgeAutowareState, JudgeInitializing, JudgeWaitingForRoute,
         JudgePlanning, JudgeWaitingForEngage, JudgeDriving, JudgeArrivedGoal, ArriveGoal,
         Goto, Promise!Diagram
    <3> QED BY <3>2, <3>3, <3>4 DEF Promise!Move
  <2>2. CASE ShutdownRequest
    BY <2>2 DEF ShutdownRequest, machine, TypeOK, Promise!RequestShutdown
  <2>3. ASSUME OnAutowareEngage \/ OnVehicleStateReport \/ OnRoute
        PROVE  UNCHANGED <<autoware_state, input.is_finalizing>>
    BY <2>3 DEF OnAutowareEngage, OnVehicleStateReport, OnRoute, machine, TypeOK
  <2>4. ASSUME \/ OnVehicleOdometry \/ ShutdownPoll \/ ContextShutdown \/ Tick
               \/ UNCHANGED vars
        PROVE  UNCHANGED <<autoware_state, input.is_finalizing>>
    BY <2>4 DEF OnVehicleOdometry, ShutdownPoll, Answer, ContextShutdown, Tick, machine,
       vars, node
  <2> QED BY <2>1, <2>2, <2>3, <2>4 DEF Next
<1> QED
  BY <1>1, <1>2, TypeCorrect, PTL DEF Spec, FollowsDiagram, Promise!Spec

\* A route that waits to be planned gets closer to PLANNING with every timer
\* call, or with every tick while a delay runs, and nothing moves it away again:
\* what is left of RouteIsPlanned without fairness.
THEOREM RouteCorrect == Spec => RouteComesCloser
<1>1. Init => FinalizingIsRequested
  BY DEF Init, MachineInit, FinalizingIsRequested
<1>2. TypeOK /\ FinalizingIsRequested /\ [Next]_vars => [RouteStep]_vars
  BY RouteComes
<1> QED
  BY <1>1, <1>2, NextKeepsFinalizing, TypeCorrect, PTL DEF Spec, RouteComesCloser
=============================================================================
