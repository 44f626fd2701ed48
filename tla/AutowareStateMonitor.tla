------------------------ MODULE AutowareStateMonitor ------------------------
(***************************************************************************)
(* The autoware_state_monitor node: the state machine that publishes the   *)
(* one state of the whole stack, the callbacks that collect its inputs,    *)
(* the odometry buffer, and the shutdown service that polls the machine    *)
(* from its own callback group.                                            *)
(*                                                                         *)
(* Time is discrete.  The code stores time stamps and only ever compares   *)
(* differences of them with a threshold, so the model keeps the age of     *)
(* each stamp, saturated at the threshold it is compared with.             *)
(***************************************************************************)
EXTENDS Naturals, Sequences

CONSTANTS
  Routes,                 \* identities of HADMapRoute messages (their pointers)
  NoRoute,                \* the null pointer
  WaitInit,               \* wait_time_after_initializing
  WaitPlanning,           \* wait_time_after_planning
  WaitArrived,            \* wait_time_after_arrived_goal
  StoppedTime,            \* stopped_time_threshold: length of the odometry window
  MaxDelay,               \* bound: age of an odometry message when it is handled
  MaxBuffer,              \* bound: messages kept in the odometry buffer
  TimerPeriod,            \* 1 / update_rate
  ShutdownTimeout,        \* the 3.0 s of onShutdownService
  MultiThreaded           \* does the executor serve callback groups in parallel?

ASSUME WaitsAssumption ==
  /\ WaitInit \in Nat /\ WaitPlanning \in Nat /\ WaitArrived \in Nat
  /\ StoppedTime \in Nat /\ MaxDelay \in Nat /\ MaxBuffer \in Nat
  /\ TimerPeriod \in Nat \ {0} /\ ShutdownTimeout \in Nat
ASSUME TimerFasterThanShutdown == TimerPeriod <= ShutdownTimeout
ASSUME RoutesAssumption == NoRoute \notin Routes
ASSUME ExecutorAssumption == MultiThreaded \in BOOLEAN

VARIABLES
  autoware_state,   \* StateMachine::autoware_state_
  waiting,          \* StateMachine::flags_
  elapsed,          \* ages of StateMachine::times_
  executing_route,  \* StateMachine::executing_route_
  input,            \* AutowareStateMonitorNode::state_input_, but for the buffer
  odometry,         \* state_input_.odometry_buffer, oldest message first
  sinceTimer,       \* age of the last onTimer call
  shutdown,         \* the shutdown service: its phase and the age of t_start
  context_ok,       \* rclcpp::ok()
  sinceEntry,       \* history: age of the last change of autoware_state
  sinceMotion       \* history: age of the newest stamp of a moving odometry message

machine == <<autoware_state, waiting, elapsed, executing_route>>
node    == <<input, odometry, sinceTimer, shutdown, context_ok>>
history == <<sinceEntry, sinceMotion>>
vars    == <<machine, node, history>>

States == {"INITIALIZING", "WAITING_FOR_ROUTE", "PLANNING", "WAITING_FOR_ENGAGE",
           "DRIVING", "ARRIVED_GOAL", "FINALIZING"}
Engages == {"none", "disengage", "engage"}
Reports == {"none", "manual", "autonomous"}
Poses   == {"none", "near_goal", "far"}
Answers == {"success", "timeout", "failure"}

\* Ages beyond these bounds are told apart by no test.
OdometryAgeCap == StoppedTime + MaxDelay + 1
SinceEntryCap  == WaitPlanning + WaitArrived
Older(age, cap) == IF age < cap THEN age + 1 ELSE cap

OdometryMsg == [age : 0..OdometryAgeCap, moving : BOOLEAN]

TypeOK ==
  /\ autoware_state \in States
  /\ waiting \in [after_initializing : BOOLEAN, after_planning : BOOLEAN]
  /\ elapsed \in [initializing : 0..WaitInit, planning : 0..WaitPlanning,
                  arrived : 0..WaitArrived]
  /\ executing_route \in Routes \union {NoRoute}
  /\ input \in [engage : Engages, report : Reports,
                route : Routes \union {NoRoute}, is_finalizing : BOOLEAN]
  /\ odometry \in Seq(OdometryMsg)
  /\ Len(odometry) <= MaxBuffer
  /\ sinceTimer \in 0..TimerPeriod
  /\ shutdown \in [phase : {"idle", "polling"} \union Answers,
                   age : 0..(ShutdownTimeout + 1)]
  /\ context_ok \in BOOLEAN
  /\ sinceEntry \in 0..SinceEntryCap
  /\ sinceMotion \in 0..OdometryAgeCap

\* Mutant: the members of the new machine are left as the memory has them.
UnsetMachine ==
  /\ autoware_state \in States \union {"unset"}
  /\ waiting = [after_initializing |-> FALSE, after_planning |-> FALSE]
  /\ elapsed = [initializing |-> 0, planning |-> 0, arrived |-> 0]
  /\ executing_route = NoRoute

MachineInit ==
  /\ autoware_state = "INITIALIZING"
  /\ waiting = [after_initializing |-> FALSE, after_planning |-> FALSE]
  /\ elapsed = [initializing |-> WaitInit, planning |-> WaitPlanning,
                arrived |-> WaitArrived]
  /\ executing_route = NoRoute

Init ==
  /\ MachineInit
  /\ input = [engage |-> "none", report |-> "none", route |-> NoRoute,
              is_finalizing |-> FALSE]
  /\ odometry = <<>>
  /\ sinceTimer = 0
  /\ shutdown = [phase |-> "idle", age |-> 0]
  /\ context_ok = TRUE
  /\ sinceEntry = 0
  /\ sinceMotion = OdometryAgeCap

-----------------------------------------------------------------------------
(* The predicates of the state machine, over the inputs copied by          *)
(* updateState.  The vehicle and the planner always count as ready.        *)

\* Mutant: only the newest message counts.
IsStoppedNow == odometry = <<>> \/ ~odometry[Len(odometry)].moving

IsStopped == \A i \in 1..Len(odometry) : ~odometry[i].moving
IsRouteReceived == input.route # executing_route
IsAutonomousMode == input.report # "none"
IsEngaged == input.engage = "engage"
IsOverridden == ~IsEngaged \/ ~IsAutonomousMode
\* goal_pose is set with the route and by nothing else
HasArrivedGoal(pose) == input.route # NoRoute /\ pose = "near_goal" /\ IsStopped

Goto(s) ==
  /\ autoware_state' = s
  /\ sinceEntry' = IF s = autoware_state THEN sinceEntry ELSE 0

\* Each case of judgeAutowareState's switch.

JudgeInitializing ==
  /\ autoware_state = "INITIALIZING"
  /\ \/ /\ ~waiting.after_initializing
        /\ waiting' = [waiting EXCEPT !.after_initializing = TRUE]
        /\ elapsed' = [elapsed EXCEPT !.initializing = 0]
        /\ Goto("INITIALIZING")
     \/ /\ waiting.after_initializing /\ elapsed.initializing >= WaitInit
        /\ waiting' = [waiting EXCEPT !.after_initializing = FALSE]
        /\ Goto("WAITING_FOR_ROUTE")
        /\ UNCHANGED elapsed
     \/ /\ waiting.after_initializing /\ elapsed.initializing < WaitInit
        /\ Goto("INITIALIZING")
        /\ UNCHANGED <<waiting, elapsed>>
  /\ UNCHANGED executing_route

JudgeWaitingForRoute ==
  /\ autoware_state = "WAITING_FOR_ROUTE"
  /\ Goto(IF IsRouteReceived THEN "PLANNING" ELSE autoware_state)
  /\ UNCHANGED <<waiting, elapsed, executing_route>>

JudgePlanning ==
  /\ autoware_state = "PLANNING"
  /\ executing_route' = input.route
  /\ \/ /\ ~waiting.after_planning
        /\ waiting' = [waiting EXCEPT !.after_planning = TRUE]
        /\ elapsed' = [elapsed EXCEPT !.planning = 0]
        /\ Goto("PLANNING")
     \/ /\ waiting.after_planning /\ elapsed.planning >= WaitPlanning
        /\ waiting' = [waiting EXCEPT !.after_planning = FALSE]
        /\ Goto("WAITING_FOR_ENGAGE")
        /\ UNCHANGED elapsed
     \/ /\ waiting.after_planning /\ elapsed.planning < WaitPlanning
        /\ Goto("PLANNING")
        /\ UNCHANGED <<waiting, elapsed>>

\* Mutant: the time of arrival is not taken.
ArriveGoalUntimed == Goto("ARRIVED_GOAL") /\ UNCHANGED elapsed

ArriveGoal ==
  /\ elapsed' = [elapsed EXCEPT !.arrived = 0]
  /\ Goto("ARRIVED_GOAL")

JudgeWaitingForEngage(pose) ==
  /\ autoware_state = "WAITING_FOR_ENGAGE"
  /\ CASE IsRouteReceived -> Goto("PLANNING") /\ UNCHANGED elapsed
       [] ~IsRouteReceived /\ IsEngaged /\ IsAutonomousMode ->
            Goto("DRIVING") /\ UNCHANGED elapsed
       [] ~IsRouteReceived /\ IsOverridden /\ HasArrivedGoal(pose) -> ArriveGoal
       [] OTHER -> Goto("WAITING_FOR_ENGAGE") /\ UNCHANGED elapsed
  /\ UNCHANGED <<waiting, executing_route>>

\* Mutant: arrival is judged before the route.
JudgeDrivingGoalFirst(pose) ==
  /\ autoware_state = "DRIVING"
  /\ IF HasArrivedGoal(pose)
     THEN ArriveGoal
     ELSE /\ Goto(IF IsRouteReceived THEN "PLANNING" ELSE "DRIVING")
          /\ UNCHANGED elapsed
  /\ UNCHANGED <<waiting, executing_route>>

\* Mutant: a new route is not looked for while driving.
JudgeDrivingOneRoute(pose) ==
  /\ autoware_state = "DRIVING"
  /\ CASE IsOverridden -> Goto("WAITING_FOR_ENGAGE") /\ UNCHANGED elapsed
       [] ~IsOverridden /\ HasArrivedGoal(pose) -> ArriveGoal
       [] OTHER -> Goto("DRIVING") /\ UNCHANGED elapsed
  /\ UNCHANGED <<waiting, executing_route>>

JudgeDriving(pose) ==
  /\ autoware_state = "DRIVING"
  /\ CASE IsRouteReceived -> Goto("PLANNING") /\ UNCHANGED elapsed
       [] ~IsRouteReceived /\ IsOverridden ->
            Goto("WAITING_FOR_ENGAGE") /\ UNCHANGED elapsed
       [] ~IsRouteReceived /\ ~IsOverridden /\ HasArrivedGoal(pose) -> ArriveGoal
       [] OTHER -> Goto("DRIVING") /\ UNCHANGED elapsed
  /\ UNCHANGED <<waiting, executing_route>>

\* Mutant: a new route is planned at once.
JudgeArrivedGoalReplans ==
  /\ autoware_state = "ARRIVED_GOAL"
  /\ Goto(IF IsRouteReceived THEN "PLANNING" ELSE autoware_state)
  /\ UNCHANGED <<waiting, elapsed, executing_route>>

JudgeArrivedGoal ==
  /\ autoware_state = "ARRIVED_GOAL"
  /\ Goto(IF elapsed.arrived >= WaitArrived THEN "WAITING_FOR_ROUTE"
                                            ELSE autoware_state)
  /\ UNCHANGED <<waiting, elapsed, executing_route>>

JudgeFinalizing ==
  /\ input.is_finalizing \/ autoware_state = "FINALIZING"
  /\ Goto("FINALIZING")
  /\ UNCHANGED <<waiting, elapsed, executing_route>>

JudgeAutowareState(pose) ==
  \/ JudgeFinalizing
  \/ /\ ~input.is_finalizing
     /\ \/ JudgeInitializing
        \/ JudgeWaitingForRoute
        \/ JudgePlanning
        \/ JudgeWaitingForEngage(pose)
        \/ JudgeDriving(pose)
        \/ JudgeArrivedGoal

-----------------------------------------------------------------------------
(* The callbacks.  A single-threaded executor runs no callback while the   *)
(* shutdown service sleeps in its polling loop.                            *)

Blocked == ~MultiThreaded /\ shutdown.phase = "polling"
CanRun  == context_ok /\ ~Blocked

OnTimer ==
  /\ CanRun
  /\ \E pose \in Poses : JudgeAutowareState(pose)
  /\ sinceTimer' = 0
  /\ UNCHANGED <<input, odometry, shutdown, context_ok, sinceMotion>>

OnAutowareEngage ==
  /\ CanRun
  /\ \E e \in Engages \ {"none"} : input' = [input EXCEPT !.engage = e]
  /\ UNCHANGED <<machine, odometry, sinceTimer, shutdown, context_ok, history>>

OnVehicleStateReport ==
  /\ CanRun
  /\ \E r \in Reports \ {"none"} : input' = [input EXCEPT !.report = r]
  /\ UNCHANGED <<machine, odometry, sinceTimer, shutdown, context_ok, history>>

\* A new message has an address that no pointer still held points to.
OnRoute ==
  /\ CanRun
  /\ \E r \in Routes \ {input.route, executing_route} :
       input' = [input EXCEPT !.route = r]
  /\ UNCHANGED <<machine, odometry, sinceTimer, shutdown, context_ok, history>>

\* OdometryUpdater::update drops messages from the front until it meets one
\* that lies within the window that ends at the stamp of the new message.
InWindow(m, age) == m.age <= age + StoppedTime
UpdateOdometry(msg) ==
  LET extended == Append(odometry, msg)
      kept     == {i \in 1..Len(extended) : InWindow(extended[i], msg.age)}
  IN  \E front \in kept :
        /\ \A i \in kept : front <= i
        /\ odometry' = SubSeq(extended, front, Len(extended))

OnVehicleOdometry ==
  /\ CanRun
  /\ \E age \in 0..MaxDelay, moving \in BOOLEAN :
       /\ UpdateOdometry([age |-> age, moving |-> moving])
       /\ sinceMotion' = IF moving /\ age < sinceMotion THEN age ELSE sinceMotion
  /\ Len(odometry') <= MaxBuffer
  /\ UNCHANGED <<machine, input, sinceTimer, shutdown, context_ok, sinceEntry>>

-----------------------------------------------------------------------------
(* The shutdown service: a request sets is_finalizing, then the callback   *)
(* polls the machine until it answers.                                     *)

ShutdownRequest ==
  /\ CanRun /\ shutdown.phase # "polling"
  /\ input' = [input EXCEPT !.is_finalizing = TRUE]
  /\ shutdown' = [phase |-> "polling", age |-> 0]
  /\ UNCHANGED <<machine, odometry, sinceTimer, context_ok, history>>

Answer(a) ==
  /\ shutdown' = [phase |-> a, age |-> 0]
  /\ UNCHANGED <<machine, input, odometry, sinceTimer, context_ok, history>>

\* Mutant: the answer does not wait for the machine.
ShutdownAnswersAtOnce == shutdown.phase = "polling" /\ Answer("success")

\* Mutant: the polling loop has no timeout.
ShutdownPollsForever ==
  /\ shutdown.phase = "polling"
  /\ \/ ~context_ok /\ Answer("failure")
     \/ context_ok /\ autoware_state = "FINALIZING" /\ Answer("success")

ShutdownPoll ==
  /\ shutdown.phase = "polling"
  /\ \/ ~context_ok /\ Answer("failure")
     \/ context_ok /\ autoware_state = "FINALIZING" /\ Answer("success")
     \/ /\ context_ok /\ autoware_state # "FINALIZING"
        /\ shutdown.age > ShutdownTimeout /\ Answer("timeout")

ContextShutdown ==
  /\ context_ok
  /\ context_ok' = FALSE
  /\ UNCHANGED <<machine, input, odometry, sinceTimer, shutdown, history>>

\* Time passes unless a callback that could run is due: the timer after its
\* period, the poll that follows the timeout.
Tick ==
  /\ context_ok
  /\ Blocked \/ sinceTimer < TimerPeriod
  /\ ~(shutdown.phase = "polling" /\ shutdown.age > ShutdownTimeout)
  /\ elapsed' = [initializing |-> Older(elapsed.initializing, WaitInit),
                 planning |-> Older(elapsed.planning, WaitPlanning),
                 arrived |-> Older(elapsed.arrived, WaitArrived)]
  /\ odometry' = [i \in 1..Len(odometry) |->
                    [odometry[i] EXCEPT !.age = Older(@, OdometryAgeCap)]]
  /\ sinceTimer' = Older(sinceTimer, TimerPeriod)
  /\ shutdown' = IF shutdown.phase = "polling"
                 THEN [shutdown EXCEPT !.age = Older(@, ShutdownTimeout + 1)]
                 ELSE shutdown
  /\ sinceEntry' = Older(sinceEntry, SinceEntryCap)
  /\ sinceMotion' = Older(sinceMotion, OdometryAgeCap)
  /\ UNCHANGED <<autoware_state, waiting, executing_route, input, context_ok>>

Next ==
  \/ OnTimer
  \/ OnAutowareEngage
  \/ OnVehicleStateReport
  \/ OnRoute
  \/ OnVehicleOdometry
  \/ ShutdownRequest
  \/ ShutdownPoll
  \/ ContextShutdown
  \/ Tick

Spec == Init /\ [][Next]_vars

\* The clock runs and the service thread is scheduled.  The timer is served if it
\* is ready again and again: between two shutdown calls that block it the
\* executor finds it ready each time, and it takes ready timers first.
Fairness == SF_vars(OnTimer) /\ WF_vars(ShutdownPoll) /\ WF_vars(Tick)
FairSpec == Spec /\ Fairness
-----------------------------------------------------------------------------
(* Properties.                                                             *)

\* The state follows the diagram of the design document, and leaves it only
\* for FINALIZING, once the shutdown service has been called.
Promise == INSTANCE AutowareStates
             WITH state <- autoware_state, requested <- input.is_finalizing
FollowsDiagram == Promise!Spec

\* wait_time_after_planning and wait_time_after_arrived_goal are real delays:
\* however messages and timer calls interleave, and however often a state is
\* visited, it is not left along its normal edge before its delay is over.
DwellStep ==
  /\ autoware_state = "PLANNING" /\ autoware_state' = "WAITING_FOR_ENGAGE"
       => sinceEntry >= WaitPlanning
  /\ autoware_state = "ARRIVED_GOAL" /\ autoware_state' = "WAITING_FOR_ROUTE"
       => sinceEntry >= WaitArrived
DelaysAreKept == [][DwellStep]_vars

\* The goal that is reached is the goal of the route that was planned: onRoute
\* replaces route and goal_pose at any moment, yet arrival is never judged
\* against the goal of a route that was not planned.
ArrivalStep ==
  autoware_state # "ARRIVED_GOAL" /\ autoware_state' = "ARRIVED_GOAL"
    => executing_route # NoRoute /\ input.route = executing_route
ArrivesAtPlannedGoal == [][ArrivalStep]_vars

\* ARRIVED_GOAL is entered only if no motion was reported with a stamp of the
\* last stopped_time_threshold, late and reordered odometry included.
RestStep ==
  autoware_state # "ARRIVED_GOAL" /\ autoware_state' = "ARRIVED_GOAL"
    => sinceMotion > StoppedTime
ArrivesAtRest == [][RestStep]_vars

\* The vehicle is handed to the driver, driven, or declared to have arrived only
\* with a route that was planned, whichever way that state was reached.
RouteStates == {"WAITING_FOR_ENGAGE", "DRIVING", "ARRIVED_GOAL"}
PlannedRouteExists == autoware_state \in RouteStates => executing_route # NoRoute

\* The answer of the shutdown service: "success" only once FINALIZING has been
\* entered, and "timeout" only if the executor is single-threaded, so that the
\* polling loop keeps the timer from running.
ShutdownAnswerIsTrue ==
  /\ shutdown.phase = "success" => autoware_state = "FINALIZING"
  /\ shutdown.phase = "timeout" => ~MultiThreaded

\* A route that was received is planned in the end, whatever the machine was
\* doing when it came, unless the node goes down.
RouteIsPlanned ==
  input.route # executing_route
    ~> (input.route = executing_route \/ input.is_finalizing \/ ~context_ok)

\* A shutdown request leads to FINALIZING and to an answer, even if the
\* service blocks the timer until it times out.
ShutdownCompletes ==
  /\ input.is_finalizing ~> (autoware_state = "FINALIZING" \/ ~context_ok)
  /\ shutdown.phase = "polling" ~> shutdown.phase # "polling"

-----------------------------------------------------------------------------
(* Why the safety properties hold: the inductive invariant of the proofs.  *)

\* A route once received is never forgotten, and no state from PLANNING on is
\* reached without one.
RoutesAreKept ==
  /\ executing_route # NoRoute => input.route # NoRoute
  /\ autoware_state = "PLANNING" => input.route # NoRoute
  /\ PlannedRouteExists

\* A delay that is running was started in the present visit of its state.
DelaysBeginInState ==
  /\ waiting.after_planning => autoware_state \in {"PLANNING", "FINALIZING"}
  /\ autoware_state = "PLANNING" /\ waiting.after_planning
       => elapsed.planning <= sinceEntry
  /\ autoware_state = "ARRIVED_GOAL" => elapsed.arrived <= sinceEntry

\* While the service polls on a parallel executor, no timer call has been made
\* since the request, or FINALIZING has been entered.
TimerOutrunsPolling ==
  /\ shutdown.phase = "polling" => input.is_finalizing
  /\ shutdown.phase = "polling" /\ MultiThreaded /\ autoware_state # "FINALIZING"
       => shutdown.age <= sinceTimer
  /\ ShutdownAnswerIsTrue

\* The newest report of motion stays in the buffer until it is out of the window.
MotionIsRemembered ==
  sinceMotion <= StoppedTime
    => \E i \in 1..Len(odometry) : odometry[i].moving /\ odometry[i].age = sinceMotion

InductiveInv ==
  TypeOK /\ RoutesAreKept /\ DelaysBeginInState /\ TimerOutrunsPolling /\ MotionIsRemembered

-----------------------------------------------------------------------------
(* Why RouteIsPlanned holds: what every step leaves of the way to PLANNING *)
(* while a route waits to be planned.                                      *)

Outstanding == IsRouteReceived /\ ~input.is_finalizing

StatesToGo ==
  CASE autoware_state \in {"INITIALIZING", "ARRIVED_GOAL"} -> 2
    [] autoware_state \in {"WAITING_FOR_ROUTE", "WAITING_FOR_ENGAGE", "DRIVING"} -> 1
    [] OTHER -> 0

\* A delay is waited for in two of the states; that of INITIALIZING begins with
\* a timer call.
WaitToGo ==
  CASE autoware_state = "INITIALIZING" ->
         IF waiting.after_initializing THEN WaitInit - elapsed.initializing ELSE WaitInit + 1
    [] autoware_state = "ARRIVED_GOAL" -> WaitArrived - elapsed.arrived
    [] OTHER -> 0
Waits ==
  \/ autoware_state = "INITIALIZING" /\ waiting.after_initializing /\ elapsed.initializing < WaitInit
  \/ autoware_state = "ARRIVED_GOAL" /\ elapsed.arrived < WaitArrived

\* No step leads away from PLANNING; while a delay runs every tick leads closer,
\* otherwise every timer call does.
ComesCloser ==
  \/ StatesToGo' < StatesToGo
  \/ StatesToGo' = StatesToGo /\ WaitToGo' < WaitToGo
RouteStep ==
  Outstanding /\ Outstanding' =>
    /\ ComesCloser \/ (StatesToGo' = StatesToGo /\ WaitToGo' = WaitToGo)
    /\ Tick /\ Waits => ComesCloser
    /\ OnTimer /\ ~Waits => ComesCloser
RouteComesCloser == [][RouteStep]_vars
=============================================================================
