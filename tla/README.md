# Verification of Autoware.Auto

TLA+ models of the parts of Autoware.Auto whose control flow, rather than their arithmetic, makes
them right or wrong: the monitor that publishes the state of the whole stack, the emergency handler,
the behavior planner with the planners and services it talks to, the vehicle interface with its
safety and drive-by-wire state machines, state estimation from late measurements, the trajectory
follower, and the object tracker with its assigner. TLC checks small instances of each; TLAPS proves
their safety properties for every value of the parameters. Source paths below are
relative to the repository.

Contents: [the system](#the-system) · [the modules](#the-modules) · [the runs](#the-runs) ·
[the theorems](#the-theorems) · [what the runs found](#where-the-code-differs-from-what-it-says) ·
[not modelled](#what-is-not-modelled) · [plan](#plan)

## The system

Autoware.Auto is a set of ROS 2 nodes. Each is a process with an executor that runs one callback
at a time (unless it is told otherwise); nodes share nothing and exchange messages by topics,
services and actions. The state of the system is therefore the members of the node classes and the
messages under way, and its steps are callbacks. Most packages are numeric (perception,
localization, geometry, control laws); the control logic sits in a few.

| component | state it keeps | operations | hard behaviour | what makes it correct |
|---|---|---|---|---|
| `system/autoware_state_monitor` | state of the stack, waiting flags and times, executing route, odometry buffer | timer, five subscriptions, shutdown service | a service that polls what the timer changes; inputs replaced between timer calls; late odometry | follows its diagram, keeps its delays, arrives at rest and at the goal it planned, answers shutdown truthfully |
| `system/emergency_handler` | last inputs, heartbeat, hazard status, emergency flag | timer, four subscriptions (two on one topic), clear service | the order of the two readers, a silent input, the hold, the service against the timer | a silence is reported in time, a hold is kept, report and verdict agree, an exception ends the node only in the gap between the two readers |
| `planning/behavior_planner`, `behavior_planner_nodes` | route, subroutes, legs, selection, request flag | vehicle state, gear, route, map, collision estimator, action client callbacks | answers of four other processes between any two callbacks | flag = open exchange, trajectory belongs to the route, what counts as complete is for the subroute it is on, requests end |
| `planning/trajectory_planner_node_base`, `freespace_planner_nodes`, `costmap_generator_nodes` | state, goal handle | goal, answer of the server it asks in turn | several clients; a chain of servers, one of which may never answer | every goal is answered |
| `drivers/vehicle_interface` | slot of a state command, last stamp; safety state machine: odometry, state, requests, reports | control command of one of four kinds, state command, read timer, mode service | platform refuses, commands and reports in any order | no gear shift at speed, overdue changes found, commands not lost, not out of order |
| `drivers/vehicle_interface` (`dbw_state_machine`), `drivers/ssc_interface` | state of the handshake, commands sent, debounce | mode request, commands, report of the vehicle | commands and reports late or lost, a driver who takes over | control is taken once per request, a take-over is noticed |
| `common/state_estimation_nodes` | history of events with filter states, time grid | measurements, prediction timer | late measurements, full history, missed timer calls | the estimate is that of measurements in order, stamps advance |
| `control/trajectory_follower_nodes` | state of the longitudinal controller and what it remembers; the muxer's two commands | two timers, trajectories, two subscriptions of the muxer | memory kept over stops; one half that stays away | driving starts afresh, an emergency stop gets through and is not overridden |
| `fusion/hungarian_assigner` | weights, marks, covers, path | set weights, assign, read assignments | three copies of one matching, changed in different loops | always a complete assignment, of least cost (kept but for stale marks, see below) |
| `perception/tracking`, `tracking_nodes` | tracks with their counters, caches of odometry and images | detections, odometry, regions of interest | messages in any order, matching read both ways | each detection used once, tracks as old as the stamps say |
| `control/controller_common_nodes` | queue of states without trajectory | states, trajectories, transforms | queue limits | order kept (not modelled) |
| `planning/recordreplay_planner_nodes` | recorded buffer, mode | two actions | cancel during either | modes exclude each other (not modelled) |

How they interact: the state estimator turns measurements into the odometry everyone reads; the
tracker hands objects to prediction and to the collision estimator. The behavior planner sends goals
to the planners, hands trajectories to the trajectory follower and gear commands to the vehicle
interface. The state monitor reads routes, odometry, engage messages and vehicle state and publishes
the one state; the emergency handler reads that state and the driving capability and publishes an
emergency state, a control command and a state command. The vehicle interface reads the control and
state commands, passes them to the platform (`ssc_interface` is one) and publishes odometry and
vehicle state, which closes the loop. `PROJECT.json` lists every component with its sources, the
ones left out included, and every hazard with the line where it bites.

## The modules

Every module keeps the names of the code where it can. Time is discrete. The state monitor and the
emergency handler keep *ages* of stamps rather than stamps, saturated at the threshold they are
compared with, so that their state spaces are finite without a bound on time. Variables called
history in a comment are not in the code; properties need them to speak of the past, and no
guard reads them.

### `AutowareStateMonitor` (abstract: `AutowareStates`; TLC: `MCAutowareStateMonitor`)

One action per callback. `OnTimer` is `onTimer` with all of `judgeAutowareState`, one operator for
each case of its switch. `OnVehicleOdometry` keeps the buffer as `OdometryUpdater::update` does,
with the stamps of messages up to `MaxDelay` old in any order. The shutdown service is
`ShutdownRequest` (sets the flag, begins polling) and `ShutdownPoll`; with `MultiThreaded = FALSE`,
as in the node's `main`, no callback runs while it polls (`Blocked`). `AutowareStates` is the
diagram of `design/autoware_state_monitor-design.md` plus the shutdown; `FollowsDiagram` says that
the node implements it. Poses are read from tf in the timer, so `OnTimer` chooses one.

### `EmergencyHandler`

One action per callback. Both readers of `input/driving_capability` have a queue of depth one
(`queue`), filled together and drained in either order: the publisher is taken to have discovered
both, and to lose no message (discovery is not modelled). `OnTimer` has the early returns of the
code in their order: data not ready, emergency held, judged. `Crash` is an exception that leaves a
callback: `isTimeout` subtracts times of two clock types until the first heartbeat has come, and
the clear service judges without asking whether the data is there (in a release build the null
pointer is undefined behaviour there; the model crashes). The fault lists of the hazard status are
left out, its `emergency` flags are kept; velocities are reduced to their sign.

### `BehaviorPlanner` (extends `FreespacePlanner`, `TrajectoryPlanner`; TLC: `MCBehaviorPlanner`)

`TrajectoryPlanner` is the action server the lane planner is built on: goals queue, `HandleGoal`
accepts one at a time, `PlanTrajectory` answers, with a trajectory or without. `FreespacePlanner` is
the chain for parking: the planner judges goals alike (`HandleParkingGoal`), sends a goal of its own
to the costmap generator and answers when that does (`CostmapGoalResponse`, `CostmapResult`); the
generator asks the map service and, when a transform is missing, returns without an answer
(`CostmapMapResponse`). Each server has other clients as well. `BehaviorPlanner` is the node:
`OnEgoState` is the whole callback, with the request it may send, the leg it may select twice
(`get_trajectory` is called by `get_desired_gear` and by the node) and the output it publishes or
sends to the collision estimator. Geometry is reduced to what the checks return for a
vehicle state (`EgoStates`): slow or not, at which goals, few points left, at the end of how many
legs. A trajectory is the sequence of directions of its legs. `m_requesting_trajectory` is not
initialised by the code: `RequestingAtStart` holds the values it may start with.

### `VehicleInterface` (extends `SafetyStateMachine`; TLC: `MCVehicleInterface`)

`SafetyStateMachine` translates the class: `SafeState` is what becomes of a state command
(`sanitize`, headlights, `automatic_gear_shift`, `bad_gear_shift`), `StateReports` what it reports,
`ComputeSafeCommands` and `Update` its two operations with all they change. Velocities are integers
in a unit in which an acceleration is the change of velocity in one `time_step`.
`VehicleInterface` is the node. `kind` is the parameter `control_command`; each handler has its
guard and its order of events: the raw and Ackermann handlers empty the slot last, the basic one
first. The platform may refuse a control or a state command, a read, or a mode change; the last
throws out of the executor (`running`). Low-pass filters, the wheel angle (reduced to whether its
clamping warns) and the `_command` subscriptions of optional features, which pass messages
on without touching any state, are left out, as is the high level handler, which only throws.

### `DbwStateMachine`, `SscInterface` (abstract: `DriverConsent`)

`DbwStateMachine` has the methods of the class as functions from the machine to the machine.
`SscInterface` calls them where `ssc_interface.cpp` does and adds the other side of the topics, a
vehicle modelled from what the interface expects of it: it takes an enabled command only after a
disabled one (`heard`), may need several before it lets itself be driven, is taken over by its driver
at any moment (`TakeOver`), and reports whether it is being driven. Both topics are queues of depth
`Depth` that lose their oldest message when they are full, so that commands and reports are late or
lost. `DriverConsent` is the promise to the driver: a request to drive autonomously is good for taking
control once. `KeepsConsent` says that platform and vehicle together implement it, with `asks` and
`spent` (both history) counting the requests.

### `StateEstimation`

The node with its `History`, its `SteadyTimeGrid` and its wall timer. `EmplaceEvent` is
`emplace_event` with all it does: drop the oldest event if the history is full, insert behind the
events with the same stamp, refuse an event that would become the first, replay what follows. The
filter is free: its state is the sequence of what it was fed, so that two states are equal only if
every filter agrees on them. `FedInOrder` is the reference: a filter that is fed every event ever
accepted in order of time, by the rank of an event (how many were before it, by stamp and then by
arrival) and a recursive function over the ranks. `InOrderReplay` compares the newest stored state with it.

### `TrajectoryFollower` (extends `LongitudinalController`; TLC: `MCTrajectoryFollower`)

`LongitudinalController` has the state machine of `updateControlState`, one line for each transition,
and what the controller remembers: since when the vehicle stands, the direction, and from which drive
the integrated feedback and the stored accelerations are. A call sees a *situation* (far from the
trajectory or not, distance to the stop line, moving or not, the sign of the target velocity), which
the model chooses freely. `TrajectoryFollower` adds the lateral controller (when it sends, not what),
the muxer with its timeout and its two callbacks, the topics of depth one between them, and nodes that
fall behind (`HoldUp`, `CatchUp`). Time passes once every node that keeps up has run.

### `HungarianAssigner`, `MultiObjectTracker` (TLC: `MCHungarianAssigner`, `MCMultiObjectTracker`)

One call of `assign()` is the run of a machine with an action for each iteration of its loops:
`ReduceRows`, then rounds of `PrimeUncoveredZero` and `AddNewZero` until a prime has no star in its
row, `FollowPath` along stars and primes, `FlipPath`. The invariants therefore speak of the
book-keeping between two iterations, where the code has comments such as "should never hit".
`MultiObjectTracker` has the node's callbacks with their caches and the rest of `update()`: predict,
assign, `extract_result` (which reads the matrix either way, depending on which side is longer), update
or miss, create, prune. Which pairs pass the gate, at which distance, and which clusters meet a region
of an image is free. A distance of `MAX_WEIGHT` or more, like a table larger than the capacity, ends the
node (`Crash`). `extract_result` also resets the assigner, which the code does at the beginning
of the next call: nothing reads it in between. Pruning removes one track at a time. Images change
classes of tracks only, which are left out.

## The runs

"Holds" below means TLC finished with no error on the whole reachable state space. Every property
also has a mutant in `PROJECT.json`: a change to a definition that a plausible bug would be, and
that makes TLC refute the property.

| run | question | properties | states |
|---|---|---|---|
| `state_monitor` | every interleaving on a parallel executor, late and reordered odometry | `TypeOK`, `ShutdownAnswerIsTrue`, `FollowsDiagram`, `DelaysAreKept`, `ArrivesAtPlannedGoal`, `ArrivesAtRest` | 670,000 |
| `state_monitor_live` | the single-threaded executor of `main`, with fairness | `RouteIsPlanned`, `ShutdownCompletes` | 118,000 |
| `emergency_hold` | watchdog, data timeout, clear service, with and without `use_emergency_hold`; recovery without it | `WatchdogReports`, `MissingDataIsReported`, `CrashesOnlyBetweenReaders`, `EmergencyIsHeld`, `RecoversWithoutHold` | 916,000 |
| `behavior_planner` | the planner with both planners, the costmap generator, map service, collision estimator and other clients | `RequestIsInHand`, `RequestingTracksExchange`, `TrajectoryBelongsToRoute`, `CompleteIsForSubroute`, `RequestsEnd` | 468,000 |
| `vehicle_interface` | raw, Ackermann and basic nodes with every refusal | `GearShiftsAreSafe`, `OverdueIsReported`, `StateCommandIsNotLost` | 138,000 |
| `ssc` | the handshake with a vehicle, its driver, and late and lost messages | `TypeOK`, `GreetedFirst`, `KeepsConsent`, `TakeOverIsNoticed` | 90,000 |
| `estimation` | late measurements, missed timer calls, histories of every small size | `TypeOK`, `InOrderReplay`, `IsNotAhead`, `StampsAdvance`, `RefusesOnlyTheOldest` | 477,000 |
| `follower` | both controllers and the muxer, with nodes that fall behind | `DriveStartsAfresh`, `EmergencyIsNotDriven`, `Settles`, `StopIsForwarded` | 338,000 |
| `tracker` | every table of up to three detections and tracks, with messages in any order | `TypeOK`, `StarsMatch`, `AssignCompletes`, `EveryRoundAddsAStar`, `AgesAreTrue`, `EveryDetectionIsUsedOnce` | 771,000 |

Three more runs, `assigner_optimal`, `parking_silence` and `behavior_route`, have one property each,
which a document or comment of the repository states and the code does not keep; see
[below](#where-the-code-differs-from-what-it-says).

### Bounds, and why they are enough

* **State monitor.** Three routes, so that one is executed, one received and one arrives next (they
  are symmetric); delays of 1 and 2 steps, so that an age below, at and above each threshold occurs; a
  window of one step with messages up to one step old and two in the buffer, so that a late message
  can displace or hide another.
* **Emergency handler.** A heartbeat timeout and a data timeout shorter than a timer period, so that
  each can fall between two timer calls.
* **Behavior planner.** One route of two subroutes for different planners and one with a segment no
  planner serves; trajectories of three legs that change direction twice, or none; up to two ends of legs
  near the vehicle at once, so that both calls of `get_trajectory` may move on; one goal of some other
  client (`MaxForeign`), one map answer (`MaxMapReplies`) and one trajectory at the estimator
  (`MaxModify`) under way, two goals in a queue (`MaxRequests`). `RequestingAtStart` says that the flag,
  which the code does not initialise, starts FALSE.
* **Vehicle interface.** A timeout of one step and a clock of two (`MaxTime`), the shortest in which a
  change becomes overdue (with a clock of three TLC found the same, in 1.3 million states);
  velocities below, at and beyond the threshold in both directions, and zero; accelerations inside
  and outside the limits; commands that shift, that switch wipers on in the dark, and that name a
  mode which does not exist; a vehicle that follows and one that does not.
* **SSC.** The debounce of the code (3); three requests (`MaxAsks`), so that one may be old, one used
  and one new; topics of depth 3, so that commands of different requests are under way together and
  the oldest can be lost. The code's depth is 10, and the proofs cover it.
* **State estimation.** Two topics, whose stamps advance each but not together; a period of two
  steps, so that stamps fall on the grid and between its points; histories of one, two and three
  events and an unbounded one; a clock of five and five events (`MaxTime`, `MaxEvents`), so that a full
  history drops events and takes late ones.
* **Trajectory follower.** One distance in each range that the thresholds make; a timeout and a stop
  delay of one period, so that ages at and above them occur; lateral controller and muxer may fall
  behind, with and without smooth stop. Without the overshoot emergency the only emergency is that of
  a vehicle far from its trajectory, which the run has as well.
* **Tracker.** Three detections and a capacity of three, so that tables lie on either side, are
  square, and overflow, with rows that have no possible pair; two distances for tables of up to six
  pairs, one for three by three, and one too large in the smallest tables; stamps
  0 to 2 with thresholds of 2; one odometry stamp, one image and one camera. Paths of three stars and
  primes and more, `add_new_zero` with covered rows, and tables that take two rounds occur.
  `assigner_optimal` runs the assigner on three tables, two from its unit tests and one of five rows.

**Deadlock.** `ssc` and `follower` check that there is none. The other runs have `CHECK_DEADLOCK
FALSE`, because what they model may really stop: the monitor stops with its context; the handler, the
interface, the estimator and the tracker after an exception nobody catches; the planner, the clock of
the vehicle interface and that of the estimator when their bounds are used up.

### Fairness

* **State monitor.** The clock runs and the thread of a service that was called is scheduled (weak
  fairness of `Tick` and `ShutdownPoll`); the timer is *strongly* fair, because repeated shutdown calls
  may disable it again and again, but the executor looks at ready timers before services each time it
  gets to choose.
* **Emergency handler.** Weak fairness of the timer and the clock, as long as the node lives.
* **Behavior planner.** A planner or generator that has a goal, an answer or a map handles it, and
  what it answers is delivered (weak fairness of `LaneStep`, `ParkingStep`, `CostmapStep` and of each
  planner's answers); nothing is assumed of the vehicle, the routes or other clients. A generator that
  has fallen silent owes nothing.
* **SSC.** The vehicle reports periodically and the executor serves the subscription. Nothing is
  assumed of the commands, the vehicle's willingness or the driver.
* **Trajectory follower.** Timers fire, executors serve their nodes and time passes; a node that is
  held up owes nothing.

## The theorems

Each proof module is named after its component: `AutowareStateMonitorProofs`,
`EmergencyHandlerProofs`, `VehicleInterfaceProofs`, `StateEstimationProofs`, `SscInterfaceProofs`,
`TrajectoryFollowerProofs`, `BehaviorPlannerProofs`, `MultiObjectTrackerProofs`. The theorems hold for
every value of the constants that satisfies the named assumptions of the modules: delays, timeouts,
thresholds, depths and sizes are any natural numbers, routes, commands and reports any sets, tables of
any size with any weights. The bounds of the model checker are constants as well, so that the proofs
cover each of their values.

A property that speaks of liveness has a safety half: what every single step leaves of the way that is
still to go. Where that is what can go wrong (a step backwards, a wait for somebody who has nothing to
do), it is stated as a property of steps or states and proved; that the steps are taken is what
remains for fairness and TLC.

Each proof has the same shape: `TypeOK` is proved inductive; `InductiveInv` (on which TLC had agreed
first) is proved inductive, with one step for each action; the properties follow, the action
properties with one more look at the actions that change what they speak of.

* **State monitor.** `InductiveInv` adds to the types: a route once received is kept, and `PLANNING`
  is entered only with one; a delay that runs was started in this visit of its state (without it a
  flag left over from an earlier visit would cut the delay short); while the service polls on a
  parallel executor, either the timer has not run since the request or `FINALIZING` has been
  entered, so that the poll cannot outlast a timer whose period is not longer than the timeout
  (`TimerFasterThanShutdown`: 0.1 s against 3 s in the code); and the newest motion within the
  window is still in the buffer, with its stamp. From it: `PlannedRouteCorrect`,
  `ShutdownAnswerCorrect`, `DelaysCorrect`, `ArrivalCorrect`, `RestCorrect`, and the refinement
  `DiagramCorrect`. `RouteCorrect` is the safety half of `RouteIsPlanned`: the states between a route and
  `PLANNING` (`StatesToGo`) and the rest of a running delay (`WaitToGo`), in this order, never grow while
  the route is outstanding, and each timer call, or each tick of a delay, makes them smaller. It rests
  on `FinalizingIsRequested`, without which a route could end in `FINALIZING` unasked.
* **Emergency handler.** The watchdog property speaks of a whole timer period, which is not
  inductive. `SilenceIsSeen` and `MissingDataIsSeen` strengthen it: what has lasted longer than the
  time since the last timer call was seen by that call. `HeartbeatIsComing` relates the two readers of
  the driving capability: until the first heartbeat was taken, one is waiting whenever the other reader
  has a message or had one. Without it a node that has its data could be left without a heartbeat, and
  every timer call would throw. From them: `WatchdogCorrect`, `MissingDataCorrect`, `CrashCorrect`,
  `MatchCorrect`, `HoldCorrect`.
* **Vehicle interface.** `AskedIsRequested` relates the history of what was asked of the vehicle and
  not yet reported to the member `m_requests`: the code may forget a request only if it was
  satisfied or overtaken. `StampIsNewest` relates the stored stamp to what was handed over. From
  them: `GearCorrect`, `OverdueCorrect`, `OrderCorrect`, `SlotCorrect`.
* **State estimation.** `IsNotAhead` is not inductive: a call of the timer predicts past the newest
  event, whenever that came. `PredictionsKeepPace` bounds the newest event by the *next call* of the
  timer too, which a call moves on; `PublishedIsKept` says that the odometry is never newer than the
  newest event, which drops and insertions leave in place. From them: `PaceCorrect`, `StampsCorrect`.
  `HistoryIsNewest` says that the history is a final piece of all accepted events in order: an event is
  inserted in the piece that is kept where it would be inserted among all of them, because one that
  would become the first is refused, and a full history loses its first. With it the replay of the
  stored events behind an insertion is the replay of all of them: `ReplayCorrect`. `GridBegins` ties the
  grid to the first accepted event, and an event that is refused has as many newer ones before it as the
  history holds: `RefusalsCorrect`. That a fold over a sequence has a value at every length is shown by
  the least length at which it fails, which needs no induction theorem with an operator parameter.
* **SSC.** Consent is lost if an enabled command for a used request can still reach a vehicle that was
  greeted anew. `InductiveInv` rules out each way: requests of commands under way are in order
  (`AsksInOrder`), no enabled command was sent for a request that still waits for its first one
  (`NewRequestIsUnused`), and neither the next command (`NextCommandIsAsked`) nor one under way
  (`CommandsAreAsked`) can engage on a request used before, also across the disabled commands before
  it. `RestIsReset` and `EngagedHeard` tie the machine and the vehicle to it. From it:
  `GreetingCorrect` and the refinement `ConsentCorrect`, for any depth and any number of requests.
  `NoticeCorrect` is the safety half of `TakeOverIsNoticed`: while a take-over is unnoticed, reports that
  say otherwise only become fewer, and once there are none each report that is heard, and nothing else,
  takes one from what the debounce still tolerates.
* **Trajectory follower.** `DriveStartsAfresh` is inductive with the types. For `EmergencyIsNotDriven`
  the ages of the commands to drive, on the topic and in the muxer, are related to the time since the
  emergency began. `SettlingCorrect`, the safety half of `Settles`: each kind of situation puts the four
  states of the controller in an order, and every change of state is upwards in the order of the
  situation that was seen, so that one situation never makes it alternate. `ForwardingCorrect`, that of
  `StopIsForwarded`: at the end of a period in which both controllers ran the vehicle was last told what
  the longitudinal one decided in that period (`ForwardInv`: who ran has sent, and what is stored was
  joined when the newer of its halves came).
* **Behavior planner.** `OneExchange`: at most one planner holds a goal of this node, which is waiting,
  planned for or answered, and the flag is set while it does; `GoalsFit`: wherever a goal is, it was
  sent for the subroute in use, since only a request moves on to another and none begins while there is
  one. `TrajectoryBelongsToRoute` (`RouteCorrect`) and `CompleteIsForSubroute` (`CompleteCorrect`) follow
  for any routes and any other clients. `ExchangeCorrect` is conditional: on a flag that starts FALSE
  (then `FlagIsExplained` is invariant). `ServersInv` looks behind the
  planners: the planner for lanes waits for exactly one map while it plans, and the planner for parking
  has exactly one goal with the costmap generator (`OneCostmap`: on its way, worked on or answered).
  From it `PlanningCorrect`, that no planner plans without a server that has something in hand for it,
  and `RequestCorrect`, the safety half of `RequestsEnd`: a request that was not lost is with a planner
  that has it in hand. Both except the generator's silence, which is a finding below. A request is lost
  if it is refused or there is no planner for it: `AloneCorrect` shows that none is lost if
  nobody else uses the planners and the generator, and every subroute has a planner.
* **Tracker and assigner.** `AssignerInv`: before `assign()` runs nothing is marked or covered
  (`IsReady`); in a round the primes are the recorded slots, one to a row (`PrimesAreKnown`), each cover
  of a row stands for a star that gave its column to it (`PrimesCover`), and a column without a star is
  left (`RoundIsOpen`), so that an uncovered slot exists and the round ends within the bound of its
  loop; the path alternates between stars and primes and ends in a prime (`PathAlternates`), so that
  the prime the code calls "guaranteed" is there and flipping the path leaves a matching with one star
  more. The counting steps rest on lemmas about finite sets (a matching of all columns is one of all
  rows). From it: `StarsCorrect`, `AssignCorrect`, `RoundCorrect`. `AssignCorrect` speaks of the padded
  table, where a pair without a weight weighs `MAX_WEIGHT` and may be starred: it holds for rows without a
  possible pair too, which is why the value `assign()` returns tells nothing (a finding below).

  That the assignment is the cheapest takes four steps. `ReducedCorrect`: no weight that `assign()` works
  on is negative. `SwapsCorrect`: reducing rows and adding zeros change weights by an amount for each row
  and one for each column, so that every exchange of columns keeps its price. `ZerosCorrect`: the stars
  are at zeros, *if* every slot that is primed as a zero has weight zero (`PrimesAZero`). `OptimumCorrect`
  joins them: under that premise no complete assignment costs less than the one `assign()` ends with,
  in the prices it was given, which a history variable `problem` of the theorem holds. The sums over
  rows are recursive functions; `Induction` (a set of numbers that holds 0 and every successor holds
  all, by the least number it would miss) gives their lemmas, `SumAdds` and `SumRearranged` among them:
  a sum over rows is the one over the columns they are assigned. The premise cannot be dropped: run
  `assigner_optimal` breaks it.

  For the tracker, `SizesFit` (a row or
  column for each detection and track), `MissesAreTold` and `TargetIsAhead` give `UsedOnceCorrect` and
  `AgesCorrect`.

**Proved and not checked by a run:** `PlannedRouteExists`, `ReportMatchesVerdict`, `CommandsAreInOrder`;
the types of the emergency handler, the vehicle interface, the trajectory follower and the behavior
planner; `ServersInv` and `PlanningIsInHand`; `WeightsAreReduced`, `SwapsKeepTheirPrice`, and, under
`PrimesAZero`, `StarsAreZeros` and `IsCheapest`; `MovesOn`, `EveryPeriodForwards`, `RouteComesCloser` and
`NoticeComesCloser`. TLC found no counterexample to any of them on the instances of the runs before they
were proved.

**Only model-checked.** Liveness under fairness (`RouteIsPlanned`, `ShutdownCompletes`,
`RecoversWithoutHold`, `RequestsEnd`, `TakeOverIsNoticed`, `Settles`, `StopIsForwarded`), which the prover
does not handle; of all but the second and the third the safety half is proved, as said above.

## Where the code differs from what it says

Three of these are runs that TLC refutes, with the quotation in `PROJECT.json`.

* `assigner_optimal`: `add_new_zero` raises the weights of slots that are covered twice, but a slot
  marked ZERO there keeps its mark, and later a slot of positive weight is primed and starred as if it
  were a zero. A table of five rows gets an assignment of cost 14 where 13 is possible; the C++ class,
  compiled and run on that table, returns the same. By `OptimumCorrect` such a mark is the only way in
  which the assignment can fail to be of minimum cost.
* `parking_silence`: when a transform is missing the costmap generator returns without answering its
  goal and stays in GENERATING; the freespace planner waits for good, and with it the behavior planner.
* `behavior_route`: `on_route` refuses routes during a request, but `map_response`, which sets the
  route, does not look; a request begun in between has its route replaced.

Others were met while modelling; the models follow the code and no run is spent on them:

* **State monitor.** An empty odometry buffer counts as standing still, so that `ARRIVED_GOAL` can be
  entered although no velocity was ever reported; the mode check of `isAutonomousMode` is commented
  out, although the design document asks for the mode; `engage` is never reset, so it may be that of
  an earlier drive; a route that comes during `PLANNING` is taken over without a new wait; and on the
  single-threaded executor the shutdown service always times out before the timer can finalize, as the
  test expects.
* **Emergency handler.** `isStopped` (`emergency_handler_node.cpp:306`) compares a signed velocity, so
  that a vehicle rolling backwards is sent `PARK`; the clear service before the data is there reads
  null pointers; a timer call that finds the first capability stored and its heartbeat still queued
  throws; `emergency_hazard_level` is a parameter nobody reads.
* **Behavior planner.** `get_trajectory` moves the selection on and is called twice, by
  `get_desired_gear` and by the node: after a leg shorter than `goal_distance_thresh` the first call asks
  for the gear of that leg and the second hands out the next one, which may go the other way. The model
  makes both calls and the run has such legs; no document says how short a leg may be or that a leg is
  handed out in its gear, so that no run claims it. The freespace planner looks neither at the result code nor at the
  costmap it is given, although its design document distinguishes a failure; its `handleCancel` calls
  `canceled()` itself.
* **Vehicle interface.** With Ackermann commands, which the node recommends, state commands never pass
  the safety state machine (`vehicle_interface_node.cpp:205`; the design document, lines 71-72, has every
  gear shift at speed removed), and the handler compares with a stamp it never stores, so that an older command may
  follow a newer one. `check_state_change` counts a request that has just been satisfied as timed out,
  because it compares the stamp it has just reset. No report of the machine reaches anybody: the node
  looks at them after `update` only, which clears those of `compute_safe_commands`, and its log of an
  overdue change is commented out ("TODO Re-enable this error when we can get it under control",
  `vehicle_interface_node.cpp:565-569`), although `vehicle_interface-design.md:78-79` and
  `vehicle_interface_failure_analysis.md:117-118` ask for a warning; `OverdueIsReported` therefore speaks
  of the machine's reports and of no warning. A gear the machine chose by itself is not
  remembered as a request; a withdrawn request stays outstanding; `timeout_commands` is called by
  nobody, so nothing stops the vehicle when commands cease; braking to a stand shifts into reverse when
  the acceleration would change the sign of the velocity.
* **Drive-by-wire and SSC.** A late "enabled" report confirms an enabling it does not belong to and so
  defeats the debounce; commands under way when the driver asks for manual still engage the vehicle; a
  full topic may drop the one disabled command a vehicle wants first; `ENABLE_SENT` waits for a report
  for ever. Turn signals are sent with mode 1 in every state, although the design document wants no
  enabled command sent by accident (`ssc_interface-design.md:49`); a time difference takes `.sec` a
  second time where the nanoseconds belong (`ssc_interface.cpp:331-334`).
* **State estimation.** The size of the history is computed for predictions only: 0, which means
  unbounded, when the period is longer than the history, and 1 ends the node at the second event. A
  measurement older than the history ends the node by an exception; the comment on the test
  `IgnoreMeasurementsFromThePast` has such measurements ignored, and the test does not send one. A first
  measurement with stamp 0 leaves the grid unset.
* **Trajectory follower.** A trajectory of two points is taken by the longitudinal controller and
  refused by the lateral one, after it was stored; while the lateral controller is silent the muxer
  forwards nothing, not even an emergency stop. A vehicle that was never seen moving stays in
  EMERGENCY, and far from the trajectory the controller does not look whether it moves. The low-pass of
  the velocity error is not reset with the direction.
* **Assigner.** For a table with a row that has no possible pair `assign()` returns true, and only
  `get_assignment` says `UNASSIGNED`. The design document has such tables "detected by hitting loop bounds"
  and `assign()` return false as "a signal to the user" (`hungarian_assigner-design.md:106-112`); the
  header says the same of its result (`hungarian_assigner.hpp:122-124`) and guarantees every row a column
  when it is true (`:130`). `AssignCompletes` shows that the code never returns false; the tracker,
  the one caller, does not look at the result (`detected_object_associator.cpp:74-76`). The mark
  `NO_LINK` is never used.
* **Tracking.** `greedy_roi_associator.cpp:179` stores the index of every region it looks at, not of
  the best one, although `greedy_roi_associator-design.md:17` promises the best match. More than 256
  detections or tracks, or a distance beyond the largest weight, end the node by an exception. Empty
  clusters are skipped, which shifts the indices of those left over. The node warns of clusters and
  detected objects both enabled, which are its defaults, by building an exception it does not throw;
  ticks are then counted twice.

## What is not modelled

`PROJECT.json` gives the reason for each component. Most of the source, by far, computes over reals
or is vendored: perception, localization, mapping, control laws, filters, optimisers, geometry,
planners' searches, simulators and benchmarks have little control state, and what they compute is out
of TLC's and TLAPS's reach. Sensor drivers and most vehicle drivers translate formats; launch files,
tools and visualisation have no behaviour of their own. Of the rest:

* `handle_cancel` of the planners: no node of the repository cancels a goal.
* The other users of the drive-by-wire machine. `ne_raptor_interface` checks the speed against the
  gear only when a command arrives and resends the stored command periodically;
  `dataspeed_ford_interface` repeats its request to enable while enabled. The repository does not say
  what their vehicles expect, which `SscInterface` needs to know.
* `recordreplay_planner`. Read, not modelled: a goal to record that comes while replaying takes over
  from it, a cancelled goal is never told so, and an empty record can be replayed.
* `controller_common`: the queue of states that wait for a trajectory or a transform.
* Projection and overlap in vision matching; the payload of SSC commands and reports; values of
  commands, parameter callbacks and debug topics of the trajectory follower.

## Plan

Done: state monitor, emergency handler, vehicle interface, behavior planner with its planners,
drive-by-wire machine with SSC, state estimation, trajectory follower, tracker with its assigner, each
with its proofs. What a continuation would take up, in this order:

1. `Supervision`: state monitor, emergency handler and vehicle interface composed, reduced to what
   they tell each other; property: an emergency reaches the platform, and engaging does not undo it.
2. `RecordReplayPlanner` with its two actions and the collision estimator, and the queue of
   `controller_common`.
3. The other platforms on top of `DbwStateMachine`, each with a vehicle of its own.
