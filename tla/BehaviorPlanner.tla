--------------------------- MODULE BehaviorPlanner ---------------------------
(***************************************************************************)
(* The behavior planner node (BehaviorPlannerNode, BehaviorPlanner and     *)
(* TrajectoryManager) with the trajectory planners, the costmap generator, *)
(* the map service and the collision estimator it talks to.                *)
(*                                                                         *)
(* The node splits a route into subroutes, one per kind of planner, asks   *)
(* the planner of the current subroute for a trajectory, splits that where *)
(* the direction changes into legs, and hands out one leg at a time, after *)
(* the gear has been changed.  All of its callbacks run on one thread; the *)
(* answers of the other processes arrive in between.                       *)
(***************************************************************************)
EXTENDS FreespacePlanner, FiniteSets

CONSTANTS
  Routes,          \* routes the global planner may publish
  Gears,           \* values of the gear report that are told apart
  Segments,        \* planner types of the segments of each route, in order
  NoRoute,
  MaxMapReplies,   \* bound: unanswered map requests of the node
  MaxModify,       \* bound: trajectories at the collision estimator
  MaxForeign,      \* bound: goals sent to the planners by other action clients
  RequestingAtStart \* values m_requesting_trajectory, which no constructor sets,
                    \* may have in the memory of the new node

PlannerTypes == {"LANE", "PARKING", "UNKNOWN"}
Directions == {"DRIVE", "REVERSE"}

ASSUME RouteAssumption ==
  /\ NoRoute \notin Routes
  /\ Segments \in [Routes -> Seq(PlannerTypes) \ {<<>>}]
ASSUME BoundsAssumption ==
  MaxMapReplies \in Nat /\ MaxModify \in Nat /\ MaxForeign \in Nat
ASSUME StartAssumption == RequestingAtStart \subseteq BOOLEAN
ASSUME GearAssumption == Directions \subseteq Gears
ASSUME PlannersAssumption == Planners = {"LANE", "PARKING"}

VARIABLES
  m_route,              \* m_route
  route,                \* the route m_subroutes was made from
  current,              \* m_current_subroute, counted from 1
  legs,                 \* directions of m_sub_trajectories
  selected,             \* m_selected_trajectory, counted from 1
  complete,             \* m_is_trajectory_complete
  requesting,           \* m_requesting_trajectory
  stopped,              \* is_vehicle_stopped(m_ego_state)
  current_gear,         \* m_current_gear
  estimator,            \* is the collision estimator enabled?
  map_replies,          \* unanswered map requests of the node
  modify,               \* trajectories at the collision estimator, oldest first
  published,            \* last trajectory published
  foreign,              \* number of goals sent by other action clients
  planned_for,          \* history: the goal the legs in use were planned for
  swapped,              \* history: was the route replaced during a request?
  lost                  \* history: was a request rejected, or sent to no planner?

planner   == <<route, current, legs, selected, complete, planned_for>>
exchange  == <<requesting, lost>>
io        == <<modify, published>>
fixed     == <<estimator>>
vars == <<parkingVars, m_route, planner, exchange, stopped, current_gear,
          map_replies, io, foreign, swapped, fixed>>

-----------------------------------------------------------------------------
(* Subroutes: set_route starts a new one where the planner type changes    *)
(* between PARKING and LANE; an UNKNOWN segment starts none.               *)

Changes(s) == {i \in 2..Len(s) : {s[i - 1], s[i]} = {"PARKING", "LANE"}}

SubrouteTypes(s) ==
  [k \in 1..(Cardinality(Changes(s)) + 1) |->
     IF k = 1 THEN s[1]
     ELSE s[CHOOSE i \in Changes(s) : Cardinality({j \in Changes(s) : j <= i}) = k - 1]]

\* The goals of the node: a subroute of a route each.
ASSUME GoalAssumption ==
  /\ Goals \subseteq [route : Routes, subroute : Nat \ {0}]
  /\ \A r \in Routes : \A k \in 1..Len(SubrouteTypes(Segments[r])) :
       [route |-> r, subroute |-> k] \in Goals
ASSUME TrajectoryAssumption ==
  \A t \in Trajectories \ {NoTrajectory} :
    t.legs \in Seq(Directions) \ {<<>>} /\ t.reaches_goal \in BOOLEAN

Subroutes == IF route = NoRoute THEN <<>> ELSE SubrouteTypes(Segments[route])

IsRouteReady == Subroutes # <<>>
IsTrajectoryReady == legs # <<>>

\* A trajectory handed out: the vehicle is to stand, or to follow a leg.
Outputs == {"stop", "leg"}

TypeOK ==
  /\ PlannerTypeOK /\ CostmapTypeOK
  /\ m_route \in Routes \union {NoRoute}
  /\ route \in Routes \union {NoRoute}
  /\ current \in 1..(IF IsRouteReady THEN Len(Subroutes) ELSE 1)
  /\ legs \in Seq(Directions)
  /\ selected \in 1..(IF IsTrajectoryReady THEN Len(legs) ELSE 1)
  /\ complete \in BOOLEAN
  /\ requesting \in BOOLEAN
  /\ stopped \in BOOLEAN
  /\ current_gear \in Gears
  /\ estimator \in BOOLEAN
  /\ map_replies \in 0..MaxMapReplies
  /\ modify \in Seq(Outputs)
  /\ published \in Outputs
  /\ foreign \in 0..MaxForeign
  /\ planned_for \in Goals \union {NoGoal}
  /\ swapped \in BOOLEAN
  /\ lost \in BOOLEAN

Init ==
  /\ PlannerInit /\ CostmapInit
  /\ m_route = NoRoute /\ route = NoRoute /\ current = 1
  /\ legs = <<>> /\ selected = 1 /\ complete = FALSE
  /\ requesting \in RequestingAtStart
  /\ stopped = TRUE
  /\ current_gear \in Gears
  /\ estimator \in BOOLEAN
  /\ map_replies = 0 /\ modify = <<>>
  /\ published = "stop"
  /\ foreign = 0
  /\ planned_for = NoGoal /\ swapped = FALSE /\ lost = FALSE

-----------------------------------------------------------------------------
(* on_ego_state.                                                           *)

\* What one vehicle state tells the node: whether the vehicle is slow, how far
\* from the goals it is, whether few trajectory points remain, the ends of how
\* many legs in a row, from the selected one on, are near, and of which legs
\* only points without velocity are left.  Where the vehicle is makes no
\* difference while it moves or, but for the legs, during a request.
LegsAhead == (selected..(selected + 2)) \intersect 1..Len(legs)
EgoStates ==
  LET short  == IF IsTrajectoryReady /\ ~requesting THEN BOOLEAN ELSE {FALSE}
      at_end == IF IsTrajectoryReady THEN 0..2 ELSE {0}
      at     == CASE requesting -> {{}}
                  [] ~requesting /\ current = Len(Subroutes) -> {{}, {"goal", "subgoal"}}
                  [] OTHER -> SUBSET {"goal", "subgoal"}
  IN  [stopped : {FALSE}, at : {{}}, short : short, at_end : {0},
       no_velocity : SUBSET LegsAhead]
      \union
      [stopped : {TRUE}, at : at, short : short, at_end : at_end,
       no_velocity : SUBSET LegsAhead]

\* TrajectoryManager::get_trajectory moves on to the next leg at the end of one.
Advance(leg, e) ==
  IF e.stopped /\ leg < selected + e.at_end /\ leg < Len(legs) THEN leg + 1 ELSE leg

\* The velocities of a leg that is not looked at make no difference.
TellApart(e) ==
  e.no_velocity \subseteq {Advance(selected, e), Advance(Advance(selected, e), e)}

HasArrivedGoal(e) == e.stopped /\ "goal" \in e.at
HasArrivedSubrouteGoal(e) == e.stopped /\ "subgoal" \in e.at
NeedsNewTrajectory(e) == ~IsTrajectoryReady \/ (e.short /\ ~complete)

\* Mutant: the flag is left to goal_response_callback.
RequestTrajectoryUnmarked(k) ==
  /\ current' = k
  /\ Subroutes[k] \in Planners
  /\ SendGoal(Subroutes[k], [route |-> route, subroute |-> k])
  /\ UNCHANGED <<answers, exchange>>

\* request_trajectory for subroute k; no planner serves the type UNKNOWN.
RequestTrajectory(k) ==
  /\ current' = k
  /\ requesting' = TRUE
  /\ IF Subroutes[k] \in Planners
     THEN /\ SendGoal(Subroutes[k],
                      [route |-> route, subroute |-> k])
          /\ UNCHANGED <<answers, lost>>
     ELSE /\ lost' = TRUE
          /\ UNCHANGED plannerVars

NextSubroute == IF current < Len(Subroutes) THEN current + 1 ELSE current

MaybeRequest(e) ==
  CASE ~requesting /\ ~HasArrivedGoal(e) /\ HasArrivedSubrouteGoal(e) ->
         RequestTrajectory(NextSubroute)
    [] ~requesting /\ ~HasArrivedGoal(e) /\ ~HasArrivedSubrouteGoal(e)
         /\ NeedsNewTrajectory(e) -> RequestTrajectory(current)
    [] OTHER -> UNCHANGED <<plannerVars, current, exchange>>

DesiredGear(leg, e) == IF leg \in e.no_velocity THEN "DRIVE" ELSE legs[leg]

\* Both get_desired_gear and the node call get_trajectory, which may move on to
\* another leg each time.
PublishTrajectory(e) ==
  LET first  == Advance(selected, e)
      second == Advance(first, e)
      output == IF second \in e.no_velocity THEN "stop" ELSE "leg"
  IN  IF DesiredGear(first, e) # current_gear
      THEN /\ selected' = first
           /\ published' = "stop"
           /\ UNCHANGED modify
      ELSE /\ selected' = second
           /\ \/ /\ estimator
                 /\ Len(modify) < MaxModify
                 /\ modify' = Append(modify, output)
                 /\ UNCHANGED published
              \/ /\ ~estimator
                 /\ published' = output
                 /\ UNCHANGED modify

OnEgoState ==
  /\ \E e \in EgoStates :
       /\ TellApart(e)
       /\ stopped' = e.stopped
       /\ \/ /\ ~IsRouteReady
             /\ UNCHANGED <<plannerVars, current, exchange, selected, io>>
          \/ /\ IsRouteReady
             /\ MaybeRequest(e)
             /\ \/ /\ ~IsTrajectoryReady
                   /\ UNCHANGED <<selected, io>>
                \/ /\ IsTrajectoryReady
                   /\ PublishTrajectory(e)
  /\ UNCHANGED <<costmapVars, m_route, route, legs, complete, planned_for, current_gear,
                 map_replies, foreign, swapped, fixed>>

-----------------------------------------------------------------------------
(* The other callbacks of the node.                                        *)

OnGearReport ==
  /\ current_gear' \in Gears
  /\ UNCHANGED <<parkingVars, m_route, planner, exchange, stopped, map_replies, io,
                 foreign, swapped, fixed>>

\* A route is refused during a request and while the vehicle moves.
OnRoute ==
  /\ ~requesting
  /\ stopped
  /\ map_replies < MaxMapReplies
  /\ m_route' \in Routes
  /\ map_replies' = map_replies + 1
  /\ UNCHANGED <<parkingVars, planner, exchange, stopped, current_gear, io,
                 foreign, swapped, fixed>>

\* Mutant: the trajectory outlives the route.
ClearNothing == UNCHANGED <<legs, selected, planned_for>>

ClearTrajectory == legs' = <<>> /\ selected' = 1 /\ planned_for' = NoGoal

MapResponse ==
  /\ map_replies > 0
  /\ map_replies' = map_replies - 1
  /\ route' = m_route
  /\ current' = 1
  /\ ClearTrajectory
  /\ swapped' = (swapped \/ requesting)
  /\ UNCHANGED <<parkingVars, m_route, complete, exchange, stopped, current_gear, io,
                 foreign, fixed>>

ModifyTrajectoryResponse ==
  /\ modify # <<>>
  /\ modify' = Tail(modify)
  /\ \/ published' = Head(modify)
     \/ published' = "stop"    \* an empty trajectory becomes a stop
  /\ UNCHANGED <<parkingVars, m_route, planner, exchange, stopped, current_gear,
                 map_replies, foreign, swapped, fixed>>

\* The next answer of planner p.
TakeAnswer(p) ==
  /\ answers[p] # <<>>
  /\ answers' = [answers EXCEPT ![p] = Tail(@)]
  /\ UNCHANGED <<planner_state, goal_handle, map_requests, requests, costmapVars>>

GoalResponseCallback(p) ==
  /\ TakeAnswer(p)
  /\ \/ /\ Head(answers[p]).kind = "accepted"
        /\ requesting' = TRUE
        /\ UNCHANGED lost
     \/ /\ Head(answers[p]).kind = "rejected"
        /\ lost' = TRUE
        /\ UNCHANGED requesting
  /\ UNCHANGED <<m_route, planner, stopped, current_gear, map_replies, io, foreign,
                 swapped, fixed>>

\* Mutant: an empty trajectory is ignored altogether.
SetTrajectoryIfAny(t, goal) ==
  IF t = NoTrajectory
  THEN UNCHANGED <<legs, selected, complete, planned_for>>
  ELSE /\ legs' = t.legs
       /\ selected' = 1
       /\ planned_for' = goal
       /\ complete' \in IF goal.route = route /\ goal.subroute = current
                        THEN {t.reaches_goal} ELSE BOOLEAN

\* set_trajectory: an empty trajectory leaves the old one in use.  Whether the
\* last point is at the goal of the current subroute is known only if the
\* trajectory was planned for that subroute.
SetTrajectory(t, goal) ==
  IF t = NoTrajectory
  THEN /\ complete' = FALSE
       /\ UNCHANGED <<legs, selected, planned_for>>
  ELSE /\ legs' = t.legs
       /\ selected' = 1
       /\ planned_for' = goal
       /\ complete' \in IF goal.route = route /\ goal.subroute = current
                        THEN {t.reaches_goal} ELSE BOOLEAN

ResultCallback(p) ==
  /\ TakeAnswer(p)
  /\ Head(answers[p]).kind = "result"
  /\ SetTrajectory(Head(answers[p]).trajectory, Head(answers[p]).goal)
  /\ requesting' = FALSE
  /\ UNCHANGED <<m_route, route, current, lost, stopped, current_gear, map_replies, io,
                 foreign, swapped, fixed>>

-----------------------------------------------------------------------------
(* The other clients of the planners.                                      *)

SendForeignGoal(p) ==
  /\ foreign < MaxForeign
  /\ foreign' = foreign + 1
  /\ \E g \in OtherGoals : SendGoal(p, g)
  /\ UNCHANGED <<answers, costmapVars, m_route, planner, exchange, stopped, current_gear,
                 map_replies, io, swapped, fixed>>

SendForeignCostmapGoal ==
  /\ foreign < MaxForeign
  /\ foreign' = foreign + 1
  /\ costmap_requests' = Append(costmap_requests, "other")
  /\ UNCHANGED <<plannerVars, generator, generating_for, costmap_maps, costmap_answers,
                 m_route, planner, exchange, stopped, current_gear, map_replies, io,
                 swapped, fixed>>

OthersRest == UNCHANGED <<m_route, planner, exchange, stopped, current_gear, map_replies,
                          io, foreign, swapped, fixed>>

LaneStep ==
  /\ HandleGoal("LANE") \/ PlanTrajectory("LANE")
  /\ UNCHANGED costmapVars
  /\ OthersRest
ParkingStep ==
  /\ HandleParkingGoal \/ CostmapGoalResponse \/ CostmapResult
  /\ OthersRest
CostmapStep ==
  /\ HandleCostmapGoal \/ CostmapMapResponse
  /\ OthersRest

AnswerArrives(p) == GoalResponseCallback(p) \/ ResultCallback(p)

Next ==
  \/ OnEgoState
  \/ OnGearReport
  \/ OnRoute
  \/ MapResponse
  \/ ModifyTrajectoryResponse
  \/ \E p \in Planners :
       \/ GoalResponseCallback(p)
       \/ ResultCallback(p)
       \/ SendForeignGoal(p)
  \/ SendForeignCostmapGoal
  \/ LaneStep
  \/ ParkingStep
  \/ CostmapStep

Spec == Init /\ [][Next]_vars

\* The planners, the services they call and the middleware get to run.
Fairness == /\ WF_vars(LaneStep) /\ WF_vars(ParkingStep) /\ WF_vars(CostmapStep)
            /\ \A p \in {"LANE", "PARKING"} : WF_vars(AnswerArrives(p))
FairSpec == Spec /\ Fairness

-----------------------------------------------------------------------------
(* Properties.                                                             *)

\* The goals of this node that some planner still has to answer in full.
Open(p) ==
  Cardinality({i \in 1..Len(requests[p]) : requests[p][i] \in Goals})
  + (IF planner_state[p] = "PLANNING" /\ goal_handle[p] \in Goals THEN 1 ELSE 0)
  + Cardinality({i \in 1..Len(answers[p]) : answers[p][i].kind # "accepted"})

\* The flag m_requesting_trajectory tells exactly whether one exchange with one
\* planner is open, so that no planner gets a second goal and no result finds
\* the node idle; a request that was rejected, or that no planner serves, leaves
\* the flag set for good.
RequestingTracksExchange ==
  /\ Open("LANE") + Open("PARKING") <= 1
  /\ requesting <=> (lost \/ Open("LANE") + Open("PARKING") = 1)
  /\ lost => Open("LANE") + Open("PARKING") = 0

\* A trajectory in use was planned for the route in use, and not for a subroute
\* ahead, unless a map answer replaced the route during a request.
TrajectoryBelongsToRoute ==
  IsTrajectoryReady /\ ~swapped
    => planned_for.route = route /\ planned_for.subroute <= current

\* m_is_trajectory_complete, which keeps the node from asking for more, speaks of
\* the subroute the node is on: when no planner found a trajectory for a new
\* subroute, the legs of the old one stay in use, but they do not count as complete
\* although they reached their own goal, and the next vehicle state near their end
\* asks again; unless a map answer replaced the route during a request.
CompleteIsForSubroute ==
  ~requesting /\ ~swapped /\ IsTrajectoryReady /\ complete
    => planned_for.subroute = current

\* "Route cannot be updated while communicating with trajectory planners."
RouteIsFixedDuringRequest == [][requesting => route' = route]_vars

\* Every request comes to an end, unless it was rejected or went to no planner, or
\* the costmap generator fell silent on the planner for parking.
RequestsEnd == requesting ~> (~requesting \/ lost \/ GeneratorIsSilent)

\* Planning ends, one way or the other: "Planner's state changes into `idle`."
ParkingPlanningEnds ==
  planner_state["PARKING"] = "PLANNING" ~> planner_state["PARKING"] = "IDLE"

-----------------------------------------------------------------------------
(* Why the safety properties hold: the inductive invariant of the proofs.  *)

\* A goal of this node waits with a planner, is being planned for, or is answered;
\* one of a planner that is quiet is nowhere.
NoneWaits(p) == \A i \in 1..Len(requests[p]) : requests[p][i] \notin Goals
OneWaits(p) ==
  \E i \in 1..Len(requests[p]) :
    /\ requests[p][i] \in Goals
    /\ \A j \in 1..Len(requests[p]) : requests[p][j] \in Goals => j = i

Quiet(p)   == NoneWaits(p) /\ goal_handle[p] \notin Goals /\ answers[p] = <<>>
Waiting(p) == OneWaits(p) /\ goal_handle[p] \notin Goals /\ answers[p] = <<>>
Planning(p) ==
  /\ NoneWaits(p) /\ goal_handle[p] \in Goals
  /\ Len(answers[p]) \in 0..1
  /\ \A i \in 1..Len(answers[p]) : answers[p][i].kind = "accepted"
Answered(p) ==
  /\ NoneWaits(p) /\ goal_handle[p] \notin Goals
  /\ Len(answers[p]) \in 1..2
  /\ Len(answers[p]) = 2 => answers[p][1].kind = "accepted" /\ answers[p][2].kind = "result"
  /\ Len(answers[p]) = 1 => answers[p][1].kind # "accepted"
Busy(p) == Waiting(p) \/ Planning(p) \/ Answered(p)

\* At most one planner has a goal of this node, and the flag is set while it has.
OneExchange ==
  /\ \A p \in Planners :
       /\ planner_state[p] = "IDLE" => goal_handle[p] = NoGoal
       /\ Quiet(p) \/ Busy(p)
       /\ Busy(p) => requesting /\ ~lost
  /\ \A p, q \in Planners : Busy(p) /\ Busy(q) => p = q
  /\ lost => requesting

\* The flag is never set without a reason.
FlagIsExplained == requesting => lost \/ \E p \in Planners : Busy(p)

\* Wherever a goal of this node is, it was sent for the subroute the node is on; the
\* legs in use were planned for that one or an earlier one.
Fits(g) == g.route = route /\ g.subroute = current
LegsFit ==
  IsTrajectoryReady =>
    /\ planned_for \in Goals
    /\ planned_for.route = route /\ planned_for.subroute <= current
    /\ ~requesting /\ complete => planned_for.subroute = current
GoalsFit ==
  ~swapped =>
    /\ LegsFit
    /\ \A p \in Planners :
         /\ \A i \in 1..Len(requests[p]) : requests[p][i] \in Goals => Fits(requests[p][i])
         /\ goal_handle[p] \in Goals => Fits(goal_handle[p])
         /\ \A i \in 1..Len(answers[p]) : Fits(answers[p][i].goal)

\* The costmap generator asks for one map at a time.
GeneratorWaits == generator = "IDLE" => costmap_maps = 0

InductiveInv == TypeOK /\ GeneratorWaits /\ OneExchange /\ GoalsFit

-----------------------------------------------------------------------------
(* Why requests end: nobody waits on nobody.                               *)

\* The planner for lanes waits for one map as long as it plans.
LaneAwaitsMap ==
  map_requests["LANE"] = (IF planner_state["LANE"] = "PLANNING" THEN 1 ELSE 0)

\* The goal that the planner for parking has with the costmap generator is under
\* way, worked on, or answered.
NoneAsks == \A i \in 1..Len(costmap_requests) : costmap_requests[i] # "planner"
OneAsks ==
  \E i \in 1..Len(costmap_requests) :
    /\ costmap_requests[i] = "planner"
    /\ \A j \in 1..Len(costmap_requests) : costmap_requests[j] = "planner" => j = i

CostmapQuiet   == NoneAsks /\ generating_for # "planner" /\ costmap_answers = <<>>
CostmapWaiting == OneAsks /\ generating_for # "planner" /\ costmap_answers = <<>>
CostmapGenerating ==
  /\ NoneAsks /\ generating_for = "planner"
  /\ Len(costmap_answers) \in 0..1
  /\ \A i \in 1..Len(costmap_answers) : costmap_answers[i] = "accepted"
CostmapAnswered ==
  /\ NoneAsks /\ generating_for # "planner"
  /\ Len(costmap_answers) \in 1..2
  /\ Len(costmap_answers) = 2 => costmap_answers[1] = "accepted" /\ costmap_answers[2] = "costmap"
  /\ Len(costmap_answers) = 1 => costmap_answers[1] # "accepted"

\* It has one exactly as long as it plans.
OneCostmap ==
  /\ generator = "IDLE" <=> generating_for = "none"
  /\ planner_state["PARKING"] = "IDLE" => CostmapQuiet
  /\ planner_state["PARKING"] = "PLANNING" =>
       CostmapWaiting \/ CostmapGenerating \/ CostmapAnswered

ServersInv == LaneAwaitsMap /\ OneCostmap

\* What a planner plans with is on its way: the map, or the costmap, whose goal
\* waits, is worked on or has answers.
MapInHand(p) == p = "LANE" /\ map_requests[p] > 0
CostmapInHand(p) ==
  /\ p = "PARKING"
  /\ \/ ~NoneAsks
     \/ generating_for = "planner" /\ costmap_maps > 0
     \/ costmap_answers # <<>>
InHand(p) == MapInHand(p) \/ CostmapInHand(p)

\* The costmap generator fell silent on the planner.
Forgotten(p) == p = "PARKING" /\ generating_for = "planner" /\ GeneratorIsSilent

\* A planner plans only as long as what it waits for is in hand, for any client.
PlanningIsInHand ==
  \A p \in Planners : planner_state[p] = "PLANNING" => InHand(p) \/ Forgotten(p)

\* The node waits only for a planner that has its goal in the queue, that plans for
\* it and waits for something in hand, or that has answered; or for one that the
\* costmap generator forgot.
RequestIsInHand ==
  requesting /\ ~lost =>
    \E p \in Planners :
      \/ Waiting(p) \/ Answered(p)
      \/ Planning(p) /\ (InHand(p) \/ Forgotten(p))

\* Without other clients the planners have no goals but those of the node, and
\* the generator none but those of the planner; neither refuses one.
OnlyOwn(p) ==
  /\ \A i \in 1..Len(requests[p]) : requests[p][i] \in Goals
  /\ planner_state[p] = "PLANNING" => goal_handle[p] \in Goals
  /\ \A i \in 1..Len(answers[p]) : answers[p][i].kind # "rejected"
OnlyPlanner ==
  /\ \A i \in 1..Len(costmap_requests) : costmap_requests[i] = "planner"
  /\ generating_for # "other"
  /\ \A i \in 1..Len(costmap_answers) : costmap_answers[i] # "rejected"
NothingIsRefused == (\A p \in Planners : OnlyOwn(p)) /\ OnlyPlanner
=============================================================================
