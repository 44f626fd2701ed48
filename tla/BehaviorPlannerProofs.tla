------------------------ MODULE BehaviorPlannerProofs ------------------------
(***************************************************************************)
(* Theorems about the behavior planner with its planners, for any routes,  *)
(* trajectories and bounds.                                                *)
(***************************************************************************)
EXTENDS BehaviorPlanner, FiniteSetTheorems, TLAPS

-----------------------------------------------------------------------------
(* Sequences and subroutes.                                                *)

\* A function on 1..n is a sequence of length n.
LEMMA FunctionIsSeq ==
  ASSUME NEW n \in Nat, NEW S, NEW f \in [1..n -> S]
  PROVE  f \in Seq(S) /\ Len(f) = n
  OBVIOUS

\* What Append does to a sequence.
LEMMA Appended ==
  ASSUME NEW S, NEW s \in Seq(S), NEW e \in S
  PROVE  /\ Append(s, e) \in Seq(S)
         /\ Len(Append(s, e)) = Len(s) + 1 /\ Len(s) \in Nat
         /\ Append(s, e)[Len(s) + 1] = e
         /\ \A i \in 1..Len(s) : Append(s, e)[i] = s[i]
  OBVIOUS

\* What Head and Tail take from a sequence.
LEMMA Taken ==
  ASSUME NEW S, NEW s \in Seq(S), s # <<>>
  PROVE  /\ Head(s) \in S /\ Head(s) = s[1]
         /\ Tail(s) \in Seq(S)
         /\ Len(s) \in Nat \ {0} /\ Len(Tail(s)) = Len(s) - 1
         /\ \A i \in 1..(Len(s) - 1) : Tail(s)[i] = s[i + 1]
  OBVIOUS

\* A route has at least one subroute.
LEMMA RouteHasSubroutes ==
  ASSUME NEW r \in Routes
  PROVE  /\ Len(SubrouteTypes(Segments[r])) \in Nat \ {0}
         /\ SubrouteTypes(Segments[r]) # <<>>
<1> DEFINE s == Segments[r]
           n == Cardinality(Changes(s)) + 1
           f == SubrouteTypes(s)
<1>1. s \in Seq(PlannerTypes)
  BY RouteAssumption
<1>2. IsFiniteSet(Changes(s))
  <2>1. Len(s) \in Nat /\ 2 \in Int /\ Len(s) \in Int
    BY <1>1
  <2>2. IsFiniteSet(2..Len(s))
    BY <2>1, FS_Interval
  <2>3. Changes(s) \subseteq 2..Len(s)
    BY DEF Changes
  <2> QED BY <2>2, <2>3, FS_Subset
<1>3. n \in Nat \ {0}
  BY <1>2, FS_CardinalityType
<1>4. f \in [1..n -> {f[k] : k \in 1..n}]
  BY DEF SubrouteTypes
<1>5. Len(f) = n
  <2> HIDE DEF f, n
  <2> QED BY <1>3, <1>4, FunctionIsSeq
<1>6. f # <<>>
  BY <1>3, <1>5
<1> QED BY <1>3, <1>5, <1>6

-----------------------------------------------------------------------------
(* Types.                                                                  *)

\* A planner answers its goal, if it has one, and is idle again.
Finish(p, t) ==
  /\ SendAnswer(p, [kind |-> "result", goal |-> goal_handle[p], trajectory |-> t])
  /\ planner_state' = [planner_state EXCEPT ![p] = "IDLE"]
  /\ goal_handle' = [goal_handle EXCEPT ![p] = NoGoal]
  /\ UNCHANGED requests

\* Both planners finish in this way.
LEMMA PlannersFinish ==
  /\ PlanTrajectory("LANE") => \E t \in Trajectories : Finish("LANE", t)
  /\ \A t : EndPlanning(t) => Finish("PARKING", t)
  BY DEF PlanTrajectory, EndPlanning, Finish

LEMMA SendType ==
  ASSUME PlannerTypeOK, NEW p \in Planners, NEW g \in Goals \union OtherGoals,
         SendGoal(p, g), UNCHANGED answers
  PROVE  PlannerTypeOK'
<1>1. requests[p] \in Seq(Goals \union OtherGoals)
  BY DEF PlannerTypeOK
<1>2. Append(requests[p], g) \in Seq(Goals \union OtherGoals)
  BY <1>1, Appended
<1> QED BY <1>2 DEF PlannerTypeOK, SendGoal

LEMMA AnswerType ==
  ASSUME PlannerTypeOK, NEW p \in Planners, NEW a, a.goal \in Goals => a \in Answer,
         SendAnswer(p, a)
  PROVE  answers' \in [Planners -> Seq(Answer)]
<1>1. answers[p] \in Seq(Answer)
  BY DEF PlannerTypeOK
<1>2. a.goal \in Goals => Append(answers[p], a) \in Seq(Answer)
  BY <1>1, Appended
<1> QED BY <1>2 DEF PlannerTypeOK, SendAnswer

LEMMA JudgeType ==
  ASSUME PlannerTypeOK, NEW p \in Planners, JudgeGoal(p),
         map_requests' \in [Planners -> Nat]
  PROVE  PlannerTypeOK'
<1> DEFINE g == Head(requests[p])
<1>1. g \in Goals \union OtherGoals /\ Tail(requests[p]) \in Seq(Goals \union OtherGoals)
  BY Taken DEF PlannerTypeOK, JudgeGoal
<1>2. requests' \in [Planners -> Seq(Goals \union OtherGoals)]
  BY <1>1 DEF PlannerTypeOK, JudgeGoal
<1>3. planner_state' \in [Planners -> {"IDLE", "PLANNING"}]
      /\ goal_handle' \in [Planners -> Goals \union OtherGoals \union {NoGoal}]
  BY <1>1 DEF PlannerTypeOK, JudgeGoal
<1>4. answers' \in [Planners -> Seq(Answer)]
  <2>1. \A k \in {"accepted", "rejected"} :
          [kind |-> k, goal |-> g].goal = g /\ (g \in Goals => [kind |-> k, goal |-> g] \in Answer)
    BY DEF Answer
  <2>2. \E k \in {"accepted", "rejected"} : SendAnswer(p, [kind |-> k, goal |-> g])
    BY DEF JudgeGoal
  <2> HIDE DEF g
  <2> QED BY <2>1, <2>2, AnswerType
<1> QED BY <1>2, <1>3, <1>4 DEF PlannerTypeOK

LEMMA FinishType ==
  ASSUME PlannerTypeOK, NEW p \in Planners, NEW t \in Trajectories, Finish(p, t),
         map_requests' \in [Planners -> Nat]
  PROVE  PlannerTypeOK'
<1> DEFINE a == [kind |-> "result", goal |-> goal_handle[p], trajectory |-> t]
<1>1. a.goal \in Goals => a \in Answer
  BY DEF Answer
<1>2. answers' \in [Planners -> Seq(Answer)]
  BY <1>1, AnswerType DEF Finish
<1>3. planner_state' \in [Planners -> {"IDLE", "PLANNING"}]
      /\ goal_handle' \in [Planners -> Goals \union OtherGoals \union {NoGoal}]
      /\ requests' \in [Planners -> Seq(Goals \union OtherGoals)]
  BY DEF PlannerTypeOK, Finish
<1> QED BY <1>2, <1>3 DEF PlannerTypeOK

LEMMA TakeType ==
  ASSUME PlannerTypeOK, NEW p \in Planners, TakeAnswer(p)
  PROVE  PlannerTypeOK' /\ Head(answers[p]) \in Answer
<1>1. Head(answers[p]) \in Answer /\ Tail(answers[p]) \in Seq(Answer)
  BY Taken DEF PlannerTypeOK, TakeAnswer
<1> QED BY <1>1 DEF PlannerTypeOK, TakeAnswer

\* The subroutes of a route in use.
LEMMA SubrouteBounds ==
  ASSUME TypeOK
  PROVE  /\ IsRouteReady <=> route # NoRoute
         /\ IsRouteReady => Len(Subroutes) \in Nat \ {0} /\ current \in 1..Len(Subroutes)
         /\ IsRouteReady => \A k \in 1..Len(Subroutes) :
              [route |-> route, subroute |-> k] \in Goals
         /\ current \in Nat \ {0}
<1>1. route # NoRoute => /\ Subroutes = SubrouteTypes(Segments[route]) /\ Subroutes # <<>>
                         /\ Len(Subroutes) \in Nat \ {0}
  BY RouteHasSubroutes DEF TypeOK, Subroutes
<1>2. route = NoRoute => Subroutes = <<>>
  BY DEF Subroutes
<1>3. IsRouteReady <=> route # NoRoute
  BY <1>1, <1>2 DEF IsRouteReady
<1>4. IsRouteReady => Len(Subroutes) \in Nat \ {0} /\ current \in 1..Len(Subroutes)
  BY <1>1, <1>3 DEF TypeOK
<1>5. IsRouteReady => \A k \in 1..Len(Subroutes) : [route |-> route, subroute |-> k] \in Goals
  <2> SUFFICES ASSUME IsRouteReady, NEW k \in 1..Len(Subroutes)
               PROVE  [route |-> route, subroute |-> k] \in Goals
    OBVIOUS
  <2>1. route \in Routes
    BY <1>3 DEF TypeOK
  <2> QED BY <1>1, <1>3, <2>1, GoalAssumption
<1>6. current \in Nat \ {0}
  <2>1. ~IsRouteReady => current = 1
    BY DEF TypeOK
  <2> QED BY <1>4, <2>1
<1> QED BY <1>3, <1>4, <1>5, <1>6

\* get_trajectory keeps the selection among the legs.
LEMMA AdvanceType ==
  ASSUME legs \in Seq(Directions), NEW leg \in 1..Len(legs), NEW e
  PROVE  Advance(leg, e) \in 1..Len(legs)
  BY DEF Advance

\* on_ego_state changes nothing but what a request, a selection and an output change.
LEMMA MaybeRequestEffect ==
  ASSUME TypeOK, IsRouteReady, NEW e, MaybeRequest(e)
  PROVE  \/ UNCHANGED <<plannerVars, current, exchange>>
         \/ \E k \in current..Len(Subroutes) : ~requesting /\ RequestTrajectory(k)
<1>1. NextSubroute \in current..Len(Subroutes) /\ current \in current..Len(Subroutes)
  BY SubrouteBounds DEF NextSubroute
<1> QED BY <1>1 DEF MaybeRequest

LEMMA RequestType ==
  ASSUME TypeOK, IsRouteReady, NEW k \in current..Len(Subroutes), RequestTrajectory(k)
  PROVE  /\ PlannerTypeOK' /\ current' \in 1..Len(Subroutes) /\ requesting' \in BOOLEAN
         /\ lost' \in BOOLEAN
<1>1. k \in 1..Len(Subroutes)
  BY SubrouteBounds
<1>2. [route |-> route, subroute |-> k] \in Goals
  BY <1>1, SubrouteBounds
<1>3. PlannerTypeOK'
  <2>1. CASE Subroutes[k] \in Planners
    BY <1>2, <2>1, SendType DEF TypeOK, RequestTrajectory
  <2>2. CASE Subroutes[k] \notin Planners
    BY <2>2 DEF TypeOK, RequestTrajectory, plannerVars, PlannerTypeOK
  <2> QED BY <2>1, <2>2
<1> QED BY <1>1, <1>3 DEF TypeOK, RequestTrajectory

LEMMA PublishType ==
  ASSUME TypeOK, IsTrajectoryReady, NEW e, PublishTrajectory(e)
  PROVE  /\ selected' \in 1..Len(legs) /\ modify' \in Seq(Outputs)
         /\ published' \in Outputs
<1> DEFINE first  == Advance(selected, e)
           second == Advance(first, e)
           output == IF second \in e.no_velocity THEN "stop" ELSE "leg"
<1>1. selected \in 1..Len(legs) /\ legs \in Seq(Directions)
  BY DEF TypeOK
<1>2. first \in 1..Len(legs)
  BY <1>1, AdvanceType
<1>3. second \in 1..Len(legs)
  <2> HIDE DEF first
  <2> QED BY <1>1, <1>2, AdvanceType
<1>4. output \in Outputs /\ "stop" \in Outputs
  BY DEF Outputs
<1>5. Append(modify, output) \in Seq(Outputs)
  <2> HIDE DEF output
  <2> QED BY <1>4, Appended DEF TypeOK
<1>6. \/ selected' = first /\ published' = "stop" /\ modify' = modify
      \/ selected' = second /\ modify' = Append(modify, output) /\ published' = published
      \/ selected' = second /\ published' = output /\ modify' = modify
  BY DEF PublishTrajectory
<1> HIDE DEF first, second, output
<1> QED BY <1>2, <1>3, <1>4, <1>5, <1>6 DEF TypeOK

\* The costmap generator and the messages it exchanges with the planner.
LEMMA CostmapType ==
  ASSUME TypeOK, GeneratorWaits,
         \/ HandleCostmapGoal
         \/ CostmapMapResponse
         \/ \E a \in CostmapAnswers : TakeCostmapAnswer(a)
         \/ \E c \in Clients : /\ costmap_requests' = Append(costmap_requests, c)
                               /\ UNCHANGED <<generator, generating_for, costmap_maps,
                                              costmap_answers>>
         \/ UNCHANGED costmapVars
  PROVE  CostmapTypeOK' /\ GeneratorWaits'
<1> USE DEF TypeOK, CostmapTypeOK, GeneratorWaits
<1>0. \A a \in CostmapAnswers : \A c :
        AnswerClient(c, a) => costmap_answers' \in Seq(CostmapAnswers)
  BY Appended DEF AnswerClient
<1>1. CASE HandleCostmapGoal
  <2>1. Head(costmap_requests) \in Clients /\ Tail(costmap_requests) \in Seq(Clients)
    BY <1>1, Taken DEF HandleCostmapGoal
  <2>2. costmap_answers' \in Seq(CostmapAnswers)
    BY <1>0, <1>1 DEF HandleCostmapGoal, CostmapAnswers
  <2> QED BY <1>1, <2>1, <2>2 DEF HandleCostmapGoal
<1>2. CASE CostmapMapResponse
  <2>1. costmap_answers' \in Seq(CostmapAnswers)
    BY <1>0, <1>2 DEF CostmapMapResponse, CostmapAnswers
  <2> QED BY <1>2, <2>1 DEF CostmapMapResponse
<1>3. CASE \E a \in CostmapAnswers : TakeCostmapAnswer(a)
  <2>1. Tail(costmap_answers) \in Seq(CostmapAnswers)
    BY <1>3, Taken DEF TakeCostmapAnswer
  <2> QED BY <1>3, <2>1 DEF TakeCostmapAnswer
<1>4. CASE \E c \in Clients : /\ costmap_requests' = Append(costmap_requests, c)
                              /\ UNCHANGED <<generator, generating_for, costmap_maps,
                                             costmap_answers>>
  <2>1. costmap_requests' \in Seq(Clients)
    BY <1>4, Appended
  <2> QED BY <1>4, <2>1
<1>5. CASE UNCHANGED costmapVars
  BY <1>5 DEF costmapVars
<1> QED BY <1>1, <1>2, <1>3, <1>4, <1>5

\* The variables of the node itself.
NodeTypeOK ==
  /\ m_route \in Routes \union {NoRoute}
  /\ route \in Routes \union {NoRoute}
  /\ current \in 1..(IF IsRouteReady THEN Len(Subroutes) ELSE 1)
  /\ legs \in Seq(Directions)
  /\ selected \in 1..(IF IsTrajectoryReady THEN Len(legs) ELSE 1)
  /\ complete \in BOOLEAN
  /\ requesting \in BOOLEAN
  /\ stopped \in BOOLEAN
  /\ current_gear \in Gears
  /\ estimator \in BOOLEAN
  /\ map_replies \in 0..MaxMapReplies
  /\ modify \in Seq(Outputs)
  /\ published \in Outputs
  /\ foreign \in 0..MaxForeign
  /\ planned_for \in Goals \union {NoGoal}
  /\ swapped \in BOOLEAN
  /\ lost \in BOOLEAN

LEMMA TypeParts == TypeOK <=> PlannerTypeOK /\ CostmapTypeOK /\ NodeTypeOK
  BY DEF TypeOK, NodeTypeOK

LEMMA InitType == Init => TypeOK /\ GeneratorWaits
<1> SUFFICES ASSUME Init PROVE TypeOK /\ GeneratorWaits
  OBVIOUS
<1>0. \A S : <<>> \in Seq(S)
  OBVIOUS
<1>1. PlannerTypeOK
  BY <1>0, PlannerAssumption DEF Init, PlannerInit, PlannerTypeOK
<1>2. CostmapTypeOK /\ GeneratorWaits
  BY <1>0 DEF Init, CostmapInit, CostmapTypeOK, GeneratorWaits
<1>3. Subroutes = <<>> /\ ~IsRouteReady /\ ~IsTrajectoryReady
  BY DEF Init, Subroutes, IsRouteReady, IsTrajectoryReady
<1>4. NodeTypeOK
  <2>1. /\ current \in 1..(IF IsRouteReady THEN Len(Subroutes) ELSE 1)
        /\ selected \in 1..(IF IsTrajectoryReady THEN Len(legs) ELSE 1)
        /\ map_replies \in 0..MaxMapReplies /\ foreign \in 0..MaxForeign
    BY <1>3, BoundsAssumption DEF Init
  <2>2. legs \in Seq(Directions) /\ modify \in Seq(Outputs) /\ published \in Outputs
    BY <1>0 DEF Init, Outputs
  <2>3. requesting \in BOOLEAN
    BY StartAssumption DEF Init
  <2> QED BY <2>1, <2>2, <2>3, Zenon DEF Init, NodeTypeOK
<1> QED BY <1>1, <1>2, <1>4, TypeParts

\* Every step but those of the node's own callbacks leaves the node alone.
LEMMA NodeRests ==
  ASSUME TypeOK, OthersRest
  PROVE  NodeTypeOK'
  BY Zenon DEF TypeOK, OthersRest, NodeTypeOK, planner, exchange, io, fixed, Subroutes, IsRouteReady,
         IsTrajectoryReady

\* The planners and the costmap generator by themselves.
LEMMA LaneType == TypeOK /\ LaneStep => PlannerTypeOK'
<1> SUFFICES ASSUME TypeOK, LaneStep PROVE PlannerTypeOK'
  OBVIOUS
<1>0. PlannerTypeOK /\ "LANE" \in Planners
  BY PlannersAssumption DEF TypeOK
<1>1. CASE HandleGoal("LANE")
  BY <1>0, <1>1, JudgeType, SMTT(20) DEF HandleGoal, PlannerTypeOK
<1>2. CASE PlanTrajectory("LANE")
  <2>1. map_requests' \in [Planners -> Nat]
    BY <1>0, <1>2 DEF PlanTrajectory, PlannerTypeOK
  <2> QED BY <1>0, <1>2, <2>1, PlannersFinish, FinishType
<1> QED BY <1>1, <1>2 DEF LaneStep

LEMMA ParkingType ==
  TypeOK /\ GeneratorWaits /\ ParkingStep => PlannerTypeOK' /\ CostmapTypeOK' /\ GeneratorWaits'
<1> SUFFICES ASSUME TypeOK, GeneratorWaits, ParkingStep
             PROVE  PlannerTypeOK' /\ CostmapTypeOK' /\ GeneratorWaits'
  OBVIOUS
<1>0. PlannerTypeOK /\ "PARKING" \in Planners
  BY PlannersAssumption DEF TypeOK
<1>1. CASE HandleParkingGoal
  <2>1. PlannerTypeOK'
    BY <1>0, <1>1, JudgeType DEF HandleParkingGoal, PlannerTypeOK
  <2>2. \/ UNCHANGED costmapVars
        \/ \E c \in Clients : /\ costmap_requests' = Append(costmap_requests, c)
                              /\ UNCHANGED <<generator, generating_for, costmap_maps,
                                             costmap_answers>>
    BY <1>1 DEF HandleParkingGoal, Clients, costmapVars
  <2> QED BY <2>1, <2>2, CostmapType
<1>2. ASSUME NEW a \in CostmapAnswers, TakeCostmapAnswer(a),
             UNCHANGED plannerVars \/ \E t \in Trajectories : EndPlanning(t)
      PROVE  PlannerTypeOK' /\ CostmapTypeOK' /\ GeneratorWaits'
  <2>1. PlannerTypeOK'
    <3>1. CASE UNCHANGED plannerVars
      BY <1>0, <3>1 DEF plannerVars, PlannerTypeOK
    <3>2. CASE \E t \in Trajectories : EndPlanning(t)
      <4>1. map_requests' \in [Planners -> Nat]
        BY <1>0, <3>2 DEF EndPlanning, PlannerTypeOK
      <4> QED BY <1>0, <3>2, <4>1, PlannersFinish, FinishType
    <3> QED BY <1>2, <3>1, <3>2
  <2> QED BY <1>2, <2>1, CostmapType
<1>3. CASE CostmapGoalResponse
  BY <1>2, <1>3, PlannerAssumption DEF CostmapGoalResponse, CostmapAnswers
<1>4. CASE CostmapResult
  BY <1>2, <1>4 DEF CostmapResult, CostmapAnswers
<1> QED BY <1>1, <1>3, <1>4 DEF ParkingStep

\* The vehicle state keeps the types of the node and of the planner it may ask.
LEMMA EgoType == TypeOK /\ OnEgoState => PlannerTypeOK' /\ NodeTypeOK'
<1> SUFFICES ASSUME TypeOK, OnEgoState PROVE PlannerTypeOK' /\ NodeTypeOK'
  OBVIOUS
<1>1. PICK e \in EgoStates :
        /\ stopped' = e.stopped
        /\ \/ /\ ~IsRouteReady
              /\ UNCHANGED <<plannerVars, current, exchange, selected, io>>
           \/ /\ IsRouteReady
              /\ MaybeRequest(e)
              /\ \/ /\ ~IsTrajectoryReady
                    /\ UNCHANGED <<selected, io>>
                 \/ /\ IsTrajectoryReady
                    /\ PublishTrajectory(e)
  BY DEF OnEgoState
<1>2. stopped' \in BOOLEAN
  BY <1>1 DEF EgoStates
<1>3. UNCHANGED <<m_route, route, legs, complete, planned_for, current_gear, map_replies,
                  foreign, swapped, estimator>>
  BY DEF OnEgoState, fixed
<1>4. /\ PlannerTypeOK'
      /\ current' \in 1..(IF IsRouteReady THEN Len(Subroutes) ELSE 1)
      /\ requesting' \in BOOLEAN /\ lost' \in BOOLEAN
  <2>1. CASE UNCHANGED <<plannerVars, current, exchange>>
    BY <2>1, Zenon DEF TypeOK, PlannerTypeOK, plannerVars, exchange
  <2>2. CASE IsRouteReady /\ MaybeRequest(e)
    BY <2>1, <2>2, MaybeRequestEffect, RequestType
  <2> QED BY <1>1, <2>1, <2>2
<1>5. /\ selected' \in 1..(IF IsTrajectoryReady THEN Len(legs) ELSE 1)
      /\ modify' \in Seq(Outputs) /\ published' \in Outputs
  <2>1. CASE UNCHANGED <<selected, io>>
    BY <2>1, Zenon DEF TypeOK, io
  <2>2. CASE IsTrajectoryReady /\ PublishTrajectory(e)
    BY <2>2, PublishType
  <2> QED BY <1>1, <2>1, <2>2
<1>6. (IsRouteReady <=> IsRouteReady') /\ Subroutes' = Subroutes /\ IsTrajectoryReady' = IsTrajectoryReady
  BY <1>3 DEF IsRouteReady, Subroutes, IsTrajectoryReady
<1>7. NodeTypeOK'
  <2>1. /\ m_route \in Routes \union {NoRoute} /\ route \in Routes \union {NoRoute}
        /\ legs \in Seq(Directions) /\ complete \in BOOLEAN /\ current_gear \in Gears
        /\ estimator \in BOOLEAN /\ map_replies \in 0..MaxMapReplies
        /\ foreign \in 0..MaxForeign /\ planned_for \in Goals \union {NoGoal}
        /\ swapped \in BOOLEAN
    BY DEF TypeOK
  <2>2. /\ current' \in 1..(IF IsRouteReady' THEN Len(Subroutes') ELSE 1)
        /\ selected' \in 1..(IF IsTrajectoryReady' THEN Len(legs') ELSE 1)
    BY <1>3, <1>4, <1>5, <1>6
  <2> QED BY <1>2, <1>3, <1>4, <1>5, <2>1, <2>2, Zenon DEF NodeTypeOK
<1> QED BY <1>4, <1>7

\* The other callbacks of the node.
CallbackStep ==
  \/ OnGearReport \/ OnRoute \/ MapResponse \/ ModifyTrajectoryResponse
  \/ \E p \in Planners : GoalResponseCallback(p) \/ ResultCallback(p)

LEMMA CallbackType == TypeOK /\ CallbackStep => PlannerTypeOK' /\ NodeTypeOK'
<1> SUFFICES ASSUME TypeOK, CallbackStep PROVE PlannerTypeOK' /\ NodeTypeOK'
  OBVIOUS
<1>0. PlannerTypeOK /\ NodeTypeOK
  BY TypeParts
<1> DEFINE SameRoute == UNCHANGED <<route, current>>
           SameLegs == UNCHANGED <<legs, selected>>
<1>a. SameRoute => current' \in 1..(IF IsRouteReady' THEN Len(Subroutes') ELSE 1)
  BY <1>0, Zenon DEF NodeTypeOK, IsRouteReady, Subroutes
<1>b. SameLegs => selected' \in 1..(IF IsTrajectoryReady' THEN Len(legs') ELSE 1)
  BY <1>0, Zenon DEF NodeTypeOK, IsTrajectoryReady
<1>1. CASE OnGearReport
  <2>1. PlannerTypeOK'
    BY <1>0, <1>1, Zenon DEF OnGearReport, parkingVars, plannerVars, PlannerTypeOK
  <2> QED BY <1>0, <1>1, <1>a, <1>b, <2>1, Zenon
        DEF OnGearReport, NodeTypeOK, planner, exchange, io, fixed
<1>2. CASE OnRoute
  <2>1. PlannerTypeOK'
    BY <1>0, <1>2, Zenon DEF OnRoute, parkingVars, plannerVars, PlannerTypeOK
  <2>2. map_replies' \in 0..MaxMapReplies
    BY <1>0, <1>2, BoundsAssumption DEF OnRoute, NodeTypeOK
  <2> QED BY <1>0, <1>2, <1>a, <1>b, <2>1, <2>2, Zenon
        DEF OnRoute, NodeTypeOK, planner, exchange, io, fixed
<1>3. CASE MapResponse
  <2>1. PlannerTypeOK'
    BY <1>0, <1>3, Zenon DEF MapResponse, parkingVars, plannerVars, PlannerTypeOK
  <2>2. map_replies' \in 0..MaxMapReplies
    BY <1>0, <1>3, BoundsAssumption DEF MapResponse, NodeTypeOK
  <2>3. route' = m_route /\ current' = 1 /\ legs' = <<>> /\ selected' = 1 /\ planned_for' = NoGoal
    BY <1>3 DEF MapResponse, ClearTrajectory
  <2>4. current' \in 1..(IF IsRouteReady' THEN Len(Subroutes') ELSE 1)
    <3>1. m_route # NoRoute => Len(SubrouteTypes(Segments[m_route])) \in Nat \ {0}
      BY <1>0, RouteHasSubroutes DEF NodeTypeOK
    <3>2. IsRouteReady' => Len(Subroutes') \in Nat \ {0}
      <4>1. m_route = NoRoute => ~IsRouteReady'
        BY <2>3 DEF IsRouteReady, Subroutes
      <4>2. m_route # NoRoute => Subroutes' = SubrouteTypes(Segments[m_route])
        BY <2>3 DEF Subroutes
      <4> QED BY <3>1, <4>1, <4>2
    <3> QED BY <2>3, <3>2
  <2>5. selected' \in 1..(IF IsTrajectoryReady' THEN Len(legs') ELSE 1)
    BY <2>3 DEF IsTrajectoryReady
  <2>6. legs' \in Seq(Directions)
    BY <2>3
  <2>7. swapped' \in BOOLEAN
    BY <1>0, <1>3 DEF MapResponse, NodeTypeOK
  <2> QED BY <1>0, <1>3, <2>1, <2>2, <2>3, <2>4, <2>5, <2>6, <2>7, Zenon
        DEF MapResponse, NodeTypeOK, exchange, io, fixed
<1>4. CASE ModifyTrajectoryResponse
  <2>1. PlannerTypeOK'
    BY <1>0, <1>4, Zenon DEF ModifyTrajectoryResponse, parkingVars, plannerVars, PlannerTypeOK
  <2>2. modify' \in Seq(Outputs) /\ published' \in Outputs
    BY <1>0, <1>4, Taken DEF ModifyTrajectoryResponse, NodeTypeOK, Outputs
  <2> QED BY <1>0, <1>4, <1>a, <1>b, <2>1, <2>2, Zenon
        DEF ModifyTrajectoryResponse, NodeTypeOK, planner, exchange, fixed
<1>5. ASSUME NEW p \in Planners, GoalResponseCallback(p)
      PROVE  PlannerTypeOK' /\ NodeTypeOK'
  <2>1. PlannerTypeOK'
    BY <1>0, <1>5, TakeType DEF GoalResponseCallback
  <2>2. requesting' \in BOOLEAN /\ lost' \in BOOLEAN
    BY <1>0, <1>5 DEF GoalResponseCallback, NodeTypeOK
  <2> QED BY <1>0, <1>5, <1>a, <1>b, <2>1, <2>2, Zenon
        DEF GoalResponseCallback, NodeTypeOK, planner, io, fixed
<1>6. ASSUME NEW p \in Planners, ResultCallback(p)
      PROVE  PlannerTypeOK' /\ NodeTypeOK'
  <2> DEFINE a == Head(answers[p])
  <2>1. PlannerTypeOK' /\ a \in Answer /\ a.kind = "result"
    BY <1>0, <1>6, TakeType DEF ResultCallback
  <2>2. a.trajectory \in Trajectories /\ a.goal \in Goals
    BY <2>1 DEF Answer
  <2>3. /\ legs' \in Seq(Directions) /\ complete' \in BOOLEAN
        /\ planned_for' \in Goals \union {NoGoal}
        /\ selected' \in 1..(IF IsTrajectoryReady' THEN Len(legs') ELSE 1)
    <3>0. SetTrajectory(a.trajectory, a.goal)
      BY <1>6 DEF ResultCallback
    <3> HIDE DEF a
    <3>1. CASE a.trajectory = NoTrajectory
      BY <1>0, <1>b, <3>0, <3>1 DEF SetTrajectory, NodeTypeOK
    <3>2. CASE a.trajectory # NoTrajectory
      <4>1. /\ a.trajectory.legs \in Seq(Directions) \ {<<>>}
            /\ a.trajectory.reaches_goal \in BOOLEAN
        BY <2>2, <3>2, TrajectoryAssumption
      <4>2. /\ legs' = a.trajectory.legs /\ selected' = 1 /\ planned_for' = a.goal
            /\ complete' \in BOOLEAN
        BY <3>0, <3>2, <4>1 DEF SetTrajectory
      <4>3. Len(legs') \in Nat \ {0}
        BY <4>1, <4>2
      <4> QED BY <2>2, <4>1, <4>2, <4>3
    <3> QED BY <3>1, <3>2
  <2> QED BY <1>0, <1>6, <1>a, <2>1, <2>3, Zenon
        DEF ResultCallback, NodeTypeOK, io, fixed
<1> QED BY <1>1, <1>2, <1>3, <1>4, <1>5, <1>6 DEF CallbackStep

\* Type correctness is inductive, with the one map request of the generator.
LEMMA TypeStep ==
  TypeOK /\ GeneratorWaits /\ [Next]_vars => TypeOK' /\ GeneratorWaits'
<1> SUFFICES ASSUME TypeOK, GeneratorWaits, [Next]_vars PROVE TypeOK' /\ GeneratorWaits'
  OBVIOUS
<1>0. PlannerTypeOK /\ CostmapTypeOK /\ NodeTypeOK
  BY TypeParts
<1>t. PlannerTypeOK' /\ CostmapTypeOK' /\ NodeTypeOK' => TypeOK'
  BY DEF TypeOK, NodeTypeOK
<1>p. UNCHANGED plannerVars => PlannerTypeOK'
  BY <1>0, Zenon DEF plannerVars, PlannerTypeOK
<1>1. CASE OnEgoState
  BY <1>1, EgoType, CostmapType, <1>t DEF OnEgoState
<1>2. CASE CallbackStep
  <2>1. UNCHANGED costmapVars
    BY <1>2 DEF CallbackStep, OnGearReport, OnRoute, MapResponse, ModifyTrajectoryResponse,
                GoalResponseCallback, ResultCallback, TakeAnswer, parkingVars
  <2> QED BY <1>2, <2>1, CallbackType, CostmapType, <1>t
<1>3. ASSUME NEW p \in Planners, SendForeignGoal(p)
      PROVE  TypeOK' /\ GeneratorWaits'
  <2>1. PlannerTypeOK'
    BY <1>0, <1>3, SendType DEF SendForeignGoal
  <2>2. foreign' \in 0..MaxForeign
    BY <1>0, <1>3, BoundsAssumption DEF SendForeignGoal, NodeTypeOK
  <2>3. NodeTypeOK'
    BY <1>0, <1>3, <2>2, Zenon DEF SendForeignGoal, NodeTypeOK, planner, exchange, io, fixed,
        Subroutes, IsRouteReady, IsTrajectoryReady
  <2> QED BY <1>3, <2>1, <2>3, CostmapType, <1>t DEF SendForeignGoal
<1>4. CASE SendForeignCostmapGoal
  <2>1. foreign' \in 0..MaxForeign
    BY <1>0, <1>4, BoundsAssumption DEF SendForeignCostmapGoal, NodeTypeOK
  <2>2. NodeTypeOK'
    BY <1>0, <1>4, <2>1, Zenon DEF SendForeignCostmapGoal, NodeTypeOK, planner, exchange, io,
        fixed, Subroutes, IsRouteReady, IsTrajectoryReady
  <2>3. CostmapTypeOK' /\ GeneratorWaits'
    BY <1>4, CostmapType DEF SendForeignCostmapGoal, Clients
  <2> QED BY <1>4, <1>p, <2>2, <2>3, <1>t DEF SendForeignCostmapGoal
<1>5. CASE LaneStep
  BY <1>5, LaneType, NodeRests, CostmapType, <1>t DEF LaneStep
<1>6. CASE ParkingStep
  BY <1>6, ParkingType, NodeRests, <1>t DEF ParkingStep
<1>7. CASE CostmapStep
  <2>1. UNCHANGED plannerVars
    BY <1>7 DEF CostmapStep, HandleCostmapGoal, CostmapMapResponse
  <2> QED BY <1>7, <1>p, <2>1, NodeRests, CostmapType, <1>t DEF CostmapStep
<1>8. CASE UNCHANGED vars
  <2>1. OthersRest /\ UNCHANGED plannerVars /\ UNCHANGED costmapVars
    BY <1>8 DEF vars, OthersRest, parkingVars
  <2> QED BY <1>p, <2>1, NodeRests, CostmapType, <1>t
<1> QED BY <1>1, <1>2, <1>3, <1>4, <1>5, <1>6, <1>7, <1>8 DEF Next, CallbackStep

-----------------------------------------------------------------------------
(* The exchange with the planners.                                         *)

\* Nothing happens at planner q.
SameAt(q) ==
  /\ planner_state'[q] = planner_state[q] /\ goal_handle'[q] = goal_handle[q]
  /\ requests'[q] = requests[q] /\ answers'[q] = answers[q]

IdleHasNoGoal(p) == planner_state[p] = "IDLE" => goal_handle[p] = NoGoal

\* What one planner has of this node is kept, and nothing is added.
Keeps(p) ==
  /\ IdleHasNoGoal(p)'
  /\ Quiet(p) => Quiet(p)'
  /\ Busy(p) => Busy(p)'

LEMMA SameKeeps ==
  ASSUME NEW q, SameAt(q), IdleHasNoGoal(q)
  PROVE  Keeps(q)
  BY DEF SameAt, IdleHasNoGoal, Keeps, Quiet, Busy, Waiting, Planning, Answered, NoneWaits,
         OneWaits

\* A planner is either quiet or busy, never both.
LEMMA QuietIsNotBusy ==
  ASSUME NEW p, Quiet(p)
  PROVE  ~Busy(p)
<1>1. Len(answers[p]) = 0
  BY DEF Quiet
<1> QED BY <1>1 DEF Quiet, Busy, Waiting, Planning, Answered, NoneWaits, OneWaits

\* An answer for a goal of this node is put behind the others.
LEMMA AnswerEffect ==
  ASSUME PlannerTypeOK, NEW p \in Planners, NEW a, a.goal \in Goals => a \in Answer,
         SendAnswer(p, a)
  PROVE  /\ a.goal \notin Goals => answers' = answers
         /\ a.goal \in Goals =>
              /\ Len(answers[p]) \in Nat /\ Len(answers'[p]) = Len(answers[p]) + 1
              /\ answers'[p][Len(answers[p]) + 1] = a
              /\ \A i \in 1..Len(answers[p]) : answers'[p][i] = answers[p][i]
         /\ \A q \in Planners \ {p} : answers'[q] = answers[q]
<1>1. answers[p] \in Seq(Answer) /\ answers \in [Planners -> Seq(Answer)]
  BY DEF PlannerTypeOK
<1>2. CASE a.goal \notin Goals
  BY <1>2 DEF SendAnswer
<1>3. CASE a.goal \in Goals
  <2>1. answers' = [answers EXCEPT ![p] = Append(answers[p], a)]
    BY <1>3 DEF SendAnswer
  <2>2. answers'[p] = Append(answers[p], a)
    BY <1>1, <2>1
  <2>3. \A q \in Planners \ {p} : answers'[q] = answers[q]
    BY <1>1, <2>1
  <2> QED BY <1>1, <1>3, <2>2, <2>3, Appended
<1> QED BY <1>2, <1>3

\* handle_goal takes the first goal of the queue and answers it, if it is one of
\* this node: the goal moves on, or it is refused.
LEMMA JudgeKeeps ==
  ASSUME PlannerTypeOK, NEW p \in Planners, JudgeGoal(p), IdleHasNoGoal(p)
  PROVE  Keeps(p) /\ \A q \in Planners \ {p} : SameAt(q)
<1> DEFINE g == requests[p][1]
<1>1. /\ requests[p] \in Seq(Goals \union OtherGoals) /\ requests[p] # <<>>
      /\ requests' = [requests EXCEPT ![p] = Tail(requests[p])]
      /\ requests \in [Planners -> Seq(Goals \union OtherGoals)]
      /\ planner_state \in [Planners -> {"IDLE", "PLANNING"}]
      /\ goal_handle \in [Planners -> Goals \union OtherGoals \union {NoGoal}]
  BY DEF JudgeGoal, PlannerTypeOK
<1>2. /\ Head(requests[p]) = g /\ g \in Goals \union OtherGoals
      /\ Len(requests[p]) \in Nat \ {0} /\ Len(requests'[p]) = Len(requests[p]) - 1
      /\ \A i \in 1..(Len(requests[p]) - 1) : requests'[p][i] = requests[p][i + 1]
      /\ \A q \in Planners \ {p} : requests'[q] = requests[q]
  BY <1>1, Taken
<1>3. ASSUME NEW k \in {"accepted", "rejected"}, SendAnswer(p, [kind |-> k, goal |-> g])
      PROVE  /\ g \notin Goals => answers' = answers
             /\ g \in Goals =>
                  /\ Len(answers[p]) \in Nat /\ Len(answers'[p]) = Len(answers[p]) + 1
                  /\ answers'[p][Len(answers[p]) + 1].kind = k
             /\ \A q \in Planners \ {p} : answers'[q] = answers[q]
  <2> DEFINE a == [kind |-> k, goal |-> g]
  <2>1. a.goal = g /\ a.kind = k /\ (g \in Goals => a \in Answer)
    BY DEF Answer
  <2>2. SendAnswer(p, a)
    BY <1>3
  <2> HIDE DEF a
  <2> QED BY <2>1, <2>2, AnswerEffect
<1>4. \/ /\ planner_state[p] = "PLANNING" /\ SendAnswer(p, [kind |-> "rejected", goal |-> g])
         /\ UNCHANGED <<planner_state, goal_handle>>
      \/ /\ planner_state[p] = "IDLE" /\ SendAnswer(p, [kind |-> "accepted", goal |-> g])
         /\ planner_state' = [planner_state EXCEPT ![p] = "PLANNING"]
         /\ goal_handle' = [goal_handle EXCEPT ![p] = g]
  BY <1>2 DEF JudgeGoal
<1>5. \A q \in Planners \ {p} : SameAt(q)
  BY <1>1, <1>2, <1>3, <1>4 DEF SameAt
<1>6. IdleHasNoGoal(p)'
  BY <1>1, <1>4 DEF IdleHasNoGoal
<1>7. ASSUME g \in Goals
      PROVE  ~Quiet(p) /\ (Busy(p) => Busy(p)')
  <2>1. ~NoneWaits(p)
    BY <1>2, <1>7 DEF NoneWaits
  <2>2. SUFFICES ASSUME Waiting(p) PROVE Busy(p)'
    BY <2>1 DEF Quiet, Busy, Planning, Answered
  <2>3. goal_handle[p] \notin Goals /\ Len(answers[p]) = 0
    BY <2>2 DEF Waiting
  <2>4. \A j \in 1..Len(requests[p]) : requests[p][j] \in Goals => j = 1
    BY <1>2, <1>7, <2>2 DEF Waiting, OneWaits
  <2>5. NoneWaits(p)'
    <3> SUFFICES ASSUME NEW j \in 1..Len(requests'[p]) PROVE requests'[p][j] \notin Goals
      BY DEF NoneWaits
    <3>1. requests'[p][j] = requests[p][j + 1] /\ j + 1 \in 1..Len(requests[p]) /\ j + 1 # 1
      BY <1>2
    <3> QED BY <2>4, <3>1
  <2>6. Len(answers'[p]) = 1
    BY <1>3, <1>4, <1>7, <2>3
  <2>7. CASE planner_state[p] = "PLANNING"
    <3>1. answers'[p][1].kind = "rejected" /\ goal_handle'[p] \notin Goals
      BY <1>3, <1>4, <1>7, <2>3, <2>7
    <3> QED BY <2>5, <2>6, <3>1 DEF Busy, Answered
  <2>8. CASE planner_state[p] = "IDLE"
    <3>1. answers'[p][1].kind = "accepted" /\ goal_handle'[p] \in Goals
      BY <1>1, <1>3, <1>4, <1>7, <2>3, <2>8
    <3> QED BY <2>5, <2>6, <3>1 DEF Busy, Planning
  <2> QED BY <1>1, <2>7, <2>8
<1>8. ASSUME g \notin Goals
      PROVE  (Quiet(p) => Quiet(p)') /\ (Busy(p) => Busy(p)')
  <2>1. answers' = answers
    BY <1>3, <1>4, <1>8
  <2>2. NoneWaits(p) => NoneWaits(p)'
    <3> SUFFICES ASSUME NoneWaits(p), NEW j \in 1..Len(requests'[p])
                 PROVE  requests'[p][j] \notin Goals
      BY DEF NoneWaits
    <3>1. requests'[p][j] = requests[p][j + 1] /\ j + 1 \in 1..Len(requests[p])
      BY <1>2
    <3> QED BY <3>1 DEF NoneWaits
  <2>3. OneWaits(p) => OneWaits(p)'
    <3> SUFFICES ASSUME OneWaits(p) PROVE OneWaits(p)'
      OBVIOUS
    <3>1. PICK i \in 1..Len(requests[p]) :
            /\ requests[p][i] \in Goals
            /\ \A j \in 1..Len(requests[p]) : requests[p][j] \in Goals => j = i
      BY DEF OneWaits
    <3>2. i # 1 /\ i - 1 \in 1..Len(requests'[p]) /\ requests'[p][i - 1] = requests[p][i]
      BY <1>2, <1>8, <3>1
    <3>3. \A j \in 1..Len(requests'[p]) : requests'[p][j] \in Goals => j = i - 1
      <4> SUFFICES ASSUME NEW j \in 1..Len(requests'[p]), requests'[p][j] \in Goals
                   PROVE  j = i - 1
        OBVIOUS
      <4>1. requests'[p][j] = requests[p][j + 1] /\ j + 1 \in 1..Len(requests[p])
        BY <1>2
      <4> QED BY <3>1, <4>1
    <3> QED BY <3>1, <3>2, <3>3 DEF OneWaits
  <2>4. /\ goal_handle[p] \in Goals => goal_handle'[p] = goal_handle[p]
        /\ goal_handle[p] \notin Goals => goal_handle'[p] \notin Goals
    BY <1>1, <1>4, <1>8, PlannerAssumption DEF IdleHasNoGoal
  <2>5. Quiet(p) => Quiet(p)'
    BY <2>1, <2>2, <2>4 DEF Quiet
  <2>6. Waiting(p) => Waiting(p)'
    BY <2>1, <2>3, <2>4 DEF Waiting
  <2>7. Planning(p) => Planning(p)'
    BY <2>1, <2>2, <2>4 DEF Planning
  <2>8. Answered(p) => Answered(p)'
    BY <2>1, <2>2, <2>4 DEF Answered
  <2> QED BY <2>5, <2>6, <2>7, <2>8 DEF Busy
<1> QED BY <1>5, <1>6, <1>7, <1>8 DEF Keeps

\* A planner that finishes answers the goal of this node, if it was planning for one.
LEMMA FinishKeeps ==
  ASSUME PlannerTypeOK, NEW p \in Planners, NEW t \in Trajectories, Finish(p, t),
         IdleHasNoGoal(p)
  PROVE  Keeps(p) /\ \A q \in Planners \ {p} : SameAt(q)
<1> DEFINE a == [kind |-> "result", goal |-> goal_handle[p], trajectory |-> t]
<1>1. a.goal = goal_handle[p] /\ a.kind = "result" /\ (a.goal \in Goals => a \in Answer)
  BY DEF Answer
<1>2. SendAnswer(p, a)
  BY DEF Finish
<1>3. /\ goal_handle[p] \notin Goals => answers' = answers
      /\ goal_handle[p] \in Goals =>
           /\ Len(answers[p]) \in Nat /\ Len(answers'[p]) = Len(answers[p]) + 1
           /\ answers'[p][Len(answers[p]) + 1].kind = "result"
           /\ \A i \in 1..Len(answers[p]) : answers'[p][i] = answers[p][i]
      /\ \A q \in Planners \ {p} : answers'[q] = answers[q]
  <2> HIDE DEF a
  <2> QED BY <1>1, <1>2, AnswerEffect
<1>4. /\ requests' = requests /\ goal_handle'[p] = NoGoal /\ NoGoal \notin Goals
      /\ \A q \in Planners \ {p} :
           planner_state'[q] = planner_state[q] /\ goal_handle'[q] = goal_handle[q]
  BY PlannerAssumption DEF Finish, PlannerTypeOK
<1>5. \A q \in Planners \ {p} : SameAt(q)
  BY <1>3, <1>4 DEF SameAt
<1>6. (NoneWaits(p) => NoneWaits(p)') /\ (OneWaits(p) => OneWaits(p)')
  BY <1>4 DEF NoneWaits, OneWaits
<1>7. Planning(p) => Answered(p)'
  <2> SUFFICES ASSUME Planning(p) PROVE Answered(p)'
    OBVIOUS
  <2>1. CASE Len(answers[p]) = 0
    BY <1>3, <1>4, <1>6, <2>1 DEF Planning, Answered
  <2>2. CASE Len(answers[p]) = 1
    <3>1. Len(answers'[p]) = 2 /\ answers'[p][1].kind = "accepted" /\ answers'[p][2].kind = "result"
      BY <1>3, <2>2 DEF Planning
    <3> QED BY <1>4, <1>6, <3>1 DEF Planning, Answered
  <2> QED BY <2>1, <2>2 DEF Planning
<1>8. Quiet(p) => Quiet(p)'
  BY <1>3, <1>4, <1>6 DEF Quiet
<1>9. Waiting(p) => Waiting(p)'
  BY <1>3, <1>4, <1>6 DEF Waiting
<1>10. Answered(p) => Answered(p)'
  BY <1>3, <1>4, <1>6 DEF Answered
<1> QED BY <1>4, <1>5, <1>7, <1>8, <1>9, <1>10 DEF Keeps, Busy, IdleHasNoGoal

\* A goal that is not of this node, put into a queue, changes nothing for it.
LEMMA ForeignKeeps ==
  ASSUME PlannerTypeOK, NEW p \in Planners, NEW g \in OtherGoals, SendGoal(p, g),
         UNCHANGED answers, IdleHasNoGoal(p)
  PROVE  Keeps(p) /\ \A q \in Planners \ {p} : SameAt(q)
<1>1. /\ requests[p] \in Seq(Goals \union OtherGoals)
      /\ requests' = [requests EXCEPT ![p] = Append(requests[p], g)]
      /\ requests \in [Planners -> Seq(Goals \union OtherGoals)]
      /\ UNCHANGED <<planner_state, goal_handle, answers>>
  BY DEF SendGoal, PlannerTypeOK
<1>2. /\ Len(requests[p]) \in Nat /\ Len(requests'[p]) = Len(requests[p]) + 1
      /\ requests'[p][Len(requests[p]) + 1] = g /\ g \notin Goals
      /\ \A i \in 1..Len(requests[p]) : requests'[p][i] = requests[p][i]
      /\ \A q \in Planners \ {p} : requests'[q] = requests[q]
  BY <1>1, Appended, PlannerAssumption
<1>3. \A i \in 1..Len(requests'[p]) :
        requests'[p][i] \in Goals => i \in 1..Len(requests[p])
  BY <1>2
<1>4. NoneWaits(p) => NoneWaits(p)'
  BY <1>2, <1>3 DEF NoneWaits
<1>5. OneWaits(p) => OneWaits(p)'
  <2> SUFFICES ASSUME OneWaits(p) PROVE OneWaits(p)'
    OBVIOUS
  <2>1. PICK i \in 1..Len(requests[p]) :
          /\ requests[p][i] \in Goals
          /\ \A j \in 1..Len(requests[p]) : requests[p][j] \in Goals => j = i
    BY DEF OneWaits
  <2>2. i \in 1..Len(requests'[p]) /\ requests'[p][i] \in Goals
    BY <1>2, <2>1
  <2>3. \A j \in 1..Len(requests'[p]) : requests'[p][j] \in Goals => j = i
    BY <1>2, <1>3, <2>1
  <2> QED BY <2>2, <2>3 DEF OneWaits
<1>6. \A q \in Planners \ {p} : SameAt(q)
  BY <1>1, <1>2 DEF SameAt
<1> QED BY <1>1, <1>4, <1>5, <1>6
      DEF Keeps, Quiet, Busy, Waiting, Planning, Answered, IdleHasNoGoal

\* A goal of this node makes a quiet planner busy.
LEMMA OwnGoalWaits ==
  ASSUME PlannerTypeOK, NEW p \in Planners, NEW g \in Goals, SendGoal(p, g),
         UNCHANGED answers, Quiet(p)
  PROVE  Waiting(p)' /\ \A q \in Planners \ {p} : SameAt(q)
<1>1. /\ requests[p] \in Seq(Goals \union OtherGoals)
      /\ requests' = [requests EXCEPT ![p] = Append(requests[p], g)]
      /\ requests \in [Planners -> Seq(Goals \union OtherGoals)]
      /\ UNCHANGED <<planner_state, goal_handle, answers>>
  BY DEF SendGoal, PlannerTypeOK
<1>2. /\ Len(requests[p]) \in Nat /\ Len(requests'[p]) = Len(requests[p]) + 1
      /\ requests'[p][Len(requests[p]) + 1] = g
      /\ \A i \in 1..Len(requests[p]) : requests'[p][i] = requests[p][i]
      /\ \A q \in Planners \ {p} : requests'[q] = requests[q]
  BY <1>1, Appended
<1>3. OneWaits(p)'
  <2>1. Len(requests[p]) + 1 \in 1..Len(requests'[p])
    BY <1>2
  <2>2. \A j \in 1..Len(requests'[p]) :
          requests'[p][j] \in Goals => j = Len(requests[p]) + 1
    BY <1>2 DEF Quiet, NoneWaits
  <2> QED BY <1>2, <2>1, <2>2 DEF OneWaits
<1>4. \A q \in Planners \ {p} : SameAt(q)
  BY <1>1, <1>2 DEF SameAt
<1> QED BY <1>1, <1>3, <1>4 DEF Waiting, Quiet

\* An answer is taken: after the last one the planner is quiet again.
LEMMA TakeEffect ==
  ASSUME PlannerTypeOK, NEW p \in Planners, TakeAnswer(p), Quiet(p) \/ Busy(p),
         IdleHasNoGoal(p)
  PROVE  /\ Busy(p) /\ IdleHasNoGoal(p)'
         /\ \A q \in Planners \ {p} : SameAt(q)
         /\ Head(answers[p]).kind = "accepted" => Busy(p)'
         /\ Head(answers[p]).kind # "accepted" => Quiet(p)'
<1>1. /\ answers[p] \in Seq(Answer) /\ answers[p] # <<>>
      /\ answers' = [answers EXCEPT ![p] = Tail(answers[p])]
      /\ answers \in [Planners -> Seq(Answer)]
      /\ UNCHANGED <<planner_state, goal_handle, requests>>
  BY DEF TakeAnswer, PlannerTypeOK
<1>2. /\ Head(answers[p]) = answers[p][1]
      /\ Len(answers[p]) \in Nat \ {0} /\ Len(answers'[p]) = Len(answers[p]) - 1
      /\ \A i \in 1..(Len(answers[p]) - 1) : answers'[p][i] = answers[p][i + 1]
      /\ \A q \in Planners \ {p} : answers'[q] = answers[q]
      /\ answers'[p] \in Seq(Answer)
  BY <1>1, Taken
<1>3. Planning(p) \/ Answered(p)
  BY <1>1 DEF Quiet, Busy, Waiting
<1>4. (NoneWaits(p) => NoneWaits(p)')
  BY <1>1 DEF NoneWaits
<1>5. CASE Planning(p)
  <2>1. Len(answers[p]) = 1
    BY <1>2, <1>5 DEF Planning
  <2>2. Head(answers[p]).kind = "accepted" /\ Len(answers'[p]) = 0
    BY <1>2, <1>5, <2>1 DEF Planning
  <2>3. Planning(p)'
    BY <1>1, <1>4, <1>5, <2>2 DEF Planning
  <2> QED BY <1>1, <1>2, <1>5, <2>2, <2>3 DEF Busy, IdleHasNoGoal, SameAt
<1>6. CASE Answered(p)
  <2>1. CASE Len(answers[p]) = 2
    <3>1. Head(answers[p]).kind = "accepted" /\ Len(answers'[p]) = 1
          /\ answers'[p][1].kind = "result"
      BY <1>2, <1>6, <2>1 DEF Answered
    <3>2. Answered(p)'
      <4>1. NoneWaits(p)' /\ goal_handle'[p] \notin Goals
        BY <1>1, <1>4, <1>6 DEF Answered
      <4> QED BY <3>1, <4>1 DEF Answered
    <3> QED BY <1>1, <1>2, <1>6, <3>1, <3>2 DEF Busy, IdleHasNoGoal, SameAt
  <2>2. CASE Len(answers[p]) = 1
    <3>1. Head(answers[p]).kind # "accepted" /\ answers'[p] = <<>>
      BY <1>2, <1>6, <2>2 DEF Answered
    <3>2. Quiet(p)'
      BY <1>1, <1>4, <1>6, <3>1 DEF Answered, Quiet
    <3> QED BY <1>1, <1>2, <1>6, <3>1, <3>2 DEF Busy, IdleHasNoGoal, SameAt
  <2> QED BY <1>6, <2>1, <2>2 DEF Answered
<1> QED BY <1>3, <1>5, <1>6

\* Steps that neither open nor close an exchange.
QuietStep ==
  \/ OnGearReport \/ OnRoute \/ MapResponse \/ ModifyTrajectoryResponse
  \/ \E p \in Planners : SendForeignGoal(p)
  \/ SendForeignCostmapGoal \/ LaneStep \/ ParkingStep \/ CostmapStep
  \/ UNCHANGED vars

LEMMA QuietStepKeeps ==
  ASSUME TypeOK, \A p \in Planners : IdleHasNoGoal(p), QuietStep
  PROVE  (\A p \in Planners : Keeps(p)) /\ UNCHANGED <<requesting, lost>>
<1>0. PlannerTypeOK /\ "LANE" \in Planners /\ "PARKING" \in Planners
  BY PlannersAssumption DEF TypeOK
<1>1. ASSUME UNCHANGED plannerVars
      PROVE  \A p \in Planners : Keeps(p)
  BY <1>1, SameKeeps DEF plannerVars, SameAt
<1>2. ASSUME NEW p \in Planners, Keeps(p) /\ \A q \in Planners \ {p} : SameAt(q)
      PROVE  \A q \in Planners : Keeps(q)
  BY <1>2, SameKeeps
<1>3. UNCHANGED <<requesting, lost>>
  BY DEF QuietStep, OnGearReport, OnRoute, MapResponse, ModifyTrajectoryResponse,
         SendForeignGoal, SendForeignCostmapGoal, LaneStep, ParkingStep, CostmapStep,
         OthersRest, exchange, vars
<1>4. CASE LaneStep
  <2>1. CASE HandleGoal("LANE")
    <3>1. JudgeGoal("LANE") /\ IdleHasNoGoal("LANE")
      BY <1>0, <2>1 DEF HandleGoal
    <3>2. Keeps("LANE") /\ \A q \in Planners \ {"LANE"} : SameAt(q)
      BY <1>0, <3>1, JudgeKeeps
    <3> QED BY <1>0, <1>2, <1>3, <3>2
  <2>2. CASE PlanTrajectory("LANE")
    <3>1. PICK t \in Trajectories : Finish("LANE", t)
      BY <2>2, PlannersFinish
    <3>2. Keeps("LANE") /\ \A q \in Planners \ {"LANE"} : SameAt(q)
      BY <1>0, <3>1, FinishKeeps
    <3> QED BY <1>0, <1>2, <1>3, <3>2
  <2> QED BY <1>4, <2>1, <2>2 DEF LaneStep
<1>5. CASE ParkingStep
  <2>1. CASE HandleParkingGoal
    <3>1. JudgeGoal("PARKING") /\ IdleHasNoGoal("PARKING")
      BY <1>0, <2>1 DEF HandleParkingGoal
    <3>2. Keeps("PARKING") /\ \A q \in Planners \ {"PARKING"} : SameAt(q)
      BY <1>0, <3>1, JudgeKeeps
    <3> QED BY <1>0, <1>2, <1>3, <3>2
  <2>2. CASE \E t \in Trajectories : EndPlanning(t)
    <3>1. PICK t \in Trajectories : EndPlanning(t)
      BY <2>2
    <3>2. Finish("PARKING", t)
      BY <3>1, PlannersFinish
    <3>3. Keeps("PARKING") /\ \A q \in Planners \ {"PARKING"} : SameAt(q)
      BY <1>0, <3>2, FinishKeeps
    <3> QED BY <1>0, <1>2, <1>3, <3>3
  <2>3. CASE UNCHANGED plannerVars
    BY <1>1, <1>3, <2>3
  <2>4. \/ HandleParkingGoal \/ UNCHANGED plannerVars
        \/ \E t \in Trajectories : EndPlanning(t)
    BY <1>5, PlannerAssumption DEF ParkingStep, CostmapGoalResponse, CostmapResult
  <2> QED BY <2>1, <2>2, <2>3, <2>4
<1>6. ASSUME NEW p \in Planners, SendForeignGoal(p)
      PROVE  \A q \in Planners : Keeps(q)
  <2>1. UNCHANGED answers /\ \E g \in OtherGoals : SendGoal(p, g)
    BY <1>6 DEF SendForeignGoal
  <2>2. PICK g \in OtherGoals : SendGoal(p, g)
    BY <2>1
  <2>3. Keeps(p) /\ \A q \in Planners \ {p} : SameAt(q)
    BY <1>0, <2>1, <2>2, ForeignKeeps
  <2> QED BY <1>2, <2>3
<1>7. CASE \/ OnGearReport \/ OnRoute \/ MapResponse \/ ModifyTrajectoryResponse
           \/ SendForeignCostmapGoal \/ CostmapStep \/ UNCHANGED vars
  <2>1. UNCHANGED plannerVars
    BY <1>7 DEF OnGearReport, OnRoute, MapResponse, ModifyTrajectoryResponse, parkingVars,
                SendForeignCostmapGoal, CostmapStep, HandleCostmapGoal, CostmapMapResponse, vars
  <2> QED BY <1>1, <1>3, <2>1
<1> QED BY <1>3, <1>4, <1>5, <1>6, <1>7 DEF QuietStep

LEMMA QuietIsNotBusyAfter ==
  ASSUME NEW p, Quiet(p)'
  PROVE  ~Busy(p)'
<1>1. Len(answers'[p]) = 0
  BY DEF Quiet
<1> QED BY <1>1 DEF Quiet, Busy, Waiting, Planning, Answered, NoneWaits, OneWaits

\* No step opens a second exchange, and the flag follows the one there is.
LEMMA ExchangeStep ==
  ASSUME TypeOK, OneExchange, [Next]_vars
  PROVE  OneExchange' /\ (FlagIsExplained => FlagIsExplained')
<1>0. \A p \in Planners : IdleHasNoGoal(p) /\ (Quiet(p) \/ Busy(p))
  BY DEF OneExchange, IdleHasNoGoal
<1>a. PlannerTypeOK
  BY DEF TypeOK
<1>1. ASSUME \A p \in Planners : Keeps(p), UNCHANGED <<requesting, lost>>
      PROVE  OneExchange' /\ (FlagIsExplained => FlagIsExplained')
  <2>1. \A p \in Planners : /\ Quiet(p)' \/ Busy(p)'
                            /\ Busy(p)' <=> Busy(p)
                            /\ IdleHasNoGoal(p)'
    BY <1>0, <1>1, QuietIsNotBusyAfter DEF Keeps
  <2> QED BY <1>1, <2>1 DEF OneExchange, FlagIsExplained, IdleHasNoGoal
<1>2. CASE QuietStep
  BY <1>0, <1>1, <1>2, QuietStepKeeps
<1>3. CASE OnEgoState
  <2>1. CASE UNCHANGED <<plannerVars, exchange>>
    <3>1. \A p \in Planners : Keeps(p)
      BY <1>0, <2>1, SameKeeps DEF plannerVars, SameAt
    <3> QED BY <1>1, <2>1, <3>1 DEF exchange
  <2>2. ASSUME IsRouteReady, ~requesting,
               NEW k \in current..Len(Subroutes), RequestTrajectory(k)
        PROVE  OneExchange' /\ (FlagIsExplained => FlagIsExplained')
    <3>1. requesting' /\ ~lost /\ \A p \in Planners : Quiet(p)
      BY <1>0, <2>2 DEF OneExchange, RequestTrajectory
    <3>2. CASE Subroutes[k] \in Planners
      <4>1. [route |-> route, subroute |-> k] \in Goals
        <5>1. k \in 1..Len(Subroutes)
          BY <2>2, SubrouteBounds
        <5> QED BY <2>2, <5>1, SubrouteBounds
      <4>2. PICK p \in Planners, g \in Goals :
              SendGoal(p, g) /\ UNCHANGED <<answers, lost>>
        BY <2>2, <3>2, <4>1 DEF RequestTrajectory
      <4>3. Waiting(p)' /\ \A q \in Planners \ {p} : SameAt(q)
        BY <1>a, <3>1, <4>2, OwnGoalWaits
      <4>4. \A q \in Planners \ {p} : Quiet(q)' /\ ~Busy(q)' /\ IdleHasNoGoal(q)'
        BY <1>0, <3>1, <4>3, SameKeeps, QuietIsNotBusyAfter DEF Keeps
      <4>5. IdleHasNoGoal(p)'
        BY <1>0, <4>2 DEF IdleHasNoGoal, SendGoal
      <4>6. Busy(p)'
        BY <4>3 DEF Busy
      <4>7. requesting' /\ ~lost'
        BY <3>1, <4>2
      <4> QED BY <4>4, <4>5, <4>6, <4>7 DEF OneExchange, FlagIsExplained, IdleHasNoGoal
    <3>3. CASE Subroutes[k] \notin Planners
      <4>1. lost' /\ UNCHANGED plannerVars
        BY <2>2, <3>3 DEF RequestTrajectory
      <4>2. \A q \in Planners : Quiet(q)' /\ ~Busy(q)' /\ IdleHasNoGoal(q)'
        BY <1>0, <3>1, <4>1, SameKeeps, QuietIsNotBusyAfter DEF Keeps, SameAt, plannerVars
      <4> QED BY <3>1, <4>1, <4>2 DEF OneExchange, FlagIsExplained, IdleHasNoGoal
    <3> QED BY <3>2, <3>3
  <2>3. \/ UNCHANGED <<plannerVars, exchange>>
        \/ IsRouteReady /\ \E e : MaybeRequest(e)
    BY <1>3 DEF OnEgoState
  <2> QED BY <2>1, <2>2, <2>3, MaybeRequestEffect
<1>4. ASSUME NEW p \in Planners, GoalResponseCallback(p)
      PROVE  OneExchange' /\ FlagIsExplained'
  <2>1. TakeAnswer(p)
    BY <1>4 DEF GoalResponseCallback
  <2>2. /\ Busy(p) /\ IdleHasNoGoal(p)' /\ \A q \in Planners \ {p} : SameAt(q)
        /\ Head(answers[p]).kind = "accepted" => Busy(p)'
        /\ Head(answers[p]).kind # "accepted" => Quiet(p)'
    BY <1>0, <1>a, <2>1, TakeEffect
  <2>3. requesting /\ ~lost /\ \A q \in Planners \ {p} : Quiet(q)
    BY <1>0, <2>2 DEF OneExchange
  <2>4. \A q \in Planners \ {p} : Quiet(q)' /\ ~Busy(q)' /\ IdleHasNoGoal(q)'
    BY <1>0, <2>2, <2>3, SameKeeps, QuietIsNotBusyAfter DEF Keeps
  <2>5. CASE Head(answers[p]).kind = "accepted"
    <3>1. requesting' = TRUE /\ UNCHANGED lost
      BY <1>4, <2>5 DEF GoalResponseCallback
    <3>2. requesting' /\ ~lost' /\ Busy(p)'
      BY <2>2, <2>3, <2>5, <3>1
    <3> QED BY <2>2, <2>4, <3>2 DEF OneExchange, FlagIsExplained, IdleHasNoGoal
  <2>6. CASE Head(answers[p]).kind # "accepted"
    <3>1. requesting' /\ lost' /\ Quiet(p)' /\ ~Busy(p)'
      BY <1>4, <2>2, <2>3, <2>6, QuietIsNotBusyAfter DEF GoalResponseCallback
    <3> QED BY <2>2, <2>4, <3>1 DEF OneExchange, FlagIsExplained, IdleHasNoGoal
  <2> QED BY <2>5, <2>6
<1>5. ASSUME NEW p \in Planners, ResultCallback(p)
      PROVE  OneExchange' /\ FlagIsExplained'
  <2>1. TakeAnswer(p) /\ Head(answers[p]).kind # "accepted"
    BY <1>5 DEF ResultCallback
  <2>2. /\ Busy(p) /\ IdleHasNoGoal(p)' /\ \A q \in Planners \ {p} : SameAt(q)
        /\ Quiet(p)'
    BY <1>0, <1>a, <2>1, TakeEffect
  <2>3. ~lost /\ \A q \in Planners \ {p} : Quiet(q)
    BY <1>0, <2>2 DEF OneExchange
  <2>4. \A q \in Planners : Quiet(q)' /\ ~Busy(q)' /\ IdleHasNoGoal(q)'
    BY <1>0, <2>2, <2>3, SameKeeps, QuietIsNotBusyAfter DEF Keeps
  <2>5. ~requesting' /\ ~lost'
    BY <1>5, <2>3 DEF ResultCallback
  <2> QED BY <2>4, <2>5 DEF OneExchange, FlagIsExplained, IdleHasNoGoal
<1> QED BY <1>2, <1>3, <1>4, <1>5 DEF Next, QuietStep

-----------------------------------------------------------------------------
(* The goals and the route.                                                *)

\* Goal g of this node is somewhere at planner p.
Held(p, g) ==
  \/ g \in Goals /\ \E i \in 1..Len(requests[p]) : requests[p][i] = g
  \/ g \in Goals /\ goal_handle[p] = g
  \/ \E i \in 1..Len(answers[p]) : answers[p][i].goal = g

HeldFit == \A p \in Planners : \A g : Held(p, g) => Fits(g)

LEMMA FitParts ==
  GoalsFit <=> (~swapped => LegsFit /\ HeldFit)
  BY DEF GoalsFit, HeldFit, Held

LEMMA FitPartsAfter ==
  GoalsFit' <=> (~swapped' => LegsFit' /\ HeldFit')
  BY DEF GoalsFit, HeldFit, Held

\* Planner p gets no new goal of this node.
NothingNew(p) == \A g : Held(p, g)' => Held(p, g)

LEMMA SameIsNotNew ==
  ASSUME NEW q, SameAt(q)
  PROVE  NothingNew(q)
  BY DEF SameAt, NothingNew, Held

\* A planner that judges a goal moves it.
LEMMA JudgeIsNotNew ==
  ASSUME PlannerTypeOK, NEW p \in Planners, JudgeGoal(p)
  PROVE  NothingNew(p)
<1> DEFINE h == requests[p][1]
<1>1. /\ requests[p] \in Seq(Goals \union OtherGoals) /\ requests[p] # <<>>
      /\ requests' = [requests EXCEPT ![p] = Tail(requests[p])]
      /\ requests \in [Planners -> Seq(Goals \union OtherGoals)]
      /\ goal_handle \in [Planners -> Goals \union OtherGoals \union {NoGoal}]
  BY DEF JudgeGoal, PlannerTypeOK
<1>2. /\ Head(requests[p]) = h
      /\ Len(requests[p]) \in Nat \ {0} /\ Len(requests'[p]) = Len(requests[p]) - 1
      /\ \A i \in 1..(Len(requests[p]) - 1) : requests'[p][i] = requests[p][i + 1]
  BY <1>1, Taken
<1>3. goal_handle'[p] = h \/ goal_handle'[p] = goal_handle[p]
  BY <1>1, <1>2 DEF JudgeGoal
<1>4. \/ answers' = answers
      \/ /\ h \in Goals
         /\ Len(answers[p]) \in Nat /\ Len(answers'[p]) = Len(answers[p]) + 1
         /\ answers'[p][Len(answers[p]) + 1].goal = h
         /\ \A i \in 1..Len(answers[p]) : answers'[p][i] = answers[p][i]
  <2>1. PICK k \in {"accepted", "rejected"} : SendAnswer(p, [kind |-> k, goal |-> h])
    BY <1>2 DEF JudgeGoal
  <2> DEFINE a == [kind |-> k, goal |-> h]
  <2>2. a.goal = h /\ (a.goal \in Goals => a \in Answer) /\ SendAnswer(p, a)
    BY <2>1 DEF Answer
  <2> HIDE DEF a
  <2> QED BY <2>2, AnswerEffect
<1>5. h \in Goals => Held(p, h)
  BY <1>2 DEF Held
<1> SUFFICES ASSUME NEW g, Held(p, g)' PROVE Held(p, g)
  BY DEF NothingNew
<1>6. CASE g \in Goals /\ \E i \in 1..Len(requests'[p]) : requests'[p][i] = g
  <2>1. PICK i \in 1..Len(requests'[p]) : requests'[p][i] = g
    BY <1>6
  <2>2. i + 1 \in 1..Len(requests[p]) /\ requests[p][i + 1] = g
    BY <1>2, <2>1
  <2> QED BY <1>6, <2>2 DEF Held
<1>7. CASE g \in Goals /\ goal_handle'[p] = g
  BY <1>3, <1>5, <1>7 DEF Held
<1>8. CASE \E i \in 1..Len(answers'[p]) : answers'[p][i].goal = g
  <2>1. CASE answers' = answers
    BY <1>8, <2>1 DEF Held
  <2>2. CASE answers' # answers
    <3>1. PICK i \in 1..Len(answers'[p]) : answers'[p][i].goal = g
      BY <1>8
    <3>2. i \in 1..Len(answers[p]) \/ i = Len(answers[p]) + 1
      BY <1>4, <2>2
    <3>3. CASE i \in 1..Len(answers[p])
      BY <1>4, <2>2, <3>1, <3>3 DEF Held
    <3>4. CASE i = Len(answers[p]) + 1
      BY <1>4, <1>5, <2>2, <3>1, <3>4
    <3> QED BY <3>2, <3>3, <3>4
  <2> QED BY <2>1, <2>2
<1> QED BY <1>6, <1>7, <1>8 DEF Held

\* A planner that finishes answers the goal it has.
LEMMA FinishIsNotNew ==
  ASSUME PlannerTypeOK, NEW p \in Planners, NEW t \in Trajectories, Finish(p, t)
  PROVE  NothingNew(p)
<1> DEFINE a == [kind |-> "result", goal |-> goal_handle[p], trajectory |-> t]
<1>1. a.goal = goal_handle[p] /\ (a.goal \in Goals => a \in Answer) /\ SendAnswer(p, a)
  BY DEF Answer, Finish
<1>2. /\ goal_handle[p] \notin Goals => answers' = answers
      /\ goal_handle[p] \in Goals =>
           /\ Len(answers[p]) \in Nat /\ Len(answers'[p]) = Len(answers[p]) + 1
           /\ answers'[p][Len(answers[p]) + 1].goal = goal_handle[p]
           /\ \A i \in 1..Len(answers[p]) : answers'[p][i] = answers[p][i]
  <2> HIDE DEF a
  <2> QED BY <1>1, AnswerEffect
<1>3. requests' = requests /\ goal_handle'[p] = NoGoal /\ NoGoal \notin Goals
  BY PlannerAssumption DEF Finish, PlannerTypeOK
<1> SUFFICES ASSUME NEW g, Held(p, g)' PROVE Held(p, g)
  BY DEF NothingNew
<1>4. CASE g \in Goals /\ \E i \in 1..Len(requests'[p]) : requests'[p][i] = g
  BY <1>3, <1>4 DEF Held
<1>5. CASE \E i \in 1..Len(answers'[p]) : answers'[p][i].goal = g
  <2>1. CASE goal_handle[p] \notin Goals
    BY <1>2, <1>5, <2>1 DEF Held
  <2>2. CASE goal_handle[p] \in Goals
    <3>1. PICK i \in 1..Len(answers'[p]) : answers'[p][i].goal = g
      BY <1>5
    <3>2. i \in 1..Len(answers[p]) \/ i = Len(answers[p]) + 1
      BY <1>2, <2>2
    <3>3. CASE i \in 1..Len(answers[p])
      BY <1>2, <2>2, <3>1, <3>3 DEF Held
    <3>4. CASE i = Len(answers[p]) + 1
      BY <1>2, <2>2, <3>1, <3>4 DEF Held
    <3> QED BY <3>2, <3>3, <3>4
  <2> QED BY <2>1, <2>2
<1> QED BY <1>3, <1>4, <1>5 DEF Held

\* A goal that is sent is the only one that is new.
LEMMA SentIsNew ==
  ASSUME PlannerTypeOK, NEW p \in Planners, NEW h \in Goals \union OtherGoals,
         SendGoal(p, h), UNCHANGED answers
  PROVE  \A g : Held(p, g)' => Held(p, g) \/ (g = h /\ h \in Goals)
<1>1. /\ requests[p] \in Seq(Goals \union OtherGoals)
      /\ requests' = [requests EXCEPT ![p] = Append(requests[p], h)]
      /\ requests \in [Planners -> Seq(Goals \union OtherGoals)]
      /\ UNCHANGED <<goal_handle, answers>>
  BY DEF SendGoal, PlannerTypeOK
<1>2. /\ Len(requests[p]) \in Nat /\ Len(requests'[p]) = Len(requests[p]) + 1
      /\ requests'[p][Len(requests[p]) + 1] = h
      /\ \A i \in 1..Len(requests[p]) : requests'[p][i] = requests[p][i]
  BY <1>1, Appended
<1> SUFFICES ASSUME NEW g, Held(p, g)' PROVE Held(p, g) \/ (g = h /\ h \in Goals)
  OBVIOUS
<1>3. CASE g \in Goals /\ \E i \in 1..Len(requests'[p]) : requests'[p][i] = g
  <2>1. PICK i \in 1..Len(requests'[p]) : requests'[p][i] = g
    BY <1>3
  <2>2. i \in 1..Len(requests[p]) \/ i = Len(requests[p]) + 1
    BY <1>2
  <2> QED BY <1>2, <1>3, <2>1, <2>2 DEF Held
<1> QED BY <1>1, <1>3 DEF Held

\* An answer that is taken leaves the others.
LEMMA TakenIsNotNew ==
  ASSUME PlannerTypeOK, NEW p \in Planners, TakeAnswer(p)
  PROVE  /\ NothingNew(p) /\ Held(p, Head(answers[p]).goal)
         /\ \A q \in Planners \ {p} : SameAt(q)
<1>1. /\ answers[p] \in Seq(Answer) /\ answers[p] # <<>>
      /\ answers' = [answers EXCEPT ![p] = Tail(answers[p])]
      /\ answers \in [Planners -> Seq(Answer)]
      /\ UNCHANGED <<planner_state, goal_handle, requests>>
  BY DEF TakeAnswer, PlannerTypeOK
<1>2. /\ Head(answers[p]) = answers[p][1]
      /\ Len(answers[p]) \in Nat \ {0} /\ Len(answers'[p]) = Len(answers[p]) - 1
      /\ \A i \in 1..(Len(answers[p]) - 1) : answers'[p][i] = answers[p][i + 1]
      /\ \A q \in Planners \ {p} : answers'[q] = answers[q]
  BY <1>1, Taken
<1>3. Held(p, Head(answers[p]).goal) /\ \A q \in Planners \ {p} : SameAt(q)
  BY <1>1, <1>2 DEF Held, SameAt
<1>4. NothingNew(p)
  <2> SUFFICES ASSUME NEW g, Held(p, g)' PROVE Held(p, g)
    BY DEF NothingNew
  <2>1. CASE \E i \in 1..Len(answers'[p]) : answers'[p][i].goal = g
    <3>1. PICK i \in 1..Len(answers'[p]) : answers'[p][i].goal = g
      BY <2>1
    <3>2. i + 1 \in 1..Len(answers[p]) /\ answers[p][i + 1].goal = g
      BY <1>2, <3>1
    <3> QED BY <3>2 DEF Held
  <2> QED BY <1>1, <2>1 DEF Held
<1> QED BY <1>3, <1>4

\* Judging, finishing and sending concern one planner only.
LEMMA JudgeTouches ==
  ASSUME PlannerTypeOK, NEW p \in Planners, JudgeGoal(p)
  PROVE  \A q \in Planners \ {p} : SameAt(q)
<1>1. PICK k \in {"accepted", "rejected"} :
        SendAnswer(p, [kind |-> k, goal |-> Head(requests[p])])
  BY DEF JudgeGoal
<1>2. \A q \in Planners \ {p} : answers'[q] = answers[q]
  BY <1>1 DEF SendAnswer, PlannerTypeOK
<1> QED BY <1>2 DEF JudgeGoal, SameAt, PlannerTypeOK

LEMMA FinishTouches ==
  ASSUME PlannerTypeOK, NEW p \in Planners, NEW t, Finish(p, t)
  PROVE  \A q \in Planners \ {p} : SameAt(q)
  BY DEF Finish, SendAnswer, SameAt, PlannerTypeOK

LEMMA SendTouches ==
  ASSUME PlannerTypeOK, NEW p \in Planners, NEW h, SendGoal(p, h), UNCHANGED answers
  PROVE  \A q \in Planners \ {p} : SameAt(q)
  BY DEF SendGoal, SameAt, PlannerTypeOK

\* A quiet planner has no goal of this node.
LEMMA QuietHoldsNothing ==
  ASSUME NEW p, Quiet(p)
  PROVE  \A g : ~Held(p, g)
<1>1. Len(answers[p]) = 0
  BY DEF Quiet
<1> QED BY <1>1 DEF Quiet, NoneWaits, Held

\* Steps of the other processes bring no new goal of this node.
LEMMA OthersBringNothing ==
  ASSUME TypeOK,
         \/ \E p \in Planners : SendForeignGoal(p)
         \/ LaneStep \/ ParkingStep
  PROVE  (\A p \in Planners : NothingNew(p))
<1>0. PlannerTypeOK /\ "LANE" \in Planners /\ "PARKING" \in Planners
  BY PlannersAssumption DEF TypeOK
<1>1. ASSUME NEW p \in Planners, NothingNew(p) /\ \A q \in Planners \ {p} : SameAt(q)
      PROVE  \A q \in Planners : NothingNew(q)
  BY <1>1, SameIsNotNew
<1>2. ASSUME NEW p \in Planners, JudgeGoal(p)
      PROVE  \A q \in Planners : NothingNew(q)
  <2>1. \A q \in Planners \ {p} : SameAt(q)
    BY <1>0, <1>2, JudgeTouches
  <2>2. NothingNew(p)
    BY <1>0, <1>2, JudgeIsNotNew
  <2> QED BY <1>1, <2>1, <2>2
<1>3. ASSUME NEW p \in Planners, NEW t \in Trajectories, Finish(p, t)
      PROVE  \A q \in Planners : NothingNew(q)
  <2>1. \A q \in Planners \ {p} : SameAt(q)
    BY <1>0, <1>3, FinishTouches
  <2>2. NothingNew(p)
    BY <1>0, <1>3, FinishIsNotNew
  <2> QED BY <1>1, <2>1, <2>2
<1>4. CASE LaneStep
  <2>1. JudgeGoal("LANE") \/ \E t \in Trajectories : Finish("LANE", t)
    BY <1>4, PlannersFinish DEF LaneStep, HandleGoal
  <2> QED BY <1>0, <1>2, <1>3, <2>1
<1>5. CASE ParkingStep
  <2>1. \/ JudgeGoal("PARKING") \/ UNCHANGED plannerVars
        \/ \E t \in Trajectories : EndPlanning(t)
    BY <1>5, PlannerAssumption
       DEF ParkingStep, HandleParkingGoal, CostmapGoalResponse, CostmapResult
  <2>2. \/ JudgeGoal("PARKING") \/ UNCHANGED plannerVars
        \/ \E t \in Trajectories : Finish("PARKING", t)
    BY <2>1, PlannersFinish
  <2>3. CASE UNCHANGED plannerVars
    BY <2>3, SameIsNotNew DEF plannerVars, SameAt
  <2> QED BY <1>0, <1>2, <1>3, <2>2, <2>3
<1>6. ASSUME NEW p \in Planners, SendForeignGoal(p)
      PROVE  \A q \in Planners : NothingNew(q)
  <2>1. PICK g \in OtherGoals : SendGoal(p, g) /\ UNCHANGED answers
    BY <1>6 DEF SendForeignGoal
  <2>2. g \in Goals \union OtherGoals /\ g \notin Goals
    BY PlannerAssumption
  <2>3. NothingNew(p)
    BY <1>0, <2>1, <2>2, SentIsNew DEF NothingNew
  <2>4. \A q \in Planners \ {p} : SameAt(q)
    BY <1>0, <2>1, SendTouches
  <2> QED BY <1>1, <2>3, <2>4
<1> QED BY <1>4, <1>5, <1>6

\* The legs fit as long as neither they nor the subroute change, and the node may
\* begin a request.
LEMMA SameLegsFit ==
  ASSUME LegsFit, UNCHANGED <<route, current, legs, complete, planned_for>>,
         requesting' = requesting \/ requesting'
  PROVE  LegsFit'
  BY DEF LegsFit, IsTrajectoryReady

\* Every goal was sent for the subroute in use, whatever the next step is: while one
\* is with a planner, no request moves on to the next subroute.
LEMMA FitStep ==
  ASSUME TypeOK, OneExchange, GoalsFit, [Next]_vars
  PROVE  GoalsFit'
<1>0. PlannerTypeOK /\ (~swapped => LegsFit /\ HeldFit)
  BY FitParts DEF TypeOK
<1>a. ~requesting => \A p \in Planners : \A g : ~Held(p, g)
  BY QuietHoldsNothing DEF OneExchange
<1>1. ASSUME \A p \in Planners : NothingNew(p),
             UNCHANGED <<route, current, legs, complete, planned_for, swapped>>,
             requesting' = requesting \/ requesting'
      PROVE  GoalsFit'
  <2>1. ~swapped => LegsFit'
    BY <1>0, <1>1, SameLegsFit
  <2>2. ~swapped => HeldFit'
    BY <1>0, <1>1 DEF HeldFit, NothingNew, Fits
  <2> QED BY <1>1, <2>1, <2>2, FitPartsAfter
<1>2. CASE OnEgoState
  <2>1. UNCHANGED <<route, legs, complete, planned_for, swapped>>
    BY <1>2 DEF OnEgoState
  <2>2. CASE UNCHANGED <<plannerVars, current, exchange>>
    <3>1. \A p \in Planners : NothingNew(p)
      BY <2>2, SameIsNotNew DEF plannerVars, SameAt
    <3> QED BY <1>1, <2>1, <2>2, <3>1 DEF exchange
  <2>3. ASSUME IsRouteReady, ~requesting, NEW k \in current..Len(Subroutes),
               RequestTrajectory(k)
        PROVE  GoalsFit'
    <3>1. /\ current' = k /\ current \in Nat /\ current <= k /\ k \in Nat
          /\ requesting'
      BY <2>3, SubrouteBounds DEF RequestTrajectory
    <3> DEFINE h == [route |-> route, subroute |-> k]
    <3>2. h \in Goals /\ h.route = route' /\ h.subroute = current'
      <4>1. k \in 1..Len(Subroutes)
        BY <2>3, SubrouteBounds
      <4> QED BY <2>1, <2>3, <3>1, <4>1, SubrouteBounds
    <3>3. \A p \in Planners : \A g : Held(p, g)' => g = h
      <4>1. CASE Subroutes[k] \in Planners
        <5>1. PICK p \in Planners : p = Subroutes[k]
          BY <4>1
        <5>2. SendGoal(p, h) /\ UNCHANGED answers
          BY <2>3, <4>1, <5>1 DEF RequestTrajectory
        <5> HIDE DEF h
        <5>3. \A g : Held(p, g)' => Held(p, g) \/ g = h
          BY <1>0, <3>2, <5>2, SentIsNew
        <5>4. \A q \in Planners \ {p} : NothingNew(q)
          BY <1>0, <3>2, <5>2, SendTouches, SameIsNotNew
        <5> QED BY <1>a, <2>3, <5>3, <5>4 DEF NothingNew
      <4>2. CASE Subroutes[k] \notin Planners
        <5>1. \A p \in Planners : NothingNew(p)
          BY <2>3, <4>2, SameIsNotNew DEF RequestTrajectory, plannerVars, SameAt
        <5> QED BY <1>a, <2>3, <5>1 DEF NothingNew
      <4> QED BY <4>1, <4>2
    <3>4. HeldFit'
      <4> SUFFICES ASSUME NEW p \in Planners, NEW g, Held(p, g)'
                   PROVE  g.route = route' /\ g.subroute = current'
        BY DEF HeldFit, Fits
      <4> QED BY <3>2, <3>3
    <3>5. \A g \in Goals : g.subroute \in Nat
      BY GoalAssumption
    <3>6. ~swapped => LegsFit'
      BY <1>0, <2>1, <3>1, <3>5 DEF LegsFit, IsTrajectoryReady
    <3> QED BY <2>1, <3>4, <3>6, FitPartsAfter
  <2>4. \/ UNCHANGED <<plannerVars, current, exchange>>
        \/ IsRouteReady /\ \E e : MaybeRequest(e)
    BY <1>2 DEF OnEgoState
  <2> QED BY <2>2, <2>3, <2>4, MaybeRequestEffect
<1>3. CASE MapResponse
  <2>1. UNCHANGED plannerVars /\ ~IsTrajectoryReady' /\ swapped' = (swapped \/ requesting)
    BY <1>3 DEF MapResponse, ClearTrajectory, parkingVars, IsTrajectoryReady
  <2>2. ~requesting => \A p \in Planners : \A g : ~Held(p, g)'
    BY <1>a, <2>1, SameIsNotNew DEF plannerVars, SameAt, NothingNew
  <2>3. LegsFit'
    BY <2>1 DEF LegsFit
  <2> QED BY <2>1, <2>2, <2>3, FitPartsAfter DEF HeldFit
<1>4. ASSUME NEW p \in Planners, GoalResponseCallback(p)
      PROVE  GoalsFit'
  <2>1. \A q \in Planners : NothingNew(q)
    BY <1>0, <1>4, TakenIsNotNew, SameIsNotNew DEF GoalResponseCallback
  <2>2. requesting' = requesting \/ requesting'
    BY <1>4 DEF GoalResponseCallback
  <2> QED BY <1>1, <1>4, <2>1, <2>2 DEF GoalResponseCallback, planner
<1>5. ASSUME NEW p \in Planners, ResultCallback(p)
      PROVE  GoalsFit'
  <2> DEFINE t == Head(answers[p]).trajectory
             h == Head(answers[p]).goal
  <2>0. h \in Goals
    BY <1>5 DEF ResultCallback, TakeAnswer, TypeOK, PlannerTypeOK, Answer
  <2>1. Held(p, h) /\ \A q \in Planners : NothingNew(q)
    BY <1>0, <1>5, TakenIsNotNew, SameIsNotNew DEF ResultCallback
  <2>2. UNCHANGED <<route, current, swapped>> /\ SetTrajectory(t, h)
    BY <1>5 DEF ResultCallback
  <2>3. ~swapped => HeldFit'
    BY <1>0, <2>1, <2>2 DEF HeldFit, NothingNew, Fits
  <2>4. \/ UNCHANGED <<legs, planned_for>> /\ complete' = FALSE
        \/ planned_for' = h
    BY <2>2 DEF SetTrajectory
  <2>5. ~swapped => Fits(h) /\ h.subroute \in Nat
    BY <1>0, <2>0, <2>1, GoalAssumption DEF HeldFit
  <2>6. ~swapped => LegsFit'
    <3>1. CASE UNCHANGED <<legs, planned_for>> /\ complete' = FALSE
      BY <1>0, <2>2, <3>1 DEF LegsFit, IsTrajectoryReady
    <3>2. CASE planned_for' = h
      <4> HIDE DEF h
      <4> QED BY <2>0, <2>2, <2>5, <3>2 DEF LegsFit, Fits
    <3> QED BY <2>4, <3>1, <3>2
  <2> QED BY <2>2, <2>3, <2>6, FitPartsAfter
<1>6. CASE \/ OnGearReport \/ OnRoute \/ ModifyTrajectoryResponse \/ SendForeignCostmapGoal
           \/ CostmapStep \/ UNCHANGED vars
  <2>1. /\ UNCHANGED plannerVars /\ requesting' = requesting
        /\ UNCHANGED <<route, current, legs, complete, planned_for, swapped>>
    BY <1>6 DEF OnGearReport, OnRoute, ModifyTrajectoryResponse, SendForeignCostmapGoal,
                CostmapStep, HandleCostmapGoal, CostmapMapResponse, OthersRest, planner,
                exchange, parkingVars, vars
  <2>2. \A p \in Planners : NothingNew(p)
    BY <2>1, SameIsNotNew DEF plannerVars, SameAt
  <2> QED BY <1>1, <2>1, <2>2
<1>7. CASE \/ \E p \in Planners : SendForeignGoal(p)
           \/ LaneStep \/ ParkingStep
  <2>1. UNCHANGED <<route, current, legs, complete, planned_for, swapped, requesting>>
    BY <1>7 DEF SendForeignGoal, LaneStep, ParkingStep, OthersRest, planner, exchange
  <2> QED BY <1>1, <1>7, <2>1, OthersBringNothing
<1> QED BY <1>2, <1>3, <1>4, <1>5, <1>6, <1>7 DEF Next

-----------------------------------------------------------------------------
(* Nobody waits on nobody.                                                 *)

\* A goal enters the queue of the costmap generator.
LEMMA AskedOnce ==
  ASSUME CostmapTypeOK, NEW c \in Clients,
         costmap_requests' = Append(costmap_requests, c)
  PROVE  /\ c # "planner" => (NoneAsks => NoneAsks') /\ (OneAsks => OneAsks')
         /\ c = "planner" /\ NoneAsks => OneAsks'
<1> DEFINE n == Len(costmap_requests)
<1>1. /\ n \in Nat /\ Len(costmap_requests') = n + 1 /\ costmap_requests'[n + 1] = c
      /\ \A i \in 1..n : costmap_requests'[i] = costmap_requests[i]
  BY Appended DEF CostmapTypeOK
<1>2. c # "planner" => (NoneAsks => NoneAsks')
  BY <1>1 DEF NoneAsks
<1>3. c # "planner" => (OneAsks => OneAsks')
  <2> SUFFICES ASSUME c # "planner", OneAsks PROVE OneAsks'
    OBVIOUS
  <2>1. PICK i \in 1..n :
          /\ costmap_requests[i] = "planner"
          /\ \A j \in 1..n : costmap_requests[j] = "planner" => j = i
    BY DEF OneAsks
  <2>2. \A j \in 1..(n + 1) : costmap_requests'[j] = "planner" => j \in 1..n /\ j = i
    BY <1>1, <2>1
  <2> QED BY <1>1, <2>1, <2>2 DEF OneAsks
<1>4. c = "planner" /\ NoneAsks => OneAsks'
  <2> SUFFICES ASSUME c = "planner", NoneAsks PROVE OneAsks'
    OBVIOUS
  <2>1. \A j \in 1..(n + 1) : costmap_requests'[j] = "planner" => j = n + 1
    BY <1>1 DEF NoneAsks
  <2>2. n + 1 \in 1..(n + 1)
    BY <1>1
  <2> QED BY <1>1, <2>1, <2>2 DEF OneAsks
<1> QED BY <1>2, <1>3, <1>4

\* It takes the first goal of its queue.
LEMMA ServedOnce ==
  ASSUME CostmapTypeOK, costmap_requests # <<>>,
         costmap_requests' = Tail(costmap_requests)
  PROVE  /\ Head(costmap_requests) \in Clients
         /\ NoneAsks => Head(costmap_requests) # "planner" /\ NoneAsks'
         /\ OneAsks /\ Head(costmap_requests) # "planner" => OneAsks'
         /\ OneAsks /\ Head(costmap_requests) = "planner" => NoneAsks'
<1> DEFINE n == Len(costmap_requests)
<1>1. /\ n \in Nat \ {0} /\ Len(costmap_requests') = n - 1
      /\ Head(costmap_requests) = costmap_requests[1] /\ Head(costmap_requests) \in Clients
      /\ \A i \in 1..(n - 1) : costmap_requests'[i] = costmap_requests[i + 1]
  BY Taken DEF CostmapTypeOK
<1>2. NoneAsks => Head(costmap_requests) # "planner" /\ NoneAsks'
  <2>1. 1 \in 1..n /\ \A i \in 1..(n - 1) : i + 1 \in 1..n
    BY <1>1
  <2> QED BY <1>1, <2>1 DEF NoneAsks
<1>3. ASSUME OneAsks
      PROVE  IF Head(costmap_requests) = "planner" THEN NoneAsks' ELSE OneAsks'
  <2>1. PICK i \in 1..n :
          /\ costmap_requests[i] = "planner"
          /\ \A j \in 1..n : costmap_requests[j] = "planner" => j = i
    BY <1>3 DEF OneAsks
  <2>2. \A j \in 1..(n - 1) : costmap_requests'[j] = "planner" => j + 1 = i
    BY <1>1, <2>1
  <2>3. CASE i = 1
    <3>1. \A j \in 1..(n - 1) : costmap_requests'[j] # "planner"
      BY <1>1, <2>2, <2>3
    <3> QED BY <1>1, <2>1, <2>3, <3>1 DEF NoneAsks
  <2>4. CASE i # 1
    <3>1. i - 1 \in 1..(n - 1) /\ costmap_requests'[i - 1] = "planner"
      BY <1>1, <2>1, <2>4
    <3>2. \A j \in 1..(n - 1) : costmap_requests'[j] = "planner" => j = i - 1
      BY <1>1, <2>2
    <3>3. OneAsks'
      BY <1>1, <3>1, <3>2 DEF OneAsks
    <3>4. Head(costmap_requests) # "planner"
      BY <1>1, <2>1, <2>4
    <3> QED BY <3>3, <3>4
  <2> QED BY <2>3, <2>4
<1> QED BY <1>1, <1>2, <1>3

\* The generator answers the planner.
LEMMA AnswerGiven ==
  ASSUME CostmapTypeOK, NEW c, NEW a \in CostmapAnswers, AnswerClient(c, a)
  PROVE  /\ c # "planner" => costmap_answers' = costmap_answers
         /\ c = "planner" =>
              /\ Len(costmap_answers) \in Nat
              /\ Len(costmap_answers') = Len(costmap_answers) + 1
              /\ costmap_answers'[Len(costmap_answers) + 1] = a
              /\ \A i \in 1..Len(costmap_answers) : costmap_answers'[i] = costmap_answers[i]
  BY Appended DEF AnswerClient, CostmapTypeOK

\* Each step of the dialogue leads to the next one.
LEMMA GoalIsServed ==
  ASSUME TypeOK, GeneratorWaits, OneCostmap, HandleCostmapGoal
  PROVE  OneCostmap'
<1> DEFINE c == Head(costmap_requests)
<1>0. CostmapTypeOK
  BY DEF TypeOK
<1>1. /\ c \in Clients
      /\ NoneAsks => c # "planner" /\ NoneAsks'
      /\ OneAsks /\ c # "planner" => OneAsks'
      /\ OneAsks /\ c = "planner" => NoneAsks'
  BY <1>0, ServedOnce DEF HandleCostmapGoal
<1>2. \/ /\ generator = "GENERATING" /\ AnswerClient(c, "rejected")
         /\ UNCHANGED <<generator, generating_for>>
      \/ /\ generator = "IDLE" /\ AnswerClient(c, "accepted")
         /\ generator' = "GENERATING" /\ generating_for' = c
  BY DEF HandleCostmapGoal
<1>3. planner_state' = planner_state
  BY DEF HandleCostmapGoal, plannerVars
<1>4. "rejected" \in CostmapAnswers /\ "accepted" \in CostmapAnswers
  BY DEF CostmapAnswers
<1>5. generator' = "IDLE" <=> generating_for' = "none"
  BY <1>1, <1>2 DEF OneCostmap, Clients
<1>6. generator = "IDLE" => generating_for = "none"
  BY DEF OneCostmap
<1> HIDE DEF c
<1>7. CASE c # "planner"
  <2>1. costmap_answers' = costmap_answers
    BY <1>0, <1>2, <1>4, <1>7, AnswerGiven
  <2>2. generating_for = "planner" => generating_for' = "planner"
    BY <1>2, <1>6
  <2>3. generating_for # "planner" => generating_for' # "planner"
    BY <1>2, <1>7
  <2>4. (CostmapQuiet => CostmapQuiet') /\ (CostmapWaiting => CostmapWaiting')
    BY <1>1, <1>7, <2>1, <2>3 DEF CostmapQuiet, CostmapWaiting
  <2>5. CostmapGenerating => CostmapGenerating'
    BY <1>1, <2>1, <2>2 DEF CostmapGenerating
  <2>6. CostmapAnswered => CostmapAnswered'
    BY <1>1, <2>1, <2>3 DEF CostmapAnswered
  <2> QED BY <1>3, <1>5, <2>4, <2>5, <2>6 DEF OneCostmap
<1>8. CASE c = "planner"
  <2>1. ~NoneAsks
    BY <1>1, <1>8
  <2>2. planner_state["PARKING"] # "IDLE"
    BY <2>1 DEF OneCostmap, CostmapQuiet
  <2>3. planner_state["PARKING"] = "PLANNING" => CostmapWaiting
    BY <2>1 DEF OneCostmap, CostmapGenerating, CostmapAnswered
  <2>4. ASSUME CostmapWaiting PROVE CostmapGenerating' \/ CostmapAnswered'
    <3>1. NoneAsks' /\ Len(costmap_answers) = 0 /\ generating_for # "planner"
      BY <1>1, <1>8, <2>4 DEF CostmapWaiting
    <3>2. CASE generator = "IDLE"
      <4>1. AnswerClient(c, "accepted") /\ generating_for' = "planner"
        BY <1>2, <1>8, <3>2
      <4>2. Len(costmap_answers') = 1 /\ costmap_answers'[1] = "accepted"
        BY <1>0, <1>4, <1>8, <3>1, <4>1, AnswerGiven
      <4> QED BY <3>1, <4>1, <4>2 DEF CostmapGenerating
    <3>3. CASE generator = "GENERATING"
      <4>1. AnswerClient(c, "rejected") /\ generating_for' # "planner"
        BY <1>2, <3>1, <3>3
      <4>2. Len(costmap_answers') = 1 /\ costmap_answers'[1] = "rejected"
        BY <1>0, <1>4, <1>8, <3>1, <4>1, AnswerGiven
      <4> QED BY <3>1, <4>1, <4>2 DEF CostmapAnswered
    <3> QED BY <1>2, <3>2, <3>3
  <2> QED BY <1>3, <1>5, <2>2, <2>3, <2>4 DEF OneCostmap
<1> QED BY <1>7, <1>8

LEMMA MapIsServed ==
  ASSUME TypeOK, OneCostmap, GeneratorWaits, CostmapMapResponse
  PROVE  OneCostmap'
<1>0. CostmapTypeOK /\ "costmap" \in CostmapAnswers
  BY DEF TypeOK, CostmapAnswers
<1>1. /\ UNCHANGED <<costmap_requests, planner_state>>
      /\ \/ UNCHANGED <<generator, generating_for, costmap_answers>>
         \/ /\ AnswerClient(generating_for, "costmap")
            /\ generator' = "IDLE" /\ generating_for' = "none"
  BY DEF CostmapMapResponse, plannerVars
<1>2. CASE UNCHANGED <<generator, generating_for, costmap_answers>>
  BY <1>1, <1>2 DEF OneCostmap, CostmapQuiet, CostmapWaiting, CostmapGenerating,
                    CostmapAnswered, NoneAsks, OneAsks
<1>3. CASE /\ AnswerClient(generating_for, "costmap")
           /\ generator' = "IDLE" /\ generating_for' = "none"
  <2>1. (NoneAsks => NoneAsks') /\ (OneAsks => OneAsks')
    BY <1>1 DEF NoneAsks, OneAsks
  <2>2. CASE generating_for = "planner"
    <3>1. /\ Len(costmap_answers) \in Nat /\ Len(costmap_answers') = Len(costmap_answers) + 1
          /\ costmap_answers'[Len(costmap_answers) + 1] = "costmap"
          /\ \A i \in 1..Len(costmap_answers) : costmap_answers'[i] = costmap_answers[i]
      BY <1>0, <1>3, <2>2, AnswerGiven
    <3>2. planner_state["PARKING"] # "IDLE"
      BY <2>2 DEF OneCostmap, CostmapQuiet
    <3>3. CostmapGenerating => CostmapAnswered'
      <4> SUFFICES ASSUME CostmapGenerating PROVE CostmapAnswered'
        OBVIOUS
      <4>1. CASE Len(costmap_answers) = 0
        BY <1>3, <2>1, <3>1, <4>1 DEF CostmapGenerating, CostmapAnswered
      <4>2. CASE Len(costmap_answers) = 1
        <5>1. /\ Len(costmap_answers') = 2 /\ costmap_answers'[1] = "accepted"
              /\ costmap_answers'[2] = "costmap"
          BY <3>1, <4>2 DEF CostmapGenerating
        <5> QED BY <1>3, <2>1, <5>1 DEF CostmapGenerating, CostmapAnswered
      <4> QED BY <4>1, <4>2 DEF CostmapGenerating
    <3>4. ~CostmapWaiting /\ ~CostmapAnswered
      BY <2>2 DEF CostmapWaiting, CostmapAnswered
    <3> QED BY <1>1, <1>3, <3>2, <3>3, <3>4 DEF OneCostmap
  <2>3. CASE generating_for # "planner"
    <3>1. costmap_answers' = costmap_answers /\ generating_for' # "planner"
      BY <1>0, <1>3, <2>3, AnswerGiven
    <3>2. (CostmapQuiet => CostmapQuiet') /\ (CostmapWaiting => CostmapWaiting')
          /\ (CostmapAnswered => CostmapAnswered') /\ ~CostmapGenerating
      BY <2>1, <2>3, <3>1 DEF CostmapQuiet, CostmapWaiting, CostmapAnswered, CostmapGenerating
    <3> QED BY <1>1, <1>3, <3>2 DEF OneCostmap
  <2> QED BY <2>2, <2>3
<1> QED BY <1>1, <1>2, <1>3

\* The planner asks, and takes the answers.
LEMMA ParkingIsServed ==
  ASSUME TypeOK, OneCostmap, ParkingStep
  PROVE  OneCostmap'
<1>0. /\ CostmapTypeOK /\ "PARKING" \in Planners
      /\ planner_state \in [Planners -> {"IDLE", "PLANNING"}]
      /\ costmap_answers \in Seq(CostmapAnswers)
  BY PlannersAssumption DEF TypeOK, PlannerTypeOK, CostmapTypeOK
<1>1. CASE HandleParkingGoal
  <2>1. UNCHANGED <<generator, generating_for, costmap_answers>>
    BY <1>1 DEF HandleParkingGoal
  <2>2. CASE planner_state["PARKING"] = "PLANNING"
    <3>1. UNCHANGED <<planner_state, costmap_requests>>
      BY <1>1, <2>2 DEF HandleParkingGoal, JudgeGoal
    <3> QED BY <2>1, <3>1 DEF OneCostmap, CostmapQuiet, CostmapWaiting, CostmapGenerating,
                              CostmapAnswered, NoneAsks, OneAsks
  <2>3. CASE planner_state["PARKING"] = "IDLE"
    <3>1. planner_state'["PARKING"] = "PLANNING"
          /\ costmap_requests' = Append(costmap_requests, "planner")
      BY <1>0, <1>1, <2>3 DEF HandleParkingGoal, JudgeGoal
    <3>2. CostmapQuiet
      BY <2>3 DEF OneCostmap
    <3>3. OneAsks'
      BY <1>0, <3>1, <3>2, AskedOnce DEF CostmapQuiet, Clients
    <3>4. CostmapWaiting'
      BY <2>1, <3>2, <3>3 DEF CostmapQuiet, CostmapWaiting
    <3> QED BY <2>1, <3>1, <3>4 DEF OneCostmap
  <2> QED BY <1>0, <2>2, <2>3
<1>2. ASSUME NEW a, TakeCostmapAnswer(a)
      PROVE  /\ UNCHANGED <<costmap_requests, generator, generating_for>>
             /\ Len(costmap_answers) \in Nat \ {0}
             /\ Len(costmap_answers') = Len(costmap_answers) - 1
             /\ costmap_answers[1] = a /\ costmap_answers' \in Seq(CostmapAnswers)
             /\ \A i \in 1..(Len(costmap_answers) - 1) :
                  costmap_answers'[i] = costmap_answers[i + 1]
             /\ CostmapGenerating \/ CostmapAnswered
             /\ NoneAsks /\ NoneAsks'
  <2>1. /\ UNCHANGED <<costmap_requests, generator, generating_for>>
        /\ Len(costmap_answers) \in Nat \ {0}
        /\ Len(costmap_answers') = Len(costmap_answers) - 1
        /\ costmap_answers[1] = a /\ costmap_answers' \in Seq(CostmapAnswers)
        /\ \A i \in 1..(Len(costmap_answers) - 1) :
             costmap_answers'[i] = costmap_answers[i + 1]
    BY <1>0, <1>2, Taken DEF TakeCostmapAnswer
  <2>2. ~CostmapQuiet /\ ~CostmapWaiting
    BY <1>2 DEF TakeCostmapAnswer, CostmapQuiet, CostmapWaiting
  <2>3. planner_state["PARKING"] \in {"IDLE", "PLANNING"}
    BY <1>0
  <2>4. CostmapGenerating \/ CostmapAnswered
    BY <2>2, <2>3 DEF OneCostmap
  <2>5. NoneAsks /\ NoneAsks'
    BY <2>1, <2>4 DEF CostmapGenerating, CostmapAnswered, NoneAsks
  <2> QED BY <2>1, <2>4, <2>5
<1>3. CASE TakeCostmapAnswer("accepted") /\ UNCHANGED plannerVars
  <2>1. CASE CostmapGenerating
    <3>1. Len(costmap_answers') = 0
      BY <1>2, <1>3, <2>1 DEF CostmapGenerating
    <3>2. CostmapGenerating'
      BY <1>2, <1>3, <2>1, <3>1 DEF CostmapGenerating
    <3>3. ~CostmapQuiet
      BY <2>1 DEF CostmapGenerating, CostmapQuiet
    <3> QED BY <1>2, <1>3, <3>2, <3>3 DEF OneCostmap, plannerVars
  <2>2. CASE CostmapAnswered
    <3>1. Len(costmap_answers) = 2 /\ costmap_answers[2] = "costmap"
      BY <1>2, <1>3, <2>2 DEF CostmapAnswered
    <3>2. Len(costmap_answers') = 1 /\ costmap_answers'[1] = "costmap"
      BY <1>2, <1>3, <3>1
    <3>3. CostmapAnswered'
      BY <1>2, <1>3, <2>2, <3>2 DEF CostmapAnswered
    <3>4. planner_state["PARKING"] # "IDLE"
      BY <3>1 DEF OneCostmap, CostmapQuiet
    <3> QED BY <1>2, <1>3, <3>3, <3>4 DEF OneCostmap, plannerVars
  <2> QED BY <1>2, <1>3, <2>1, <2>2
<1>4. ASSUME NEW a \in {"rejected", "costmap"}, NEW t, TakeCostmapAnswer(a), EndPlanning(t)
      PROVE  OneCostmap'
  <2>1. CostmapAnswered
    <3>1. costmap_answers[1] # "accepted"
      BY <1>2, <1>4
    <3>2. ~CostmapGenerating
      BY <1>2, <1>4, <3>1 DEF CostmapGenerating
    <3> QED BY <1>2, <1>4, <3>2
  <2>2. Len(costmap_answers) = 1
    BY <1>2, <1>4, <2>1 DEF CostmapAnswered
  <2>3. costmap_answers' = <<>>
    BY <1>2, <1>4, <2>2
  <2>4. CostmapQuiet'
    BY <1>2, <1>4, <2>1, <2>3 DEF CostmapAnswered, CostmapQuiet
  <2>5. planner_state'["PARKING"] = "IDLE"
    BY <1>0, <1>4 DEF EndPlanning
  <2>6. (generator = "IDLE" <=> generating_for = "none")'
    BY <1>2, <1>4 DEF OneCostmap
  <2> QED BY <2>4, <2>5, <2>6 DEF OneCostmap
<1>5. CASE CostmapGoalResponse
  BY <1>3, <1>4, <1>5 DEF CostmapGoalResponse
<1>6. CASE CostmapResult
  BY <1>4, <1>6 DEF CostmapResult
<1> QED BY <1>1, <1>5, <1>6 DEF ParkingStep

\* Every step keeps what the servers wait for.
LEMMA ServersStep == TypeOK /\ GeneratorWaits /\ ServersInv /\ [Next]_vars => ServersInv'
<1> SUFFICES ASSUME TypeOK, GeneratorWaits, ServersInv, [Next]_vars PROVE ServersInv'
  OBVIOUS
<1>0. /\ CostmapTypeOK /\ "PARKING" \in Planners /\ "LANE" \in Planners
      /\ planner_state \in [Planners -> {"IDLE", "PLANNING"}]
      /\ map_requests \in [Planners -> Nat]
      /\ LaneAwaitsMap /\ OneCostmap
  BY PlannersAssumption DEF TypeOK, PlannerTypeOK, ServersInv
<1>1. ASSUME UNCHANGED <<planner_state, map_requests>> PROVE LaneAwaitsMap'
  BY <1>0, <1>1 DEF LaneAwaitsMap
<1>2. ASSUME UNCHANGED costmapVars, planner_state'["PARKING"] = planner_state["PARKING"]
      PROVE  OneCostmap'
  BY <1>0, <1>2 DEF costmapVars, OneCostmap, CostmapQuiet, CostmapWaiting, CostmapGenerating,
                    CostmapAnswered, NoneAsks, OneAsks
<1>3. CASE LaneStep
  <2>1. planner_state'["PARKING"] = planner_state["PARKING"] /\ UNCHANGED costmapVars
    BY <1>0, <1>3 DEF LaneStep, HandleGoal, JudgeGoal, PlanTrajectory
  <2>2. ASSUME HandleGoal("LANE") PROVE LaneAwaitsMap'
    <3>1. /\ map_requests' = (IF planner_state["LANE"] = "IDLE"
                              THEN [map_requests EXCEPT !["LANE"] = @ + 1] ELSE map_requests)
          /\ \/ planner_state["LANE"] = "PLANNING" /\ planner_state' = planner_state
             \/ /\ planner_state["LANE"] = "IDLE"
                /\ planner_state' = [planner_state EXCEPT !["LANE"] = "PLANNING"]
      BY <2>2 DEF HandleGoal, JudgeGoal
    <3> QED BY <1>0, <3>1 DEF LaneAwaitsMap
  <2>3. ASSUME PlanTrajectory("LANE") PROVE LaneAwaitsMap'
    <3>1. /\ map_requests["LANE"] > 0
          /\ map_requests' = [map_requests EXCEPT !["LANE"] = @ - 1]
          /\ planner_state' = [planner_state EXCEPT !["LANE"] = "IDLE"]
      BY <2>3 DEF PlanTrajectory
    <3>2. map_requests["LANE"] = 1
      BY <1>0, <3>1 DEF LaneAwaitsMap
    <3>3. map_requests'["LANE"] = 0 /\ planner_state'["LANE"] = "IDLE"
      BY <1>0, <3>1, <3>2
    <3> QED BY <3>3 DEF LaneAwaitsMap
  <2> QED BY <1>2, <1>3, <2>1, <2>2, <2>3 DEF LaneStep, ServersInv
<1>4. CASE ParkingStep
  <2>1. planner_state'["LANE"] = planner_state["LANE"] /\ UNCHANGED map_requests
    BY <1>0, <1>4 DEF ParkingStep, HandleParkingGoal, JudgeGoal, CostmapGoalResponse,
                      CostmapResult, EndPlanning, plannerVars
  <2>2. LaneAwaitsMap'
    BY <1>0, <2>1 DEF LaneAwaitsMap
  <2> QED BY <1>0, <1>4, <2>2, ParkingIsServed DEF ServersInv
<1>5. CASE CostmapStep
  <2>1. UNCHANGED plannerVars /\ (HandleCostmapGoal \/ CostmapMapResponse)
    BY <1>5 DEF CostmapStep, HandleCostmapGoal, CostmapMapResponse
  <2> QED BY <1>0, <1>1, <2>1, GoalIsServed, MapIsServed DEF ServersInv, plannerVars
<1>6. CASE SendForeignCostmapGoal
  <2>1. /\ costmap_requests' = Append(costmap_requests, "other")
        /\ UNCHANGED <<generator, generating_for, costmap_answers, plannerVars>>
    BY <1>6 DEF SendForeignCostmapGoal
  <2>2. (NoneAsks => NoneAsks') /\ (OneAsks => OneAsks')
    BY <1>0, <2>1, AskedOnce DEF Clients
  <2>3. OneCostmap'
    BY <1>0, <2>1, <2>2 DEF OneCostmap, CostmapQuiet, CostmapWaiting, CostmapGenerating,
                            CostmapAnswered, plannerVars
  <2> QED BY <1>1, <2>1, <2>3 DEF ServersInv, plannerVars
<1>7. CASE \/ OnEgoState \/ OnGearReport \/ OnRoute \/ MapResponse \/ ModifyTrajectoryResponse
           \/ \E p \in Planners :
                GoalResponseCallback(p) \/ ResultCallback(p) \/ SendForeignGoal(p)
           \/ UNCHANGED vars
  <2>1. UNCHANGED costmapVars
    BY <1>7 DEF OnEgoState, OnGearReport, OnRoute, MapResponse, ModifyTrajectoryResponse,
                GoalResponseCallback, ResultCallback, SendForeignGoal, TakeAnswer,
                parkingVars, vars
  <2>2. UNCHANGED <<planner_state, map_requests>>
    <3>1. CASE OnEgoState
      <4>1. \/ UNCHANGED plannerVars
            \/ IsRouteReady /\ \E e : MaybeRequest(e)
        BY <3>1 DEF OnEgoState
      <4>2. UNCHANGED plannerVars \/ \E k \in current..Len(Subroutes) : RequestTrajectory(k)
        BY <4>1, MaybeRequestEffect
      <4> QED BY <4>2 DEF RequestTrajectory, SendGoal, plannerVars
    <3>2. CASE \E p \in Planners :
                 GoalResponseCallback(p) \/ ResultCallback(p) \/ SendForeignGoal(p)
      BY <3>2 DEF GoalResponseCallback, ResultCallback, SendForeignGoal, TakeAnswer, SendGoal
    <3>3. CASE \/ OnGearReport \/ OnRoute \/ MapResponse \/ ModifyTrajectoryResponse
               \/ UNCHANGED vars
      BY <3>3 DEF OnGearReport, OnRoute, MapResponse, ModifyTrajectoryResponse, parkingVars,
                  plannerVars, vars
    <3> QED BY <1>7, <3>1, <3>2, <3>3
  <2> QED BY <1>1, <1>2, <2>1, <2>2 DEF ServersInv
<1> QED BY <1>3, <1>4, <1>5, <1>6, <1>7 DEF Next

-----------------------------------------------------------------------------
(* What follows from it.                                                   *)

\* A planner that plans is served, or forgotten by the costmap generator.
LEMMA PlanningIsServed ==
  ASSUME TypeOK, ServersInv, NEW p \in Planners, planner_state[p] = "PLANNING"
  PROVE  InHand(p) \/ Forgotten(p)
<1>0. CostmapTypeOK
  BY DEF TypeOK
<1>1. CASE p = "LANE"
  BY <1>1 DEF ServersInv, LaneAwaitsMap, InHand, MapInHand
<1>2. CASE p = "PARKING"
  <2>1. CASE CostmapWaiting
    BY <1>2, <2>1 DEF CostmapWaiting, OneAsks, NoneAsks, InHand, CostmapInHand
  <2>2. CASE CostmapGenerating
    <3>1. generator = "GENERATING"
      BY <1>0, <2>2 DEF CostmapGenerating, ServersInv, OneCostmap, CostmapTypeOK
    <3>2. costmap_maps > 0 \/ costmap_maps = 0
      BY <1>0 DEF CostmapTypeOK
    <3> QED BY <1>2, <2>2, <3>1, <3>2
          DEF CostmapGenerating, InHand, CostmapInHand, Forgotten, GeneratorIsSilent
  <2>3. CASE CostmapAnswered
    <3>1. costmap_answers # <<>>
      BY <2>3 DEF CostmapAnswered
    <3> QED BY <1>2, <3>1 DEF InHand, CostmapInHand
  <2> QED BY <1>2, <2>1, <2>2, <2>3 DEF ServersInv, OneCostmap
<1> QED BY <1>1, <1>2, PlannersAssumption

LEMMA ExchangeIsServed ==
  ASSUME InductiveInv, ServersInv, FlagIsExplained
  PROVE  RequestIsInHand
<1> SUFFICES ASSUME requesting, ~lost
             PROVE  \E p \in Planners :
                      \/ Waiting(p) \/ Answered(p)
                      \/ Planning(p) /\ (InHand(p) \/ Forgotten(p))
  BY DEF RequestIsInHand
<1>1. PICK p \in Planners : Busy(p)
  BY DEF FlagIsExplained
<1>2. ASSUME Planning(p)
      PROVE  InHand(p) \/ Forgotten(p)
  <2>1. planner_state[p] = "PLANNING"
    BY <1>2, PlannerAssumption
       DEF Planning, InductiveInv, OneExchange, TypeOK, PlannerTypeOK
  <2> QED BY <2>1, PlanningIsServed DEF InductiveInv
<1> QED BY <1>1, <1>2 DEF Busy

-----------------------------------------------------------------------------
(* Without other clients.                                                  *)

\* A planner that judges a goal of this node is idle, and accepts it.
LEMMA OwnIsAccepted ==
  ASSUME PlannerTypeOK, OneExchange, NEW p \in Planners, OnlyOwn(p), JudgeGoal(p)
  PROVE  OnlyOwn(p)' /\ \A q \in Planners \ {p} : SameAt(q)
<1> DEFINE g == Head(requests[p])
           a == [kind |-> "accepted", goal |-> g]
<1>1. /\ requests[p] \in Seq(Goals \union OtherGoals) /\ requests[p] # <<>>
      /\ requests' = [requests EXCEPT ![p] = Tail(requests[p])]
      /\ requests \in [Planners -> Seq(Goals \union OtherGoals)]
      /\ planner_state \in [Planners -> {"IDLE", "PLANNING"}]
      /\ goal_handle \in [Planners -> Goals \union OtherGoals \union {NoGoal}]
  BY DEF JudgeGoal, PlannerTypeOK
<1>2. /\ g = requests[p][1] /\ Len(requests[p]) \in Nat \ {0}
      /\ Len(requests'[p]) = Len(requests[p]) - 1
      /\ \A i \in 1..(Len(requests[p]) - 1) : requests'[p][i] = requests[p][i + 1]
      /\ \A q \in Planners \ {p} : requests'[q] = requests[q]
  BY <1>1, Taken
<1>3. g \in Goals
  BY <1>2 DEF OnlyOwn
<1>4. ~NoneWaits(p)
  BY <1>2, <1>3 DEF NoneWaits
<1>5. goal_handle[p] \notin Goals
  BY <1>4 DEF OneExchange, Quiet, Busy, Waiting, Planning, Answered
<1>6. planner_state[p] # "PLANNING"
  BY <1>5 DEF OnlyOwn
<1>7. /\ SendAnswer(p, a)
      /\ planner_state' = [planner_state EXCEPT ![p] = "PLANNING"]
      /\ goal_handle' = [goal_handle EXCEPT ![p] = g]
  BY <1>6 DEF JudgeGoal
<1>8. a.goal = g /\ a.kind = "accepted" /\ a \in Answer
  BY <1>3 DEF Answer
<1>9. /\ Len(answers[p]) \in Nat /\ Len(answers'[p]) = Len(answers[p]) + 1
      /\ answers'[p][Len(answers[p]) + 1].kind = "accepted"
      /\ \A i \in 1..Len(answers[p]) : answers'[p][i] = answers[p][i]
      /\ \A q \in Planners \ {p} : answers'[q] = answers[q]
  <2> HIDE DEF a, g
  <2> QED BY <1>3, <1>7, <1>8, AnswerEffect
<1>10. \A i \in 1..Len(answers'[p]) : answers'[p][i].kind # "rejected"
  BY <1>9 DEF OnlyOwn
<1>11. \A i \in 1..Len(requests'[p]) : requests'[p][i] \in Goals
  BY <1>2 DEF OnlyOwn
<1>12. goal_handle'[p] \in Goals
  BY <1>1, <1>3, <1>7
<1>13. \A q \in Planners \ {p} : SameAt(q)
  BY <1>1, <1>2, <1>7, <1>9 DEF SameAt
<1> QED BY <1>10, <1>11, <1>12, <1>13 DEF OnlyOwn

LEMMA OwnIsFinished ==
  ASSUME PlannerTypeOK, NEW p \in Planners, OnlyOwn(p), NEW t \in Trajectories, Finish(p, t)
  PROVE  OnlyOwn(p)' /\ \A q \in Planners \ {p} : SameAt(q)
<1> DEFINE a == [kind |-> "result", goal |-> goal_handle[p], trajectory |-> t]
<1>1. a.goal = goal_handle[p] /\ a.kind = "result" /\ (a.goal \in Goals => a \in Answer)
  BY DEF Answer
<1>2. SendAnswer(p, a)
  BY DEF Finish
<1>3. /\ goal_handle[p] \notin Goals => answers' = answers
      /\ goal_handle[p] \in Goals =>
           /\ Len(answers[p]) \in Nat /\ Len(answers'[p]) = Len(answers[p]) + 1
           /\ answers'[p][Len(answers[p]) + 1].kind = "result"
           /\ \A i \in 1..Len(answers[p]) : answers'[p][i] = answers[p][i]
      /\ \A q \in Planners \ {p} : answers'[q] = answers[q]
  <2> HIDE DEF a
  <2> QED BY <1>1, <1>2, AnswerEffect
<1>4. /\ requests' = requests /\ planner_state'[p] = "IDLE"
      /\ \A q \in Planners \ {p} :
           planner_state'[q] = planner_state[q] /\ goal_handle'[q] = goal_handle[q]
  BY DEF Finish, PlannerTypeOK
<1>5. \A i \in 1..Len(answers'[p]) : answers'[p][i].kind # "rejected"
  BY <1>3 DEF OnlyOwn
<1> QED BY <1>3, <1>4, <1>5 DEF OnlyOwn, SameAt

LEMMA OwnIsTaken ==
  ASSUME PlannerTypeOK, NEW p \in Planners, OnlyOwn(p), TakeAnswer(p)
  PROVE  /\ OnlyOwn(p)' /\ \A q \in Planners \ {p} : SameAt(q)
         /\ Head(answers[p]).kind # "rejected"
<1>1. /\ answers[p] \in Seq(Answer) /\ answers[p] # <<>>
      /\ answers' = [answers EXCEPT ![p] = Tail(answers[p])]
      /\ answers \in [Planners -> Seq(Answer)]
      /\ UNCHANGED <<planner_state, goal_handle, requests>>
  BY DEF TakeAnswer, PlannerTypeOK
<1>2. /\ Head(answers[p]) = answers[p][1]
      /\ Len(answers[p]) \in Nat \ {0} /\ Len(answers'[p]) = Len(answers[p]) - 1
      /\ \A i \in 1..(Len(answers[p]) - 1) : answers'[p][i] = answers[p][i + 1]
      /\ \A q \in Planners \ {p} : answers'[q] = answers[q]
  BY <1>1, Taken
<1>3. \A i \in 1..(Len(answers[p]) - 1) : i + 1 \in 1..Len(answers[p])
  BY <1>2
<1>4. \A i \in 1..Len(answers'[p]) : answers'[p][i].kind # "rejected"
  BY <1>2, <1>3 DEF OnlyOwn
<1>5. Head(answers[p]).kind # "rejected"
  BY <1>2 DEF OnlyOwn
<1> QED BY <1>1, <1>2, <1>4, <1>5 DEF OnlyOwn, SameAt

LEMMA OwnIsSent ==
  ASSUME PlannerTypeOK, NEW p \in Planners, OnlyOwn(p), NEW g \in Goals, SendGoal(p, g),
         UNCHANGED answers
  PROVE  OnlyOwn(p)' /\ \A q \in Planners \ {p} : SameAt(q)
<1>1. /\ requests[p] \in Seq(Goals \union OtherGoals)
      /\ requests' = [requests EXCEPT ![p] = Append(requests[p], g)]
      /\ requests \in [Planners -> Seq(Goals \union OtherGoals)]
      /\ UNCHANGED <<planner_state, goal_handle, answers>>
  BY DEF SendGoal, PlannerTypeOK
<1>2. /\ Len(requests[p]) \in Nat /\ Len(requests'[p]) = Len(requests[p]) + 1
      /\ requests'[p][Len(requests[p]) + 1] = g
      /\ \A i \in 1..Len(requests[p]) : requests'[p][i] = requests[p][i]
      /\ \A q \in Planners \ {p} : requests'[q] = requests[q]
  BY <1>1, Appended
<1>3. \A i \in 1..Len(requests'[p]) : requests'[p][i] \in Goals
  BY <1>2 DEF OnlyOwn
<1> QED BY <1>1, <1>2, <1>3 DEF OnlyOwn, SameAt

LEMMA SameIsOwn ==
  ASSUME NEW p \in Planners, OnlyOwn(p)', \A q \in Planners : OnlyOwn(q),
         \A q \in Planners \ {p} : SameAt(q)
  PROVE  \A q \in Planners : OnlyOwn(q)'
  BY DEF OnlyOwn, SameAt

\* The costmap generator accepts every goal of the planner.
LEMMA CostmapIsServed ==
  ASSUME TypeOK, ServersInv, OnlyPlanner, HandleCostmapGoal \/ CostmapMapResponse
  PROVE  OnlyPlanner'
<1>0. CostmapTypeOK /\ "accepted" \in CostmapAnswers /\ "costmap" \in CostmapAnswers
  BY DEF TypeOK, CostmapAnswers
<1>1. CASE HandleCostmapGoal
  <2> DEFINE c == Head(costmap_requests)
  <2>1. /\ Len(costmap_requests) \in Nat \ {0} /\ c = costmap_requests[1]
        /\ Len(costmap_requests') = Len(costmap_requests) - 1
        /\ \A i \in 1..(Len(costmap_requests) - 1) :
             costmap_requests'[i] = costmap_requests[i + 1]
    BY <1>0, <1>1, Taken DEF HandleCostmapGoal, CostmapTypeOK
  <2>2. c = "planner" /\ \A i \in 1..Len(costmap_requests') : costmap_requests'[i] = "planner"
    BY <2>1 DEF OnlyPlanner
  <2>3. ~NoneAsks
    BY <2>1, <2>2 DEF NoneAsks
  <2>4. generator = "IDLE"
    <3>1. ~CostmapQuiet /\ ~CostmapGenerating /\ ~CostmapAnswered
      BY <2>3 DEF CostmapQuiet, CostmapGenerating, CostmapAnswered
    <3>2. planner_state["PARKING"] \in {"IDLE", "PLANNING"}
      BY PlannersAssumption DEF TypeOK, PlannerTypeOK
    <3>3. generating_for # "planner"
      BY <3>1, <3>2 DEF ServersInv, OneCostmap, CostmapWaiting
    <3> QED BY <1>0, <3>3 DEF OnlyPlanner, CostmapTypeOK, Clients, ServersInv, OneCostmap
  <2>5. AnswerClient(c, "accepted") /\ generating_for' = c
    BY <1>1, <2>4 DEF HandleCostmapGoal
  <2> HIDE DEF c
  <2>6. /\ Len(costmap_answers) \in Nat /\ Len(costmap_answers') = Len(costmap_answers) + 1
        /\ costmap_answers'[Len(costmap_answers) + 1] = "accepted"
        /\ \A i \in 1..Len(costmap_answers) : costmap_answers'[i] = costmap_answers[i]
    BY <1>0, <2>2, <2>5, AnswerGiven
  <2>7. \A i \in 1..Len(costmap_answers') : costmap_answers'[i] # "rejected"
    BY <2>6 DEF OnlyPlanner
  <2> QED BY <2>2, <2>5, <2>7 DEF OnlyPlanner
<1>2. CASE CostmapMapResponse
  <2>1. CASE UNCHANGED <<generating_for, costmap_answers>>
    BY <1>2, <2>1 DEF CostmapMapResponse, OnlyPlanner
  <2>2. CASE AnswerClient(generating_for, "costmap") /\ generating_for' = "none"
    <3>1. \A i \in 1..Len(costmap_answers') : costmap_answers'[i] # "rejected"
      <4>1. CASE generating_for = "planner"
        <5>1. /\ Len(costmap_answers) \in Nat
              /\ Len(costmap_answers') = Len(costmap_answers) + 1
              /\ costmap_answers'[Len(costmap_answers) + 1] = "costmap"
              /\ \A i \in 1..Len(costmap_answers) : costmap_answers'[i] = costmap_answers[i]
          BY <1>0, <2>2, <4>1, AnswerGiven
        <5> QED BY <5>1 DEF OnlyPlanner
      <4>2. CASE generating_for # "planner"
        BY <2>2, <4>2 DEF AnswerClient, OnlyPlanner
      <4> QED BY <4>1, <4>2
    <3> QED BY <1>2, <2>2, <3>1 DEF CostmapMapResponse, OnlyPlanner
  <2> QED BY <1>2, <2>1, <2>2 DEF CostmapMapResponse
<1> QED BY <1>1, <1>2

\* Without other clients and with a planner for every subroute nothing is refused.
Alone ==
  /\ MaxForeign = 0
  /\ \A r \in Routes : \A k \in 1..Len(SubrouteTypes(Segments[r])) :
       SubrouteTypes(Segments[r])[k] \in Planners

LEMMA AloneStep ==
  ASSUME Alone, InductiveInv, ServersInv, NothingIsRefused, ~lost, [Next]_vars
  PROVE  NothingIsRefused' /\ ~lost'
<1>0. /\ TypeOK /\ PlannerTypeOK /\ OneExchange /\ OnlyPlanner /\ "LANE" \in Planners
      /\ "PARKING" \in Planners /\ \A p \in Planners : OnlyOwn(p)
  BY PlannersAssumption DEF InductiveInv, TypeOK, NothingIsRefused
<1>1. ASSUME NEW p \in Planners, OnlyOwn(p)', \A q \in Planners \ {p} : SameAt(q)
      PROVE  \A q \in Planners : OnlyOwn(q)'
  BY <1>0, <1>1, SameIsOwn
<1>2. ASSUME UNCHANGED plannerVars PROVE \A q \in Planners : OnlyOwn(q)'
  BY <1>0, <1>2 DEF plannerVars, OnlyOwn
<1>3. ASSUME UNCHANGED costmapVars PROVE OnlyPlanner'
  BY <1>0, <1>3 DEF costmapVars, OnlyPlanner
<1>4. CASE OnEgoState
  <2>1. PICK e \in EgoStates :
          \/ UNCHANGED <<plannerVars, current, exchange>>
          \/ IsRouteReady /\ MaybeRequest(e)
    BY <1>4 DEF OnEgoState
  <2>2. UNCHANGED costmapVars
    BY <1>4 DEF OnEgoState
  <2>3. CASE UNCHANGED <<plannerVars, current, exchange>>
    BY <1>2, <1>3, <2>2, <2>3 DEF exchange, NothingIsRefused
  <2>4. CASE IsRouteReady /\ MaybeRequest(e)
    <3>1. SUFFICES ASSUME NEW k \in current..Len(Subroutes), RequestTrajectory(k)
                   PROVE  (\A q \in Planners : OnlyOwn(q)') /\ ~lost'
      BY <1>0, <1>3, <2>2, <2>3, <2>4, MaybeRequestEffect DEF NothingIsRefused
    <3> DEFINE g == [route |-> route, subroute |-> k]
    <3>2. k \in 1..Len(Subroutes) /\ g \in Goals
      BY <1>0, <2>4, SubrouteBounds
    <3>3. route \in Routes /\ Subroutes = SubrouteTypes(Segments[route])
      BY <1>0, <2>4, SubrouteBounds DEF TypeOK, Subroutes
    <3>4. PICK p \in Planners : p = Subroutes[k]
      BY <3>2, <3>3 DEF Alone
    <3>5. SendGoal(p, g) /\ UNCHANGED <<answers, lost>>
      BY <3>1, <3>4 DEF RequestTrajectory
    <3> HIDE DEF g
    <3>6. OnlyOwn(p)' /\ \A q \in Planners \ {p} : SameAt(q)
      BY <1>0, <3>2, <3>5, OwnIsSent
    <3> QED BY <1>1, <3>5, <3>6
  <2> QED BY <2>1, <2>3, <2>4
<1>5. ASSUME NEW p \in Planners, GoalResponseCallback(p) \/ ResultCallback(p)
      PROVE  NothingIsRefused' /\ ~lost'
  <2>1. TakeAnswer(p) /\ UNCHANGED costmapVars
    BY <1>5 DEF GoalResponseCallback, ResultCallback, TakeAnswer
  <2>2. /\ OnlyOwn(p)' /\ \A q \in Planners \ {p} : SameAt(q)
        /\ Head(answers[p]).kind # "rejected"
    BY <1>0, <2>1, OwnIsTaken
  <2>3. UNCHANGED lost
    BY <1>5, <2>2 DEF GoalResponseCallback, ResultCallback
  <2> QED BY <1>1, <1>3, <2>1, <2>2, <2>3 DEF NothingIsRefused
<1>6. CASE (\E p \in Planners : SendForeignGoal(p)) \/ SendForeignCostmapGoal
  <2>1. foreign \in 0..0 /\ foreign < 0
    BY <1>0, <1>6 DEF Alone, TypeOK, SendForeignGoal, SendForeignCostmapGoal
  <2> QED BY <2>1
<1>7. CASE LaneStep
  <2>1. UNCHANGED <<costmapVars, lost>>
    BY <1>7 DEF LaneStep, OthersRest, exchange
  <2>2. OnlyOwn("LANE")' /\ \A q \in Planners \ {"LANE"} : SameAt(q)
    <3>1. CASE HandleGoal("LANE")
      BY <1>0, <3>1, OwnIsAccepted DEF HandleGoal
    <3>2. CASE PlanTrajectory("LANE")
      <4>1. PICK t \in Trajectories : Finish("LANE", t)
        BY <3>2, PlannersFinish
      <4> QED BY <1>0, <4>1, OwnIsFinished
    <3> QED BY <1>7, <3>1, <3>2 DEF LaneStep
  <2> QED BY <1>0, <1>1, <1>3, <2>1, <2>2 DEF NothingIsRefused
<1>8. CASE ParkingStep
  <2>1. UNCHANGED lost
    BY <1>8 DEF ParkingStep, OthersRest, exchange
  <2>2. CASE HandleParkingGoal
    <3>1. OnlyOwn("PARKING")' /\ \A q \in Planners \ {"PARKING"} : SameAt(q)
      BY <1>0, <2>2, OwnIsAccepted DEF HandleParkingGoal
    <3>2. CASE UNCHANGED costmapVars
      BY <1>0, <1>1, <1>3, <2>1, <3>1, <3>2 DEF NothingIsRefused
    <3>3. CASE /\ costmap_requests' = Append(costmap_requests, "planner")
               /\ UNCHANGED <<generating_for, costmap_answers>>
      <4>1. /\ Len(costmap_requests) \in Nat
            /\ Len(costmap_requests') = Len(costmap_requests) + 1
            /\ costmap_requests'[Len(costmap_requests) + 1] = "planner"
            /\ \A i \in 1..Len(costmap_requests) : costmap_requests'[i] = costmap_requests[i]
        BY <1>0, <3>3, Appended DEF TypeOK, CostmapTypeOK, Clients
      <4>2. OnlyPlanner'
        BY <1>0, <3>3, <4>1 DEF OnlyPlanner
      <4> QED BY <1>0, <1>1, <2>1, <3>1, <4>2 DEF NothingIsRefused
    <3> QED BY <2>2, <3>2, <3>3 DEF HandleParkingGoal, costmapVars
  <2>3. ASSUME NEW a, TakeCostmapAnswer(a)
        PROVE  OnlyPlanner' /\ a # "rejected"
    <3>1. /\ Len(costmap_answers) \in Nat \ {0}
          /\ Len(costmap_answers') = Len(costmap_answers) - 1
          /\ costmap_answers[1] = a
          /\ \A i \in 1..(Len(costmap_answers) - 1) :
               costmap_answers'[i] = costmap_answers[i + 1]
      BY <1>0, <2>3, Taken DEF TakeCostmapAnswer, TypeOK, CostmapTypeOK
    <3>2. \A i \in 1..(Len(costmap_answers) - 1) : i + 1 \in 1..Len(costmap_answers)
      BY <3>1
    <3>3. a # "rejected" /\ \A i \in 1..Len(costmap_answers') : costmap_answers'[i] # "rejected"
      BY <1>0, <3>1, <3>2 DEF OnlyPlanner
    <3> QED BY <1>0, <2>3, <3>3 DEF OnlyPlanner, TakeCostmapAnswer
  <2>4. CASE CostmapGoalResponse
    <3>1. UNCHANGED plannerVars /\ OnlyPlanner'
      BY <2>3, <2>4 DEF CostmapGoalResponse
    <3> QED BY <1>0, <1>2, <2>1, <3>1 DEF NothingIsRefused
  <2>5. CASE CostmapResult
    <3>1. PICK t \in Trajectories : EndPlanning(t)
      BY <2>5 DEF CostmapResult
    <3>2. Finish("PARKING", t)
      BY <3>1, PlannersFinish
    <3>3. OnlyOwn("PARKING")' /\ \A q \in Planners \ {"PARKING"} : SameAt(q)
      BY <1>0, <3>2, OwnIsFinished
    <3>4. OnlyPlanner'
      BY <2>3, <2>5 DEF CostmapResult
    <3> QED BY <1>0, <1>1, <2>1, <3>3, <3>4 DEF NothingIsRefused
  <2> QED BY <1>8, <2>2, <2>4, <2>5 DEF ParkingStep
<1>9. CASE CostmapStep
  <2>1. UNCHANGED <<plannerVars, lost>> /\ (HandleCostmapGoal \/ CostmapMapResponse)
    BY <1>9 DEF CostmapStep, HandleCostmapGoal, CostmapMapResponse, OthersRest, exchange
  <2> QED BY <1>0, <1>2, <2>1, CostmapIsServed DEF NothingIsRefused
<1>10. CASE OnGearReport \/ OnRoute \/ MapResponse \/ ModifyTrajectoryResponse \/ UNCHANGED vars
  <2>1. UNCHANGED <<plannerVars, costmapVars, lost>>
    BY <1>10 DEF OnGearReport, OnRoute, MapResponse, ModifyTrajectoryResponse, parkingVars,
                 exchange, vars
  <2> QED BY <1>0, <1>2, <1>3, <2>1 DEF NothingIsRefused
<1> QED BY <1>4, <1>5, <1>6, <1>7, <1>8, <1>9, <1>10 DEF Next

-----------------------------------------------------------------------------
(* The theorems.                                                           *)

LEMMA InitQuiet ==
  ASSUME Init
  PROVE  \A p \in Planners : Quiet(p) /\ ~Busy(p) /\ IdleHasNoGoal(p)
<1>1. \A p \in Planners : Quiet(p) /\ IdleHasNoGoal(p)
  <2> SUFFICES ASSUME NEW p \in Planners PROVE Quiet(p) /\ IdleHasNoGoal(p)
    OBVIOUS
  <2>1. requests[p] = <<>> /\ goal_handle[p] = NoGoal /\ answers[p] = <<>>
    BY DEF Init, PlannerInit
  <2>2. NoneWaits(p)
    BY <2>1 DEF NoneWaits
  <2> QED BY <2>1, <2>2, PlannerAssumption DEF Quiet, IdleHasNoGoal
<1> QED BY <1>1, QuietIsNotBusy

LEMMA InitInductive == Init => InductiveInv
<1> SUFFICES ASSUME Init PROVE InductiveInv
  OBVIOUS
<1>1. OneExchange
  BY InitQuiet DEF Init, OneExchange, IdleHasNoGoal
<1>2. GoalsFit
  BY InitQuiet, QuietHoldsNothing, FitParts
  DEF Init, HeldFit, LegsFit, IsTrajectoryReady
<1> QED BY <1>1, <1>2, InitType DEF InductiveInv

LEMMA StepInductive == InductiveInv /\ [Next]_vars => InductiveInv'
  BY TypeStep, ExchangeStep, FitStep DEF InductiveInv

\* At most one planner has a goal of the node, the goal was sent for the subroute the
\* node is on, and the flag m_requesting_trajectory is set as long as there is one.
THEOREM InvariantCorrect == Spec => []InductiveInv
<1>1. Init => InductiveInv
  BY InitInductive
<1>2. InductiveInv /\ [Next]_vars => InductiveInv'
  BY StepInductive
<1> QED BY <1>1, <1>2, PTL DEF Spec

\* The variables keep their types; the selection stays within the legs and the
\* current subroute within the route.
THEOREM TypeCorrect == Spec => []TypeOK
<1>1. InductiveInv => TypeOK
  BY DEF InductiveInv
<1> QED BY <1>1, InvariantCorrect, PTL

\* A trajectory in use belongs to the route in use and not to a subroute ahead,
\* unless a map answer replaced the route during a request.
THEOREM RouteCorrect == Spec => []TrajectoryBelongsToRoute
<1>1. InductiveInv => TrajectoryBelongsToRoute
  BY DEF InductiveInv, GoalsFit, LegsFit, TrajectoryBelongsToRoute
<1> QED BY <1>1, InvariantCorrect, PTL

\* What a planner owes to the node, in its parts.
Queued(p) == {i \in 1..Len(requests[p]) : requests[p][i] \in Goals}
Final(p) == {i \in 1..Len(answers[p]) : answers[p][i].kind # "accepted"}
Runs(p) == planner_state[p] = "PLANNING" /\ goal_handle[p] \in Goals

LEMMA OpenParts ==
  \A p : Open(p) = Cardinality(Queued(p)) + (IF Runs(p) THEN 1 ELSE 0) + Cardinality(Final(p))
  BY DEF Open, Queued, Final, Runs

LEMMA SmallSets == Cardinality({}) = 0 /\ \A x : Cardinality({x}) = 1
  BY FS_EmptySet, FS_Singleton

\* A quiet planner owes nothing to the node, a busy one the answer to one goal.
LEMMA QuietOwesNothing ==
  ASSUME NEW p, Quiet(p)
  PROVE  Open(p) = 0
<1>1. Queued(p) = {} /\ ~Runs(p)
  BY DEF Quiet, NoneWaits, Queued, Runs
<1>2. Len(answers[p]) = 0
  BY DEF Quiet
<1>3. Final(p) = {}
  BY <1>2 DEF Final
<1> QED BY <1>1, <1>3, OpenParts, SmallSets

LEMMA BusyOwesOne ==
  ASSUME NEW p \in Planners, PlannerTypeOK, IdleHasNoGoal(p), Busy(p)
  PROVE  Open(p) = 1
<1>1. CASE Waiting(p)
  <2>1. PICK i \in 1..Len(requests[p]) :
          /\ requests[p][i] \in Goals
          /\ \A j \in 1..Len(requests[p]) : requests[p][j] \in Goals => j = i
    BY <1>1 DEF Waiting, OneWaits
  <2>2. Queued(p) = {i}
    BY <2>1 DEF Queued
  <2>3. Len(answers[p]) = 0 /\ ~Runs(p)
    BY <1>1 DEF Waiting, Runs
  <2>4. Final(p) = {}
    BY <2>3 DEF Final
  <2>5. Cardinality(Queued(p)) = 1 /\ Cardinality(Final(p)) = 0
    BY <2>2, <2>4, SmallSets
  <2> QED BY <2>3, <2>5, OpenParts
<1>2. CASE Planning(p)
  <2>1. Queued(p) = {} /\ Final(p) = {}
    BY <1>2 DEF Planning, NoneWaits, Queued, Final
  <2>2. Runs(p)
    BY <1>2, PlannerAssumption DEF Planning, IdleHasNoGoal, PlannerTypeOK, Runs
  <2> QED BY <2>1, <2>2, OpenParts, SmallSets
<1>3. CASE Answered(p)
  <2>1. Queued(p) = {} /\ ~Runs(p)
    BY <1>3 DEF Answered, NoneWaits, Queued, Runs
  <2>2. Final(p) = {1} \/ Final(p) = {2}
    BY <1>3 DEF Answered, Final
  <2>3. Cardinality(Queued(p)) = 0 /\ Cardinality(Final(p)) = 1
    BY <2>1, <2>2, SmallSets
  <2> QED BY <2>1, <2>3, OpenParts
<1> QED BY <1>1, <1>2, <1>3 DEF Busy

\* If m_requesting_trajectory starts as FALSE, it is never set without a reason.
LEMMA FlagCorrect ==
  ASSUME RequestingAtStart = {FALSE}
  PROVE  Spec => []FlagIsExplained
<1>1. Init => FlagIsExplained
  BY DEF Init, FlagIsExplained
<1>2. InductiveInv /\ FlagIsExplained /\ [Next]_vars => FlagIsExplained'
  BY ExchangeStep DEF InductiveInv
<1> QED BY <1>1, <1>2, InvariantCorrect, PTL DEF Spec

\* If m_requesting_trajectory starts as FALSE, it tells exactly whether one exchange
\* with one planner is open, until a request is lost.
THEOREM ExchangeCorrect ==
  ASSUME RequestingAtStart = {FALSE}
  PROVE  Spec => []RequestingTracksExchange
<1>1. InductiveInv /\ FlagIsExplained => RequestingTracksExchange
  <2> SUFFICES ASSUME InductiveInv, FlagIsExplained PROVE RequestingTracksExchange
    OBVIOUS
  <2>1. \A p \in Planners : /\ Quiet(p) \/ Busy(p)
                            /\ Quiet(p) => Open(p) = 0 /\ ~Busy(p)
                            /\ Busy(p) => Open(p) = 1
    BY QuietOwesNothing, BusyOwesOne, QuietIsNotBusy
       DEF InductiveInv, OneExchange, IdleHasNoGoal, TypeOK
  <2>2. \A p \in Planners : Open(p) \in {0, 1} /\ (Open(p) = 1 <=> Busy(p))
    <3> SUFFICES ASSUME NEW p \in Planners
                 PROVE  Open(p) \in {0, 1} /\ (Open(p) = 1 <=> Busy(p))
      OBVIOUS
    <3>1. CASE Quiet(p)
      <4>1. Open(p) = 0 /\ ~Busy(p)
        BY <2>1, <3>1
      <4> QED BY <4>1
    <3>2. CASE Busy(p)
      <4>1. Open(p) = 1
        BY <2>1, <3>2
      <4> QED BY <3>2, <4>1
    <3> QED BY <2>1, <3>1, <3>2
  <2>3. ~(Busy("LANE") /\ Busy("PARKING"))
    BY PlannersAssumption DEF InductiveInv, OneExchange
  <2>4. (Busy("LANE") \/ Busy("PARKING") => requesting /\ ~lost) /\ (lost => requesting)
    BY PlannersAssumption DEF InductiveInv, OneExchange
  <2>5. requesting => lost \/ Busy("LANE") \/ Busy("PARKING")
    BY PlannersAssumption DEF FlagIsExplained
  <2>6. "LANE" \in Planners /\ "PARKING" \in Planners
    BY PlannersAssumption
  <2>7. /\ Open("LANE") + Open("PARKING") \in {0, 1}
        /\ Open("LANE") + Open("PARKING") = 1 <=> Busy("LANE") \/ Busy("PARKING")
    BY <2>2, <2>3, <2>6
  <2> QED BY <2>4, <2>5, <2>7 DEF RequestingTracksExchange
<1> QED BY <1>1, InvariantCorrect, FlagCorrect, PTL

\* The planner for lanes waits for one map, and the planner for parking has one goal
\* with the costmap generator, exactly as long as they plan.
THEOREM ServersCorrect == Spec => []ServersInv
<1>1. Init => ServersInv
  <2> SUFFICES ASSUME Init PROVE ServersInv
    OBVIOUS
  <2>1. CostmapQuiet
    BY DEF Init, CostmapInit, CostmapQuiet, NoneAsks
  <2> QED BY <2>1, PlannersAssumption
        DEF Init, PlannerInit, CostmapInit, ServersInv, LaneAwaitsMap, OneCostmap
<1>2. InductiveInv /\ ServersInv /\ [Next]_vars => ServersInv'
  BY ServersStep DEF InductiveInv
<1> QED BY <1>1, <1>2, InvariantCorrect, PTL DEF Spec

\* As long as a planner plans, for this node or another client, what it waits for
\* is in hand, unless the costmap generator fell silent on it.
THEOREM PlanningCorrect == Spec => []PlanningIsInHand
<1>1. InductiveInv /\ ServersInv => PlanningIsInHand
  BY PlanningIsServed DEF InductiveInv, PlanningIsInHand
<1> QED BY <1>1, InvariantCorrect, ServersCorrect, PTL

\* If m_requesting_trajectory starts as FALSE, the node never waits for an answer that
\* nobody will give, unless its request was lost or the costmap generator fell
\* silent on the planner that has it.
THEOREM RequestCorrect ==
  ASSUME RequestingAtStart = {FALSE}
  PROVE  Spec => []RequestIsInHand
<1>1. InductiveInv /\ ServersInv /\ FlagIsExplained => RequestIsInHand
  BY ExchangeIsServed
<1> QED BY <1>1, InvariantCorrect, ServersCorrect, FlagCorrect, PTL

\* Without other clients, and with a planner for every subroute, no request is lost:
\* the node never asks a planner that has not finished, and the planner for parking
\* never asks a costmap generator that has not.
THEOREM AloneCorrect ==
  ASSUME Alone
  PROVE  Spec => []~lost
<1>1. Init => NothingIsRefused /\ ~lost
  <2> SUFFICES ASSUME Init PROVE NothingIsRefused /\ ~lost
    OBVIOUS
  <2>1. ASSUME NEW p \in Planners PROVE OnlyOwn(p)
    <3>1. requests[p] = <<>> /\ answers[p] = <<>> /\ planner_state[p] = "IDLE"
      BY DEF Init, PlannerInit
    <3> QED BY <3>1 DEF OnlyOwn
  <2>2. OnlyPlanner
    BY DEF Init, CostmapInit, OnlyPlanner
  <2> QED BY <2>1, <2>2 DEF Init, NothingIsRefused
<1>2. /\ InductiveInv /\ ServersInv /\ NothingIsRefused /\ ~lost /\ [Next]_vars
      => NothingIsRefused' /\ ~lost'
  BY AloneStep
<1> QED BY <1>1, <1>2, InvariantCorrect, ServersCorrect, PTL DEF Spec

\* What counts as complete between requests was planned for the subroute the node is
\* on: only a request moves on to another, it waits until the one before has ended,
\* and its end with no trajectory takes the flag back from the legs that stay.
THEOREM CompleteCorrect == Spec => []CompleteIsForSubroute
<1>1. InductiveInv => CompleteIsForSubroute
  BY DEF InductiveInv, GoalsFit, LegsFit, CompleteIsForSubroute
<1> QED BY <1>1, InvariantCorrect, PTL
=============================================================================
