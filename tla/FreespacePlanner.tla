--------------------------- MODULE FreespacePlanner ---------------------------
(***************************************************************************)
(* The planner for parking (FreespacePlannerNode) and the costmap          *)
(* generator it asks (CostmapGeneratorNode): an action server that calls   *)
(* another action server, which calls the map service.  Each accepts one   *)
(* goal at a time and nobody cancels one.                                  *)
(***************************************************************************)
EXTENDS TrajectoryPlanner

ASSUME ParkingAssumption == "PARKING" \in Planners

VARIABLES
  costmap_requests,  \* clients whose goals are on their way to the costmap generator
  generator,         \* the state of the costmap generator
  generating_for,    \* the client of its goal_handle_, until that has its costmap
  costmap_maps,      \* its unanswered map requests
  costmap_answers    \* its answers on their way to the planner

costmapVars == <<costmap_requests, generator, generating_for, costmap_maps, costmap_answers>>
parkingVars == <<plannerVars, costmapVars>>

Clients == {"planner", "other"}
CostmapAnswers == {"accepted", "rejected", "costmap"}

CostmapTypeOK ==
  /\ costmap_requests \in Seq(Clients)
  /\ generator \in {"IDLE", "GENERATING"}
  /\ generating_for \in Clients \union {"none"}
  /\ costmap_maps \in 0..1
  /\ costmap_answers \in Seq(CostmapAnswers)

CostmapInit ==
  /\ costmap_requests = <<>>
  /\ generator = "IDLE" /\ generating_for = "none"
  /\ costmap_maps = 0
  /\ costmap_answers = <<>>

-----------------------------------------------------------------------------
(* The costmap generator.                                                  *)

AnswerClient(client, a) ==
  costmap_answers' = IF client = "planner" THEN Append(costmap_answers, a) ELSE costmap_answers

\* handleGoal, and handleAccepted right after it if the goal is accepted.
HandleCostmapGoal ==
  /\ costmap_requests # <<>>
  /\ costmap_requests' = Tail(costmap_requests)
  /\ LET client == Head(costmap_requests)
     IN  \/ /\ generator = "GENERATING"
            /\ AnswerClient(client, "rejected")
            /\ UNCHANGED <<generator, generating_for, costmap_maps>>
         \/ /\ generator = "IDLE"
            /\ generator' = "GENERATING"
            /\ generating_for' = client
            /\ costmap_maps' = costmap_maps + 1
            /\ AnswerClient(client, "accepted")
  /\ UNCHANGED plannerVars

\* mapResponse: without a transform the goal is never answered.
CostmapMapResponse ==
  /\ costmap_maps > 0
  /\ costmap_maps' = costmap_maps - 1
  /\ \/ UNCHANGED <<generator, generating_for, costmap_answers>>
     \/ /\ AnswerClient(generating_for, "costmap")
        /\ generator' = "IDLE" /\ generating_for' = "none"
  /\ UNCHANGED <<plannerVars, costmap_requests>>

\* A goal that is never answered: the generator stays busy for good.
GeneratorIsSilent == generator = "GENERATING" /\ costmap_maps = 0

-----------------------------------------------------------------------------
(* The planner.                                                            *)

\* handleGoal, and handleAccepted right after it if the goal is accepted.
HandleParkingGoal ==
  /\ JudgeGoal("PARKING")
  /\ costmap_requests' = IF planner_state["PARKING"] = "IDLE"
                         THEN Append(costmap_requests, "planner") ELSE costmap_requests
  /\ UNCHANGED <<map_requests, generator, generating_for, costmap_maps, costmap_answers>>

\* The planner answers its goal and stops planning.
EndPlanning(trajectory) ==
  /\ SendAnswer("PARKING", [kind |-> "result", goal |-> goal_handle["PARKING"],
                            trajectory |-> trajectory])
  /\ planner_state' = [planner_state EXCEPT !["PARKING"] = "IDLE"]
  /\ goal_handle' = [goal_handle EXCEPT !["PARKING"] = NoGoal]
  /\ UNCHANGED <<map_requests, requests>>

TakeCostmapAnswer(a) ==
  /\ costmap_answers # <<>> /\ Head(costmap_answers) = a
  /\ costmap_answers' = Tail(costmap_answers)
  /\ UNCHANGED <<costmap_requests, generator, generating_for, costmap_maps>>

\* Mutant: a costmap that is refused is only logged.
CostmapGoalResponseLogged ==
  \E a \in {"accepted", "rejected"} : TakeCostmapAnswer(a) /\ UNCHANGED plannerVars

CostmapGoalResponse ==
  \/ TakeCostmapAnswer("accepted") /\ UNCHANGED plannerVars
  \/ TakeCostmapAnswer("rejected") /\ EndPlanning(NoTrajectory)

CostmapResult ==
  /\ TakeCostmapAnswer("costmap")
  /\ \E t \in Trajectories : EndPlanning(t)
=============================================================================
