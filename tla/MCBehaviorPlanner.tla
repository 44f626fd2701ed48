-------------------------- MODULE MCBehaviorPlanner --------------------------
(* The behavior planner with routes that need both planners.               *)
EXTENDS BehaviorPlanner

CONSTANTS park_then_drive, unknown, other_goal

MCRoutes == {park_then_drive, unknown}
MCSegments == [r \in MCRoutes |->
  IF r = park_then_drive THEN <<"PARKING", "LANE">> ELSE <<"UNKNOWN">>]
MCGoals == [route : MCRoutes, subroute : 1..2]
Trajectory(directions) == [legs |-> directions, reaches_goal |-> TRUE]
MCTrajectories == {NoTrajectory, Trajectory(<<"DRIVE", "REVERSE", "DRIVE">>)}
MCPlanners == {"LANE", "PARKING"}
=============================================================================
