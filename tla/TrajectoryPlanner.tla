-------------------------- MODULE TrajectoryPlanner --------------------------
(***************************************************************************)
(* The action server that every trajectory planner node is built on        *)
(* (TrajectoryPlannerNodeBase): it accepts one goal at a time, asks the    *)
(* map service for the map and plans when the map arrives.  Several        *)
(* planners run side by side, each in a process of its own.  The one for   *)
(* parking is not built on it but judges goals alike (FreespacePlanner).   *)
(*                                                                         *)
(* No node of the repository cancels a goal, so handle_cancel is not here. *)
(***************************************************************************)
EXTENDS Naturals, Sequences

CONSTANTS
  Planners,       \* the planner nodes
  Goals,          \* what the behavior planner may ask for
  OtherGoals,     \* what other action clients may ask for
  Trajectories,   \* what plan_trajectory may return
  NoTrajectory,   \* the empty trajectory
  NoGoal,         \* the null goal handle
  MaxRequests     \* bound: goal requests on their way to one planner

ASSUME PlannerAssumption ==
  /\ NoTrajectory \in Trajectories /\ MaxRequests \in Nat
  /\ NoGoal \notin Goals \union OtherGoals /\ Goals \intersect OtherGoals = {}

VARIABLES
  planner_state,  \* m_planner_state of each planner
  goal_handle,    \* m_goal_handle of each planner, until its goal has its result
  map_requests,   \* unanswered map requests of each planner
  requests,       \* goal requests on their way to each planner
  answers         \* answers of each planner on their way to the behavior planner

plannerVars == <<planner_state, goal_handle, map_requests, requests, answers>>

Answer == [kind : {"accepted", "rejected"}, goal : Goals]
            \union [kind : {"result"}, goal : Goals, trajectory : Trajectories]

PlannerTypeOK ==
  /\ planner_state \in [Planners -> {"IDLE", "PLANNING"}]
  /\ goal_handle \in [Planners -> Goals \union OtherGoals \union {NoGoal}]
  /\ map_requests \in [Planners -> Nat]
  /\ requests \in [Planners -> Seq(Goals \union OtherGoals)]
  /\ answers \in [Planners -> Seq(Answer)]

PlannerInit ==
  /\ planner_state = [p \in Planners |-> "IDLE"]
  /\ goal_handle = [p \in Planners |-> NoGoal]
  /\ map_requests = [p \in Planners |-> 0]
  /\ requests = [p \in Planners |-> <<>>]
  /\ answers = [p \in Planners |-> <<>>]

\* Answers to other clients concern nobody here.
SendAnswer(p, a) ==
  answers' = IF a.goal \in Goals THEN [answers EXCEPT ![p] = Append(@, a)] ELSE answers

\* handle_goal.
JudgeGoal(p) ==
  /\ requests[p] # <<>>
  /\ requests' = [requests EXCEPT ![p] = Tail(@)]
  /\ LET goal == Head(requests[p])
     IN  \/ /\ planner_state[p] = "PLANNING"
            /\ SendAnswer(p, [kind |-> "rejected", goal |-> goal])
            /\ UNCHANGED <<planner_state, goal_handle>>
         \/ /\ planner_state[p] = "IDLE"
            /\ planner_state' = [planner_state EXCEPT ![p] = "PLANNING"]
            /\ goal_handle' = [goal_handle EXCEPT ![p] = goal]
            /\ SendAnswer(p, [kind |-> "accepted", goal |-> goal])

\* handle_goal, and handle_accepted right after it if the goal is accepted.
HandleGoal(p) ==
  /\ JudgeGoal(p)
  /\ map_requests' = IF planner_state[p] = "IDLE" THEN [map_requests EXCEPT ![p] = @ + 1]
                                                  ELSE map_requests

\* Mutant: a goal for which there is no trajectory is never answered.
PlanTrajectoryOrNothing(p) ==
  /\ map_requests[p] > 0
  /\ map_requests' = [map_requests EXCEPT ![p] = @ - 1]
  /\ \E t \in Trajectories :
       IF t = NoTrajectory
       THEN UNCHANGED answers
       ELSE SendAnswer(p, [kind |-> "result", goal |-> goal_handle[p], trajectory |-> t])
  /\ planner_state' = [planner_state EXCEPT ![p] = "IDLE"]
  /\ goal_handle' = [goal_handle EXCEPT ![p] = NoGoal]
  /\ UNCHANGED requests

\* map_response: plan for the goal whose handle is stored, succeed or abort.
PlanTrajectory(p) ==
  /\ map_requests[p] > 0
  /\ map_requests' = [map_requests EXCEPT ![p] = @ - 1]
  /\ \E t \in Trajectories :
       SendAnswer(p, [kind |-> "result", goal |-> goal_handle[p], trajectory |-> t])
  /\ planner_state' = [planner_state EXCEPT ![p] = "IDLE"]
  /\ goal_handle' = [goal_handle EXCEPT ![p] = NoGoal]
  /\ UNCHANGED requests

\* A client's goal enters the queue of a planner.
SendGoal(p, goal) ==
  /\ Len(requests[p]) < MaxRequests
  /\ requests' = [requests EXCEPT ![p] = Append(@, goal)]
  /\ UNCHANGED <<planner_state, goal_handle, map_requests>>
=============================================================================
