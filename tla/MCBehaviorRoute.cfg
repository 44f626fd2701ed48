SPECIFICATION Spec
CONSTANTS
  park_then_drive = park_then_drive
  unknown = unknown
  NoRoute = NoRoute
  NoGoal = NoGoal
  NoTrajectory = NoTrajectory
  Planners <- MCPlanners
  Goals <- MCGoals
  OtherGoals = {other_goal}
  other_goal = other_goal
  Trajectories <- MCTrajectories
  Routes <- MCRoutes
  Segments <- MCSegments
  Gears = {"DRIVE", "REVERSE"}
  MaxRequests = 2
  MaxMapReplies = 1
  MaxModify = 1
  MaxForeign = 1
  RequestingAtStart = {FALSE}
CHECK_DEADLOCK FALSE
PROPERTIES
  RouteIsFixedDuringRequest
