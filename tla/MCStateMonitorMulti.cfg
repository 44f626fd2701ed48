SPECIFICATION Spec
CONSTANTS
  r1 = r1
  r2 = r2
  r3 = r3
  NoRoute = NoRoute
  Routes <- MCRoutes
  WaitInit = 1
  WaitPlanning = 2
  WaitArrived = 2
  StoppedTime = 1
  MaxDelay = 1
  MaxBuffer = 2
  TimerPeriod = 1
  ShutdownTimeout = 2
  MultiThreaded = TRUE
SYMMETRY RouteSymmetry
INVARIANTS
  TypeOK
  ShutdownAnswerIsTrue
PROPERTIES
  FollowsDiagram
  DelaysAreKept
  ArrivesAtPlannedGoal
  ArrivesAtRest
CHECK_DEADLOCK FALSE
