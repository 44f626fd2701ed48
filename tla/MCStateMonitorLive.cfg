SPECIFICATION FairSpec
CONSTANTS
  r1 = r1
  r2 = r2
  r3 = r3
  NoRoute = NoRoute
  Routes <- MCRoutes
  WaitInit = 1
  WaitPlanning = 1
  WaitArrived = 1
  StoppedTime = 0
  MaxDelay = 0
  MaxBuffer = 1
  TimerPeriod = 1
  ShutdownTimeout = 2
  MultiThreaded = FALSE
PROPERTIES
  RouteIsPlanned
  ShutdownCompletes
CHECK_DEADLOCK FALSE
