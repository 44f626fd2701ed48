SPECIFICATION Spec
CONSTANTS
  Threshold = 1
  Deadzone = 1
  AccelMin <- MCAccelMin
  AccelMax = 2
  AccelThreshold = 1
  TransitionTimeout = 1
  Velocities <- MCVelocities
  Kinds = {"raw", "ackermann", "basic"}
  StateCommands <- MCStateCommands
  VehicleReports <- MCVehicleReports
  Accels <- MCAccels
  MaxLag = 1
  MaxTime = 2
  None = None
CHECK_DEADLOCK FALSE
INVARIANTS
  GearShiftsAreSafe
  OverdueIsReported
PROPERTIES
  StateCommandIsNotLost
