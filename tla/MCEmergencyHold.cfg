SPECIFICATION FairSpec
CONSTANTS
  DataReadyTimeout = 1
  HeartbeatTimeout = 1
  TimerPeriod = 2
  UseEmergencyHold = {TRUE, FALSE}
  UseParking = TRUE
  Velocities = {"zero", "forward"}
  NoCapability = NoCapability
CHECK_DEADLOCK FALSE
INVARIANTS
  WatchdogReports
  MissingDataIsReported
  CrashesOnlyBetweenReaders
PROPERTIES
  EmergencyIsHeld
  RecoversWithoutHold
