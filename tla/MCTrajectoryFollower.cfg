SPECIFICATION FairSpec
CONSTANTS
  DriveStopDist = 2
  DriveOffset = 2
  StoppingStopDist = 2
  OvershootStopDist = 2
  StoppedDelay = 1
  Timeout = 1
  Situations <- MCSituations
  Unreliable = {"lateral", "muxer"}
  SmoothStop = {TRUE, FALSE}
  Overshooting = {TRUE}
INVARIANTS
  DriveStartsAfresh
  EmergencyIsNotDriven
PROPERTIES
  Settles
  StopIsForwarded
