SPECIFICATION Spec
CONSTANTS
    Capacity = 3
    MAX_WEIGHT = 10
    UNASSIGNED = UNASSIGNED
    Stamps = {0, 1, 2}
    OdometryStamps = {1}
    ImageStamps = {1}
    MaxDetections = 3
    Distances <- MCDistances
    pruning_time_threshold = 2
    pruning_ticks_threshold = 2
    MaxLidarEgoStateStampDiff = 1
    max_vision_lidar_timestamp_diff = 0
    PoseHistoryDepth = 1
    VisionCacheSize = 1
    Cameras = {front}
INVARIANTS
    TypeOK
    StarsMatch
    AssignCompletes
    AgesAreTrue
    EveryDetectionIsUsedOnce
PROPERTIES
    EveryRoundAddsAStar
CHECK_DEADLOCK FALSE
