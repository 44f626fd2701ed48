SPECIFICATION Spec
CONSTANTS
    Capacity = 5
    MAX_WEIGHT = 10000
    UNASSIGNED = UNASSIGNED
INVARIANTS
    AssignmentIsOfMinimumCost
CHECK_DEADLOCK FALSE
