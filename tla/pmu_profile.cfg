CONSTANTS
    pmu_group_name = "l1d"
    MaxCalls = 2
    MaxEvents = 2
SPECIFICATION Spec
INVARIANT TotalsCoverCalls
CHECK_DEADLOCK FALSE
