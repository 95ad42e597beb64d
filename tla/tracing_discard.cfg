CONSTANTS
    RequestedCapacity = 3
    RING_CAPACITY = 2
    TICK_VALUES = 1024
    WindowNs = {5}
    WindowTicks = {0, 2}
    MaxId = 3
    MaxIterations = 3
    MaxReports = 4
    MaxSwitches = 2
SPECIFICATION Spec
INVARIANT OldestOverwrittenByNew
CHECK_DEADLOCK FALSE
