CONSTANTS
    keep_logs = FALSE
    MaxInterrupts = 3
SPECIFICATION RunnerSpec
INVARIANT NoneLeftRunning
PROPERTIES SignalDiscipline RunnerEnds
CHECK_DEADLOCK FALSE
