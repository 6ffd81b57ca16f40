CONSTANTS
    NumCPUs = 2
    MaxLines = 3
SPECIFICATION Spec
CHECK_DEADLOCK FALSE
INVARIANTS
    SleepsOnlyIfNoneIdle
