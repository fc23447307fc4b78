SPECIFICATION Spec
CONSTANTS
    MaxPushes = 1
    MaxPops   = 2
    MaxStops  = 1
INVARIANTS
    StoppedPopsFail
CHECK_DEADLOCK FALSE
