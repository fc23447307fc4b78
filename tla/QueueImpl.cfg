SPECIFICATION Spec
CONSTANTS
    MaxPushes  = 4
    MaxPops    = 4
    MaxCancels = 2
INVARIANTS
    PopAccounted
PROPERTY
    PopsAnswered
CHECK_DEADLOCK FALSE
