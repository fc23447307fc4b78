SPECIFICATION Spec
CONSTANTS
    MaxPushes  = 2
    MaxPops    = 2
    MaxCancels = 0
INVARIANT
    EveryFrameInOrder
CHECK_DEADLOCK FALSE
