SPECIFICATION Spec
CONSTANTS
    MaxPushes = 4
    MaxPops   = 3
    MaxStops  = 2
INVARIANTS
    TypeOK
    PopsAccounted
    NoLostWakeup
PROPERTIES
    PopsAnswered
    MailboxSpec
CHECK_DEADLOCK FALSE
