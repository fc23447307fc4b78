SPECIFICATION Spec
CONSTANTS
    aborted = aborted
    eof = eof
    Codes <- MCCodes
    MaxWaits = 4
INVARIANTS
    WaitAccounted
PROPERTIES
    LatchSpec
CHECK_DEADLOCK FALSE
