SPECIFICATION Spec
CONSTANTS
    writer_done = writer_done
    closer_done = closer_done
    aborted = aborted
    eof = eof
    Events <- MCEvents
    Codes <- MCCodes
    MaxWaits  = 3
    MaxUnsets = 2
INVARIANTS
    TypeOK
    WaitAccounted
    CancelIsFinal
PROPERTIES
    OkMeansTriggered
    LatchSpec
CHECK_DEADLOCK FALSE
