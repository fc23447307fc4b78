SPECIFICATION JsonSpec
CONSTANTS
    MaxCalls  = 3
    IdModulus = 4
    FirstId   = 2
INVARIANTS
    CallTypeOK
    OneWakeup
    ConnectedMeansForked
    ConnectAgreesWithRun
    SenderHasWriter
    CallInOnePlace
    RequestsAccounted
    OwnResponse
CHECK_DEADLOCK FALSE
PROPERTIES
    CancelledWriterStops
    SignalSpec
    CloseEndsRun
    CallsAnswered
