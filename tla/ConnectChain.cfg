SPECIFICATION Spec
CONSTANTS
    Depth = 4
    SniLayers = {2}
    Codes = {aborted, eof}
    MaxRuns = 3
INVARIANTS
    TypeOK
    HooksOwned
    NothingStartsAfterCancel
PROPERTIES
    CancelEnds
    CancellableSpec
