SPECIFICATION Spec
CONSTANTS
    Slots = {a, b}
    MaxHandlers = 3
    Sizes = {"small", "big"}
    Contexts = {c, d}
    Default = d
    FreeGuards = {g, h}
INVARIANTS
    TypeOK
    OnePlace
    ObjectsBalanced
    CountExact
    GuardsKeepRunning
CHECK_DEADLOCK FALSE
SYMMETRY Symmetry
