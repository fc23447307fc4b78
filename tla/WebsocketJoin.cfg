SPECIFICATION Spec
INVARIANTS
    JoinBeforeReturn
CHECK_DEADLOCK FALSE
