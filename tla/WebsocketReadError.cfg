SPECIFICATION Spec
PROPERTIES
    ReadErrorCancelsBoth
CHECK_DEADLOCK FALSE
