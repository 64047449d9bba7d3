SPECIFICATION Spec
CONSTANTS
    MaxTicks = 5
INVARIANTS
    NoTickDropped
CHECK_DEADLOCK FALSE
