SPECIFICATION Spec
CONSTANTS
    MaxConns = 2
    MaxLosses = 1
INVARIANT HandlerImplemented
CHECK_DEADLOCK FALSE
