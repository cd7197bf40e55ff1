SPECIFICATION Spec
CONSTANTS
    MaxConns = 2
    MaxLosses = 1
INVARIANT AcceptedOnce
CHECK_DEADLOCK FALSE
