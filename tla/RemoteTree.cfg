SPECIFICATION Spec
CONSTANTS
    Files = {"f"}
    MaxInputs = 4
    MaxOutstanding = 2
INVARIANTS ClientRefsCounted ClientLeavesSafe ServerLeavesSafe HandlesSafe ServerRefsCounted IndexAgrees
PROPERTY RequestsAnswered
CHECK_DEADLOCK FALSE
