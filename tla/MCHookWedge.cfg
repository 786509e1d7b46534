SPECIFICATION Spec
CONSTANTS
    None = None
    MaxEvents = 2
    Kinds <- MCMoved
    MaxAttempts = 2
    SpoolCap = 2
    MaxBatch = 2
    Requests = {r1}
    MaxFaults = 0
INVARIANTS
    FailuresBounded
CHECK_DEADLOCK FALSE
