SPECIFICATION FairSpec
CONSTANTS
    None = None
    MaxEvents = 3
    Kinds <- MCKinds
    MaxAttempts = 2
    SpoolCap = 2
    MaxBatch = 2
    Requests = {r1, r2}
    MaxFaults = 1
INVARIANTS
    TypeOK
    OneObservation
    DeliveredIsSettled
    RepeatsExplained
PROPERTIES
    CompleteIsFinal
    
CHECK_DEADLOCK FALSE
