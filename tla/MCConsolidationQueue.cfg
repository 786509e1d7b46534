SPECIFICATION Spec
CONSTANTS
    None = None
    Sessions = {s1}
    HomeScope = home
    Scopes = {home}
    Handlers = {h1}
    Workers = {w1, w2}
    Claims = {c1, c2, c3}
    MaxAttempts = 3
    MaxObs = 3
    MaxStops = 2
SYMMETRY Symmetry
INVARIANTS
    TypeOK
    SupersededHasSuccessor
    EndedIsQueued
    RetriesBounded
    OneLiveClaim
PROPERTIES
    SettledByHolder
CHECK_DEADLOCK FALSE
