SPECIFICATION Spec
CONSTANTS
    None = None
    Sessions = {s1}
    HomeScope = home
    Scopes = {home}
    Handlers = {h1}
    Workers = {w1}
    Claims = {c1, c2, c3}
    MaxAttempts = 2
    MaxObs = 2
    MaxStops = 2
INVARIANTS
    ReleasedIsClaimable
CHECK_DEADLOCK FALSE
