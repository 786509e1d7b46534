SPECIFICATION FairSpec
CONSTANTS
    None = None
    Sessions = {s1}
    HomeScope = home
    Scopes = {home, away}
    Handlers = {h1}
    Workers = {w1}
    Claims = {c1, c2, c3}
    MaxAttempts = 2
    MaxObs = 3
    MaxStops = 2

    
PROPERTIES
    QueueDrains
CHECK_DEADLOCK FALSE
