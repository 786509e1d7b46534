CONSTANTS
    s1 = s1  s2 = s2  ann = ann  bob = bob  outer = outer  inner = inner
    r1 = r1  r2 = r2  e1 = e1  e2 = e2
    Sessions = {s1, s2}
    Agent = Agent
    Managed = {s1}
    Keyed = {s2}
    Operators = {ann}
    Shared = Shared
    AnyOwner = AnyOwner
    Dirs = {outer, inner}
    NoDir = NoDir
    Within <- MCWithin
    Calls <- MCCallsAnn
    Authors = {ann}
    Topologies = {TRUE}
    MaxBatons = 2
    Requests = {r1, r2}
    Handlers = {e1}
    None = None
SPECIFICATION Spec
PROPERTY PacketDelivered
CHECK_DEADLOCK FALSE
