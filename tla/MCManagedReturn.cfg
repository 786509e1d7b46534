SPECIFICATION RunSpec
CONSTANTS
    claude = claude
    peer = grok
    s1 = s1
    s2 = s2
    t1 = t1
    t2 = t2
    None = None
    Workstreams = {w1}
    DefaultName = default
    Names = {default}
    Agents <- MCAgents
    Sessions <- MCTwo
    AgentOf <- MCAgentOf
    Runs = {r1, r2, r3}
    RecordIds <- MCRecordIds
    Cursors <- MCCursors
    LeaseTicks = 1
    Pinned = {claude, grok}
    Hooked = {claude}
    Direct = {grok}
    PathCursors = {claude, grok}
    Selectors = {}
    MaxRecords = 1
    MaxFaults = 1
SYMMETRY Symmetry
INVARIANTS
    HonestDelivery
CHECK_DEADLOCK FALSE
