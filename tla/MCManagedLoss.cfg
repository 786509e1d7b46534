SPECIFICATION RunSpec
CONSTANTS
    claude = claude
    peer = opencode2
    s1 = s1
    s2 = s2
    t1 = t1
    t2 = t2
    None = None
    Workstreams = {w1}
    DefaultName = default
    Names = {default}
    Agents <- MCAgents
    Sessions <- MCPeerTwo
    AgentOf <- MCAgentOf
    Runs = {r1, r2}
    RecordIds <- MCRecordIds
    Cursors <- MCCursors
    LeaseTicks = 1
    Pinned = {claude}
    Hooked = {claude}
    Direct = {}
    PathCursors = {claude}
    Selectors = {}
    MaxRecords = 1
    MaxFaults = 0
INVARIANTS
    RedeliveryNeverLoss
CHECK_DEADLOCK FALSE
