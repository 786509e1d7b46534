SPECIFICATION RunSpec
CONSTANTS
    claude = claude
    peer = crush
    s1 = s1
    s2 = s2
    t1 = t1
    t2 = t2
    None = None
    Workstreams = {w1}
    DefaultName = default
    Names = {default}
    Agents <- MCAgents
    Sessions <- MCClaudeTwo
    AgentOf <- MCAgentOf
    Runs = {r1, r2}
    RecordIds <- MCRecordIds
    Cursors <- MCCursors
    LeaseTicks = 1
    Pinned = {claude}
    Hooked = {claude}
    Direct = {crush}
    PathCursors = {claude}
    Selectors = {claude}
    MaxRecords = 2
    MaxFaults = 1
SYMMETRY SessionSymmetry
INVARIANTS
    RunTypeOK
    ImportedInOrder
    SourceCovered
PROPERTIES
    ImplementsExclusiveLedger
CHECK_DEADLOCK FALSE
