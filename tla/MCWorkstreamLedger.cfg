SPECIFICATION Spec
CONSTANTS
    claude = claude
    codex = codex
    s1 = s1
    s2 = s2
    t1 = t1
    None = None
    Workstreams = {w1, w2}
    DefaultName = default
    Names = {default, other}
    Agents <- MCAgents
    Sessions <- MCSessions
    AgentOf <- MCAgentOf
    Runs = {r1, r2}
    RecordIds = {e1}
    Cursors = {}
    LeaseTicks = 1
SYMMETRY Symmetry
INVARIANTS
    TypeOK
    OneActiveRunPerWorkstream
    OneCurrentSessionPerHarness
    NoDuplicateEvents
    CursorsWithinSync
    DeliveryWithinLedger
    BeyondSyncIsOwn
    NamesUnique
PROPERTIES
    AppendOnlyByHolder
    TerminalRunsStay
    DeliveryNeverRegresses
CHECK_DEADLOCK FALSE
