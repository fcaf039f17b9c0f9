SPECIFICATION Spec
CONSTANTS
    m1 = m1  m2 = m2  ann = ann  bob = bob  cai = cai
    Matches = {m1, m2}
    match = m1
    AgentOf <- MCAgentOf
    FundingSats = 8  SettleFee = 1
    Kernels = {"none", "stub", "full"}
    Tampers = {"zero-owner", "bump-version-double"}
    Bounds <- MCBounds
    SmallBlind = 1  BigBlind = 2
    Settings <- MCSettings
    Safety = 4  Amounts = {0, 3, 4}
INVARIANTS
    MeterExplainsPots
    HandChainContiguous
    WatchlistCounts
    AccusedTampered
PROPERTIES
    ChannelChainLinked
    MatchEnds
