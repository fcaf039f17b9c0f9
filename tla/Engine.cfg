SPECIFICATION FairEngineSpec
CONSTANTS
    NumStreams = 1
    SplitSatoshis = 6
    CellSatoshis = 1
    MinFee = 2
    Fee <- Fees
    InputFee = 1
    OutputFee = 0
    ChannelSatoshis = 4
    DustLimit = 3
    MaxSplitsPerStream = 2
    BatchSize = 2
    SweepBatch = 2
    FundingVout = 0
    BeefValidates = TRUE
    Setups <- Wallets
    MaxCalls = 2
INVARIANTS
    SpentOnce
    FeesCovered
    ParentsFirst
    TipsAccepted
    PoolUnspent
    BeefCoversChainTip
PROPERTIES
    QueuedIsPosted
    ShutdownCompletes
CHECK_DEADLOCK FALSE
