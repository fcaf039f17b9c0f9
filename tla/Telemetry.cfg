SPECIFICATION TelemetrySpec
CONSTANTS
    t1 = t1  t2 = t2
    Settings <- MCSettings
    RingSize = 1  AutoReportEvery = 1  TopUpChips = 1  Stake = 1
    StatsEvery = 2  SnapshotEvery = 1  MaxCells = 1
INVARIANTS
    CountedOnce
PROPERTIES
    SettlementShown
CHECK_DEADLOCK FALSE
