SPECIFICATION Spec
CONSTANTS
    a1 = a1  a2 = a2
    Agents = {a1, a2}
    Tables = {t1}
    Settings <- MCSettings
    RingSize = 2  AutoReportEvery = 2  TopUpChips = 1
    Stake = 1  RebuyCost = 5  MinHands = 1  RoamInterval = 2  MaxErrors = 2
INVARIANTS
    RebuysExplained
    PolicyLineage
CHECK_DEADLOCK FALSE
