SPECIFICATION FloorSpec
CONSTANTS
    NumSeats = 3
    StartingChips = 4
    SmallBlind = 1
    BigBlind = 2
    HandsPerTable = 2
    EliminationMode = TRUE
    Aggression = {15, 90}
    Players = {0, 1, 2}
    Hands = {0, 1}
    Amounts = {}
    MaxCalls = 0
    Delays = {{}, {"action", "hand"}}
    ReportEvery = 1
INVARIANTS
    HubMirrorsHands
    BooksExplainStacks
    FinalReportComplete
PROPERTIES
    TableSettles
CHECK_DEADLOCK FALSE
