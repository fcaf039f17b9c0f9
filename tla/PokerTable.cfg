SPECIFICATION TableSpec
CONSTANTS
    NumSeats = 3
    StartingChips = 8
    SmallBlind = 1
    BigBlind = 2
    HandsPerTable = 2
    EliminationMode = FALSE
    Aggression = {15, 90}
INVARIANTS
    TableTypeOK
    BetIsHeld
    RoundClosesMatched
    HandCellsInOrder
PROPERTIES
    ImplementsPotGame
CHECK_DEADLOCK FALSE
