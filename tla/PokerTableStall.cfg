SPECIFICATION TableSpec
CONSTANTS
    NumSeats = 2
    StartingChips = 7
    SmallBlind = 1
    BigBlind = 2
    HandsPerTable = 2
    EliminationMode = TRUE
    Aggression = {15, 90}
PROPERTIES
    EveryHandCompletes
CHECK_DEADLOCK FALSE
