SPECIFICATION Spec
CONSTANTS
    SmallBlind = 1  BigBlind = 2  StartingChips = 3  MaxHands = 2
    Safety = 3  Phases = 2  Actions = {"fold", "check", "call", "raise"}  Outcomes = {{1}}  Amounts = {0}
    MaxFaults = 1  MaxMissed = 1  MaxTrouble = 1  Lossy = {0}  Faulty = {0}
INVARIANTS
    TablesAgree
    TokensLinear
    SomeoneMoves
CHECK_DEADLOCK FALSE
