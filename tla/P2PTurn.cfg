SPECIFICATION Spec
CONSTANTS
    SmallBlind = 1  BigBlind = 2  StartingChips = 3  MaxHands = 2
    Safety = 3  Phases = 2  Actions = {"fold", "check", "call", "raise"}  Outcomes = {{0}, {1}}  Amounts = {0}
    MaxFaults = 0  MaxMissed = 0  MaxTrouble = 0  Lossy = {0}  Faulty = {0}
INVARIANTS
    TurnHolderSigns
CHECK_DEADLOCK FALSE
