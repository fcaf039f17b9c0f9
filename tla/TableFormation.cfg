SPECIFICATION Spec
CONSTANTS
    NumBots = 3
    Profiles <- MCProfiles
    minPlayers = 2  maxPlayers = 3
    MaxProposals = 2  MaxLost = 1  MaxSilent = 1
INVARIANTS
    SeatsAreAccepted
PROPERTIES
    TablesFill
CHECK_DEADLOCK FALSE
