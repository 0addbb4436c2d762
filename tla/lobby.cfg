CONSTANTS
    MaxPlayers = 3
    MinPlayers = 2
    NumSessions = 2
SPECIFICATION FairSpec
INVARIANTS
    SeatsWithinLobby
    CountdownRuns
PROPERTIES
    StartsAsGameSession
    EnoughStart
CHECK_DEADLOCK FALSE
