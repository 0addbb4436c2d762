CONSTANTS
    Sessions <- MCSessions
    Players <- MCPlayers
    MinPlayers = 2
    MaxClients = 3
    Bots <- MCBots
SPECIFICATION SpecBrokers
VIEW WithoutTheMessages
PROPERTIES
    
    LeaversAreTold
CHECK_DEADLOCK FALSE
