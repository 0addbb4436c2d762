CONSTANTS
    MaxPlayers = 2
    MinPlayers = 2
    StartLevel = 3
    StartMoney = 3000
    StartSources = 1
    StartProducts = 1
    StartFactories = 1
    SourceCharge = 300
    ProductCharge = 500
    FactoryCharge = 1000
    FactoryCost = 1600
    ProductCost = 2000
    TurnsToBuild = 5
    BuyBids <- MCBuyBids
    SellBids <- MCSellBids
    Rolls = {6}
    LostInLobby = {0}
    MaxTurn = 2
    Lines <- MCLines
    Bots <- MCBots
SPECIFICATION SpecCommands
VIEW WithoutTheAnswer
PROPERTIES
    AnswersFit
    ImplementsSession
    RequestsAreKept
CHECK_DEADLOCK FALSE
