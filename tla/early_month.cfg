CONSTANTS
    MaxPlayers = 2
    MinPlayers = 2
    StartLevel = 3
    StartMoney = 10000
    StartSources = 1
    StartProducts = 1
    StartFactories = 1
    SourceCharge = 300
    ProductCharge = 500
    FactoryCharge = 1000
    FactoryCost = 40000
    ProductCost = 2000
    TurnsToBuild = 5
    BuyBids <- NoBids
    SellBids <- NoBids
    Rolls = {6}
    LostInLobby = {0}
    MaxTurn = 2
SPECIFICATION Spec
INVARIANT
    MonthEndsWhenAllTurned
CHECK_DEADLOCK FALSE
