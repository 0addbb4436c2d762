CONSTANTS
    MaxPlayers = 3
    MinPlayers = 2
    StartLevel = 3
    StartMoney = 3500
    StartSources = 1
    StartProducts = 1
    StartFactories = 1
    SourceCharge = 300
    ProductCharge = 500
    FactoryCharge = 1000
    FactoryCost = 40000
    ProductCost = 100000
    TurnsToBuild = 5
    BuyBids <- OneSourceBid
    SellBids <- OneProductBid
    Rolls = {6}
    LostInLobby = {0, 1}
    MaxTurn = 3
SPECIFICATION Spec
INVARIANTS
    CountersCoverPlayers
PROPERTIES
    ImplementsRounds
CHECK_DEADLOCK FALSE
