CONSTANTS
    MaxPlayers = 2
    MinPlayers = 2
    StartLevel = 3
    StartMoney = 10000
    StartSources = 1
    StartProducts = 2
    StartFactories = 1
    SourceCharge = 300
    ProductCharge = 500
    FactoryCharge = 1000
    FactoryCost = 40000
    ProductCost = 100000
    TurnsToBuild = 5
    BuyBids <- SourceBids
    SellBids <- ProductBids
    Rolls = {1, 12}
    LostInLobby = {0}
    MaxTurn = 3
SPECIFICATION Spec
INVARIANTS
    SupplyRespected
    BiddersArePresent
    PricePriority
    SolventInPlay
CHECK_DEADLOCK FALSE
