CONSTANTS
    MaxPlayers = 2
    MinPlayers = 2
    StartLevel = 3
    StartMoney = 11700
    StartSources = 1
    StartProducts = 2
    StartFactories = 1
    SourceCharge = 100
    ProductCharge = 100
    FactoryCharge = 200
    FactoryCost = 5000
    ProductCost = 2000
    TurnsToBuild = 2
    BuyBids <- NoBids
    SellBids <- NoBids
    Rolls = {6}
    LostInLobby = {0}
    MaxTurn = 5
SPECIFICATION FairSpec
INVARIANTS
    BuiltCountsSites
    BuildsOnSchedule
PROPERTIES
    MonthEndFinishes
    GoodsMoveInAuctionsOnly
    FactoriesAreOrdered
CHECK_DEADLOCK FALSE
