\* The bot with two programs against a server that reads its lines one by one or
\* several at once, and another player who ends turns, leaves or goes bankrupt.
SPECIFICATION Spec
CONSTANTS
    Programs <- MCPrograms
    Faithful <- MCFaithful
    MaxPlayers = 3
    MyId = 1
    MaxMonth = 2
    Price <- MCPrice
    Stock <- MCStock
INVARIANTS
    RunsClean
    QuietAfterTurn
    KnowsWhoPlays
PROPERTIES
    MonthsGoOn
    ImplementsRounds
CHECK_DEADLOCK FALSE
