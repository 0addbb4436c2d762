\* The server's loop with two clients on two seats.
SPECIFICATION Spec
CONSTANTS
    None = None
    Clients = {b, c}
    Bots = {b}
    Allocated = 2
    MaxChoices = {1, 3}
    MinPlayers = 1
    MaxLines = 2
    MaxSignals = 1
INVARIANTS
    NobodyUncounted
    BotByTheFirst
    ClosedByAFullCounter
PROPERTIES
    HeardInTheEnd
    ExitIsObeyed
CHECK_DEADLOCK FALSE
