---------------------------- MODULE GameSession ----------------------------
(***************************************************************************)
(* One game session of the server, from the moment CheckStart has prepared *)
(* it: the players' commands, and the month end that GameEventsHandle runs *)
(* when the counters of ready and of alive players are equal.              *)
(*                                                                         *)
(* The server has one thread.  A pass of its loop handles at most one      *)
(* command (or the loss) of each connection whose descriptor is readable,  *)
(* in descriptor order, and then calls GameEventsHandle once; served holds *)
(* the players handled in the current pass.  The month end is one call in  *)
(* the code; here its loops take a step per iteration, and no command is   *)
(* enabled until they are done.                                            *)
(*                                                                         *)
(* The module models the handlers.  It takes three things as working that  *)
(* README.md lists as broken in the integrated server: a command reaches   *)
(* its handler with its sender's number and its arguments, a handler is    *)
(* called for its token, and a list node holds the data inserted.          *)
(***************************************************************************)
EXTENDS Market, Sequences, FiniteSets

CONSTANTS
    MaxPlayers,      \* max_players: the slots of the session
    MinPlayers,      \* min_players_to_start
    StartLevel,      \* start_market_level
    StartMoney, StartSources, StartProducts, StartFactories,
    SourceCharge, ProductCharge, FactoryCharge,
    FactoryCost,     \* new_factory_unit_cost
    ProductCost,     \* production_product_cost
    TurnsToBuild,    \* turns_to_build_factory
    BuyBids,         \* the requests players may make at the source auction
    SellBids,        \* ... and at the product auction
    Rolls,           \* the dice throws considered
    LostInLobby,     \* how many players may have left the lobby
    MaxTurn          \* bound: the month after which no further month ends

\* Weaker than the limits of Config::Load, which are up to 8 players and at
\* least one of everything.
ASSUME SettingsAssumption ==
    /\ MinPlayers \in Nat /\ MaxPlayers \in Nat
    /\ StartLevel \in Levels
    /\ StartMoney \in Nat /\ StartSources \in Nat
    /\ StartProducts \in Nat /\ StartFactories \in Nat
    /\ SourceCharge \in Nat /\ ProductCharge \in Nat /\ FactoryCharge \in Nat
    /\ FactoryCost \in Nat /\ ProductCost \in Nat
    /\ TurnsToBuild \in Nat \ {0}

\* Bids that atoi can read, and the bounds of a run.
ASSUME BoundsAssumption ==
    /\ \A b \in BuyBids \cup SellBids :
           b = [amount |-> b.amount, price |-> b.price]
           /\ b.amount \in Int /\ b.price \in Int
    /\ Rolls \subseteq Dice
    /\ LostInLobby \subseteq Nat
    /\ MaxTurn \in Nat

VARIABLES
    phase,           \* where the server's loop is; see Phases
    served,          \* players whose command this pass has handled
    alive, ready,    \* alive_players and ready_players of Banker
    turn,            \* turn_number
    level, market,   \* cur_market_lvl and cur_market_state
    free, bankrot, turned,
    money, oldMoney, income,
    sources, products, produced,
    wait, work, built,
    builds,          \* builds_factories, in list order
    sent,            \* sent_source_request and sent_products_request
    requests,        \* the session's two lists of requests
    report,          \* AuctionReport of every player
    bids, offered,   \* StartAuction's sorted list and what is left to trade
    walker, node,    \* CheckBuildingFactories' loop variables
    granted          \* history: what this month's auctions gave each player

people   == <<free, bankrot, turned>>
accounts == <<money, oldMoney, income>>
stock    == <<sources, products, produced>>
plants   == <<wait, work, built, builds>>
trade    == <<sent, requests, report, bids, offered, granted>>
session  == <<alive, ready, turn, level, market>>
loops    == <<walker, node>>
vars == <<phase, served, people, accounts, stock, plants, trade, session, loops>>

Players == 1..MaxPlayers
Kinds   == {"source", "product"}

Phases == {"play",                                    \* commands are handled
           "openSource", "grantSource",               \* the source auction
           "openProduct", "grantProduct",             \* the product auction
           "builds", "charges", "bankrots", "newTurn",
           "stopped",                                 \* Server::Stop was called
           "undefined"}                               \* undefined behaviour

Present == {p \in Players : ~free[p]}

Everybody(value) == [p \in Players |-> value]

Half == FactoryCost \div 2

-----------------------------------------------------------------------------
(***************************************************************************)
(* The state after PreparePlayersState and PrepareSessionState.  Newcomers *)
(* take the lowest free slot; a player who leaves the lobby frees a slot   *)
(* but stays in lobby_players, which becomes alive_players.                *)
(***************************************************************************)
Init ==
    /\ \E lobby \in MinPlayers..MaxPlayers : \E joined \in SUBSET (1..lobby) :
           /\ lobby - Cardinality(joined) \in LostInLobby
           /\ alive = lobby
           /\ free = [p \in Players |-> p \notin joined]
    /\ money    = [p \in Players |-> IF free[p] THEN 0 ELSE StartMoney]
    /\ oldMoney = money
    /\ sources  = [p \in Players |-> IF free[p] THEN 0 ELSE StartSources]
    /\ products = [p \in Players |-> IF free[p] THEN 0 ELSE StartProducts]
    /\ wait     = [p \in Players |-> IF free[p] THEN 0 ELSE StartFactories]
    /\ turn = 1 /\ ready = 0
    /\ level = StartLevel /\ market = MarketAt(StartLevel, alive)
    /\ phase = "play" /\ served = {}
    /\ bankrot = Everybody(FALSE) /\ turned = Everybody(FALSE)
    /\ income = Everybody(0) /\ produced = Everybody(0)
    /\ work = Everybody(0) /\ built = Everybody(0) /\ builds = Everybody(<<>>)
    /\ sent = [k \in Kinds |-> Everybody(FALSE)]
    /\ requests = [k \in Kinds |-> <<>>]
    /\ report = [k \in Kinds |-> Everybody([amount |-> 0, price |-> 0])]
    /\ granted = [k \in Kinds |-> Everybody(0)]
    /\ bids = <<>> /\ offered = 0
    /\ walker = 1 /\ node = 1

-----------------------------------------------------------------------------
(* The players' commands.  A refused command changes nothing.              *)

\* A command of p is read in this pass, and p has not ended the turn.
MayCommand(p) ==
    /\ phase = "play"
    /\ ~free[p] /\ p \notin served
    /\ ~turned[p]

Handled(p) == served' = served \cup {p}

\* Mutant: the factory and the source are not taken out of what is left to use.
Prod_NothingUsed(p) ==
    /\ MayCommand(p)
    /\ sources[p] >= 1 /\ money[p] >= ProductCost /\ wait[p] > 0
    /\ work' = [work EXCEPT ![p] = @ + 1]
    /\ money' = [money EXCEPT ![p] = @ - ProductCost]
    /\ Handled(p)
    /\ UNCHANGED <<phase, people, oldMoney, income, sources, products, produced,
                   wait, built, builds, trade, session, loops>>

\* One idle factory starts to work on one unit of source.
Prod(p) ==
    /\ MayCommand(p)
    /\ sources[p] >= 1 /\ money[p] >= ProductCost /\ wait[p] > 0
    /\ wait' = [wait EXCEPT ![p] = @ - 1]
    /\ work' = [work EXCEPT ![p] = @ + 1]
    /\ sources' = [sources EXCEPT ![p] = @ - 1]
    /\ money' = [money EXCEPT ![p] = @ - ProductCost]
    /\ Handled(p)
    /\ UNCHANGED <<phase, people, oldMoney, income, products, produced,
                   built, builds, trade, session, loops>>

\* Mutant: sites are numbered by how many there are.
IsMaxNum_Count(p, n) == n = Len(builds[p])

\* GetMaxNum: the greatest number among p's building sites, 0 without one.
IsMaxNum(p, n) ==
    /\ \A i \in DOMAIN builds[p] : builds[p][i].num <= n
    /\ n = 0 \/ \E i \in DOMAIN builds[p] : builds[p][i].num = n

\* A building site is numbered one above the others and half of it is paid.
Build(p) ==
    /\ MayCommand(p)
    /\ money[p] >= Half
    /\ \E n \in 0..(MaxPlayers - 1) :
           /\ IsMaxNum(p, n)
           /\ builds' = [builds EXCEPT ![p] =
                  Append(@, [num |-> n + 1, left |-> TurnsToBuild, since |-> turn])]
    /\ money' = [money EXCEPT ![p] = @ - Half]
    /\ built' = [built EXCEPT ![p] = @ + 1]
    /\ Handled(p)
    /\ UNCHANGED <<phase, people, oldMoney, income, stock, wait, work,
                   trade, session, loops>>

\* BuildsData refuses a number above max_players and the server stops.
BuildOverflow(p) ==
    /\ MayCommand(p)
    /\ money[p] >= Half
    /\ IsMaxNum(p, MaxPlayers)
    /\ phase' = "stopped"
    /\ UNCHANGED <<served, people, accounts, stock, plants, trade, session, loops>>

\* List::Insert: a player who has a request in the list keeps that one.
Listed(reqs, p) == \E i \in DOMAIN reqs : reqs[i].player = p

Insert(reqs, p, b) ==
    IF Listed(reqs, p) THEN reqs
    ELSE Append(reqs, [player |-> p, amount |-> b.amount, price |-> b.price])

SendRequest(k, p, b) ==
    /\ ~sent[k][p]
    /\ requests' = [requests EXCEPT ![k] = Insert(@, p, b)]
    /\ sent' = [sent EXCEPT ![k][p] = TRUE]
    /\ Handled(p)
    /\ UNCHANGED <<phase, people, accounts, stock, plants, report, granted,
                   bids, offered, session, loops>>

Buy(p, b) ==
    /\ MayCommand(p)
    /\ b.amount > 0 /\ b.amount <= market.sources
    /\ b.price >= market.minPrice
    /\ ~(money[p] < b.price * b.amount)
    /\ SendRequest("source", p, b)

Sell(p, b) ==
    /\ MayCommand(p)
    /\ b.amount > 0 /\ b.amount <= products[p]
    /\ b.price > 0 /\ b.price <= market.maxPrice
    /\ SendRequest("product", p, b)

Turn(p) ==
    /\ MayCommand(p)
    /\ turned' = [turned EXCEPT ![p] = TRUE]
    /\ ready' = ready + 1
    /\ Handled(p)
    /\ UNCHANGED <<phase, free, bankrot, accounts, stock, plants, trade,
                   alive, turn, level, market, loops>>

\* Mutant: the player is taken out of alive_players twice.
Disconnect_Twice(p) ==
    /\ phase = "play"
    /\ ~free[p] /\ p \notin served
    /\ free' = [free EXCEPT ![p] = TRUE]
    /\ alive' = alive - 2
    /\ UNCHANGED <<phase, served, bankrot, turned, accounts, stock, plants,
                   trade, ready, turn, level, market, loops>>

\* The connection of p is lost: SessionsPlanner::QuitPlayer.  The command
\* "quit" itself is only answered: its word is compared with the answer's.
Disconnect(p) ==
    /\ phase = "play"
    /\ ~free[p] /\ p \notin served
    /\ free' = [free EXCEPT ![p] = TRUE]
    /\ alive' = alive - 1
    /\ UNCHANGED <<phase, served, bankrot, turned, accounts, stock, plants,
                   trade, ready, turn, level, market, loops>>

\* A read or a send fails on the connection of a player present: the exception
\* passes through every handler and the server stops.
ConnectionError ==
    /\ phase \in {"play", "builds", "charges", "bankrots", "newTurn"}
    /\ Present # {}
    /\ phase' = "stopped"
    /\ UNCHANGED <<served, people, accounts, stock, plants, trade, session, loops>>

-----------------------------------------------------------------------------
(* GameEventsHandle and the month end.                                     *)

\* The end of a pass: not everybody alive is ready.
NextPass ==
    /\ phase = "play" /\ served # {}
    /\ ready # alive
    /\ served' = {}
    /\ UNCHANGED <<phase, people, accounts, stock, plants, trade, session, loops>>

\* Mutant: the month ends once there are enough who are ready.
CloseMonth_Enough ==
    /\ phase = "play" /\ turn < MaxTurn
    /\ ready >= alive
    /\ phase' = "openSource"
    /\ granted' = [k \in Kinds |-> Everybody(0)]
    /\ UNCHANGED <<served, people, accounts, stock, plants, sent, requests,
                   report, bids, offered, session, loops>>

\* The end of a pass: EndGameTurnEvent begins.
CloseMonth ==
    /\ phase = "play" /\ turn < MaxTurn
    /\ ready = alive
    /\ phase' = "openSource"
    /\ granted' = [k \in Kinds |-> Everybody(0)]
    /\ UNCHANGED <<served, people, accounts, stock, plants, sent, requests,
                   report, bids, offered, session, loops>>

OpenPhase(k)  == IF k = "source" THEN "openSource" ELSE "openProduct"
GrantPhase(k) == IF k = "source" THEN "grantSource" ELSE "grantProduct"
AfterAuction(k) == IF k = "source" THEN "openProduct" ELSE "builds"

\* StartAuction returns when nobody has ever made a request of this kind.
SkipAuction(k) ==
    /\ phase = OpenPhase(k)
    /\ requests[k] = <<>>
    /\ phase' = AfterAuction(k)
    /\ UNCHANGED <<served, people, accounts, stock, plants, trade, session, loops>>

\* The listings of a set in the order of a total order: there is just one.
Listings(S, before(_, _)) ==
    {f \in [1..Cardinality(S) -> S] :
        \A i, j \in 1..Cardinality(S) : i < j => before(f[i], f[j])}

\* AddEmptyAuctionRequest: in slot order, who is present and not listed.
Unlisted(reqs) == {p \in Present : ~Listed(reqs, p)}

WithEmptyRequests(reqs) ==
    { reqs \o [i \in DOMAIN f |-> [player |-> f[i], amount |-> 0, price |-> 0]] :
        f \in Listings(Unlisted(reqs), LAMBDA p, q : p < q) }

(***************************************************************************)
(* SortRequestsByPrice.  The prices are sorted, dearest first for sources  *)
(* and cheapest first for products, and each is looked up in the list: the *)
(* first search starts at the first request, every later one at the second *)
(* (i = 0 and then ++i).  So once another request goes first, the first    *)
(* request is never found, and nothing from it on is sorted in.            *)
(***************************************************************************)
Outranks(k, a, b) == IF k = "source" THEN a.price > b.price ELSE a.price < b.price

FirstGoesFirst(k, reqs) ==
    \A i \in DOMAIN reqs : ~Outranks(k, reqs[i], reqs[1])

Found(k, reqs) ==
    IF FirstGoesFirst(k, reqs) THEN DOMAIN reqs
    ELSE {i \in DOMAIN reqs \ {1} : ~Outranks(k, reqs[1], reqs[i])}

Before(k, reqs, i, j) ==
    \/ Outranks(k, reqs[i], reqs[j])
    \/ reqs[i].price = reqs[j].price /\ i < j

\* Mutant: the list is taken as it is.
Sorted_NotSorted(k, reqs) == {reqs}

Sorted(k, reqs) ==
    { [i \in DOMAIN f |-> reqs[f[i]]] :
        f \in Listings(Found(k, reqs), LAMBDA i, j : Before(k, reqs, i, j)) }

\* Mutant: the arrays grow with the list.
SortDefined_AnyLength(k, reqs) == TRUE

\* The arrays have ready elements and the search goes on to max_players.
SortDefined(k, reqs) ==
    /\ Len(reqs) = ready
    /\ FirstGoesFirst(k, reqs) \/ Len(reqs) = MaxPlayers

OpenAuction(k) ==
    /\ phase = OpenPhase(k)
    /\ requests[k] # <<>>
    /\ \E reqs \in WithEmptyRequests(requests[k]) :
           /\ SortDefined(k, reqs)
           /\ requests' = [requests EXCEPT ![k] = reqs]
           /\ bids' \in Sorted(k, reqs)
    /\ offered' = IF k = "source" THEN market.sources ELSE market.products
    /\ phase' = GrantPhase(k)
    /\ UNCHANGED <<served, people, accounts, stock, plants, sent, report,
                   granted, session, loops>>

\* An array is written or read out of its bounds.
SortOverrun(k) ==
    /\ phase = OpenPhase(k)
    /\ requests[k] # <<>>
    /\ \E reqs \in WithEmptyRequests(requests[k]) : ~SortDefined(k, reqs)
    /\ phase' = "undefined"
    /\ UNCHANGED <<served, people, accounts, stock, plants, trade, session, loops>>

\* Mutant: a bid gets all it asks for.
Grant_Uncapped(b) == IF b.price < 1 THEN 0 ELSE b.amount

\* What the next bid gets: all of it, or what is left; a zero price is skipped.
Grant(b) ==
    IF b.price < 1 THEN 0
    ELSE IF b.amount <= offered THEN b.amount ELSE offered

NextBid(k, got) ==
    /\ phase = GrantPhase(k) /\ bids # <<>>
    /\ got = Grant(Head(bids))
    /\ bids' = Tail(bids)
    /\ UNCHANGED <<phase, served, people, oldMoney, income, produced, plants,
                   sent, requests, session, loops>>

PassOver(k) ==
    /\ NextBid(k, 0)
    /\ Head(bids).price < 1 \/ ~free[Head(bids).player]
    /\ UNCHANGED <<money, sources, products, report, offered, granted>>

Trade(k) ==
    LET b   == Head(bids)
        got == Grant(b)
        p   == b.player
    IN  /\ NextBid(k, got)
        /\ got > 0 /\ ~free[p]
        /\ k = "product" => got <= products[p]
        /\ money' = [money EXCEPT ![p] =
               IF k = "source" THEN @ - got * b.price ELSE @ + got * b.price]
        /\ sources' = IF k = "source" THEN [sources EXCEPT ![p] = @ + got] ELSE sources
        /\ products' = IF k = "product" THEN [products EXCEPT ![p] = @ - got] ELSE products
        /\ report' = [report EXCEPT ![k][p] = [amount |-> got, price |-> b.price]]
        /\ granted' = [granted EXCEPT ![k][p] = @ + got]
        /\ offered' = offered - got

\* GetPlayerByUID has no player for the number: a null pointer is followed.
MissingBidder(k) ==
    /\ phase = GrantPhase(k) /\ bids # <<>>
    /\ Head(bids).price >= 1 /\ free[Head(bids).player]
    /\ phase' = "undefined"
    /\ UNCHANGED <<served, people, accounts, stock, plants, trade, session, loops>>

\* SetProducts refuses a negative amount and the server stops.
Oversold ==
    /\ phase = "grantProduct" /\ bids # <<>>
    /\ ~free[Head(bids).player]
    /\ Grant(Head(bids)) > products[Head(bids).player]
    /\ phase' = "stopped"
    /\ UNCHANGED <<served, people, accounts, stock, plants, trade, session, loops>>

CloseAuction(k) ==
    /\ phase = GrantPhase(k) /\ bids = <<>>
    /\ phase' = AfterAuction(k)
    /\ UNCHANGED <<served, people, accounts, stock, plants, trade, session, loops>>

-----------------------------------------------------------------------------
(* CheckBuildingFactories walks every player's list of building sites.     *)

Walking(p) == phase = "builds" /\ walker = p /\ ~free[p] /\ ~bankrot[p]

\* Mutant: the next player's list is walked from where this one's walk ended.
NextPlayer_SameNode == walker' = walker + 1 /\ node' = node

\* Mutant: the loop does not go on to the next player.
NextPlayer_Stays == walker' = walker /\ node' = 1

NextPlayer == walker' = walker + 1 /\ node' = 1

\* One month less for a site that is neither due nor done.
Age(p) ==
    /\ Walking(p) /\ node <= Len(builds[p])
    /\ builds[p][node].left \notin {0, 1}
    /\ builds' = [builds EXCEPT ![p][node].left = @ - 1]
    /\ node' = node + 1
    /\ UNCHANGED <<phase, served, people, accounts, stock, wait, work, built,
                   trade, session, walker>>

\* One month is left: the second half is paid, if the player has it.
PaySecondHalf(p) ==
    /\ Walking(p) /\ node <= Len(builds[p])
    /\ builds[p][node].left = 1
    /\ money[p] - Half >= 0
    /\ money' = [money EXCEPT ![p] = @ - Half]
    /\ builds' = [builds EXCEPT ![p][node].left = 0]
    /\ node' = node + 1
    /\ UNCHANGED <<phase, served, people, oldMoney, income, stock, wait, work,
                   built, trade, session, walker>>

CannotPayHalf(p) ==
    /\ Walking(p) /\ node <= Len(builds[p])
    /\ builds[p][node].left = 1
    /\ money[p] - Half < 0
    /\ bankrot' = [bankrot EXCEPT ![p] = TRUE]
    /\ NextPlayer
    /\ UNCHANGED <<phase, served, free, turned, accounts, stock, plants, trade, session>>

\* The site is done: it leaves the list, and the list is walked from its start.
Complete(p) ==
    /\ Walking(p) /\ node <= Len(builds[p])
    /\ builds[p][node].left = 0
    /\ builds' = [builds EXCEPT ![p] =
           [i \in 1..(Len(@) - 1) |-> IF i < node THEN @[i] ELSE @[i + 1]]]
    /\ built' = [built EXCEPT ![p] = @ - 1]
    /\ wait' = [wait EXCEPT ![p] = @ + 1]
    /\ node' = 1
    /\ UNCHANGED <<phase, served, people, accounts, stock, work, trade, session, walker>>

LeavePlayer ==
    /\ phase = "builds" /\ walker \in Players
    /\ free[walker] \/ bankrot[walker] \/ node > Len(builds[walker])
    /\ NextPlayer
    /\ UNCHANGED <<phase, served, people, accounts, stock, plants, trade, session>>

EndWalk ==
    /\ phase = "builds" /\ walker > MaxPlayers
    /\ walker' = 1 /\ node' = 1
    /\ phase' = "charges"
    /\ UNCHANGED <<served, people, accounts, stock, plants, trade, session>>

-----------------------------------------------------------------------------
Charges(p) == sources[p] * SourceCharge + products[p] * ProductCharge
              + (wait[p] + work[p]) * FactoryCharge

\* Mutant: the charges are taken whether the player has the money or not.
PayCharges_Unchecked ==
    /\ phase = "charges"
    /\ money' = [p \in Players |->
           IF p \in Present /\ ~bankrot[p] THEN money[p] - Charges(p) ELSE money[p]]
    /\ phase' = "bankrots"
    /\ UNCHANGED <<served, people, oldMoney, income, stock, plants, trade, session, loops>>

\* PayCharges.  The players' charges do not depend on each other.
PayCharges ==
    LET payers == {p \in Present : ~bankrot[p]}
        solvent == {p \in payers : money[p] - Charges(p) >= 0}
    IN  /\ phase = "charges"
        /\ money' = [p \in Players |-> IF p \in solvent THEN money[p] - Charges(p) ELSE money[p]]
        /\ bankrot' = [p \in Players |-> bankrot[p] \/ p \in payers \ solvent]
        /\ phase' = "bankrots"
        /\ UNCHANGED <<served, free, turned, oldMoney, income, stock, plants,
                       trade, session, loops>>

\* QuitBankrotPlayers quits every bankrupt player, in slot order.
QuitBankrots ==
    LET leaving == {p \in Present : bankrot[p]}
    IN  /\ phase = "bankrots"
        /\ free' = [p \in Players |-> free[p] \/ p \in leaving]
        /\ alive' = alive - Cardinality(leaving)
        /\ phase' = "newTurn"
        /\ UNCHANGED <<served, bankrot, turned, accounts, stock, plants, trade,
                       ready, turn, level, market, loops>>

\* The players whose sheet the new month cleans: in the game and not bankrupt.
Playing == {p \in Present : ~bankrot[p]}

Renew(f, new) == [p \in Players |-> IF p \in Playing THEN new[p] ELSE f[p]]

\* PrepareNewTurn: a new market, and what was worked on becomes products.
PrepareNewTurn ==
    /\ phase = "newTurn"
    /\ \E r \in Rolls : level' \in LevelAfter(level, r)
    /\ market' = MarketAt(level', alive)
    /\ turn' = turn + 1 /\ ready' = 0
    /\ sent' = [k \in Kinds |-> Renew(sent[k], Everybody(FALSE))]
    /\ turned' = Renew(turned, Everybody(FALSE))
    /\ income' = Renew(income, [p \in Players |-> money[p] - oldMoney[p]])
    /\ oldMoney' = Renew(oldMoney, money)
    /\ produced' = Renew(produced, work)
    /\ products' = Renew(products, [p \in Players |-> products[p] + work[p]])
    /\ wait' = Renew(wait, [p \in Players |-> wait[p] + work[p]])
    /\ work' = Renew(work, Everybody(0))
    /\ phase' = "play" /\ served' = {}
    /\ UNCHANGED <<alive, free, bankrot, money, sources, built, builds,
                   requests, report, bids, offered, granted, loops>>

-----------------------------------------------------------------------------
Command(p) ==
    \/ Prod(p)
    \/ Build(p)
    \/ BuildOverflow(p)
    \/ \E b \in BuyBids : Buy(p, b)
    \/ \E b \in SellBids : Sell(p, b)
    \/ Turn(p)

Auction(k) ==
    \/ SkipAuction(k)
    \/ OpenAuction(k)
    \/ SortOverrun(k)
    \/ PassOver(k)
    \/ Trade(k)
    \/ MissingBidder(k)
    \/ CloseAuction(k)

CheckBuilds ==
    \/ \E p \in Players :
           Age(p) \/ PaySecondHalf(p) \/ CannotPayHalf(p) \/ Complete(p)
    \/ LeavePlayer
    \/ EndWalk

MonthEnd ==
    \/ \E k \in Kinds : Auction(k)
    \/ Oversold
    \/ CheckBuilds
    \/ PayCharges
    \/ QuitBankrots
    \/ PrepareNewTurn

Next ==
    \/ \E p \in Players : Command(p) \/ Disconnect(p)
    \/ NextPass
    \/ ConnectionError
    \/ CloseMonth
    \/ MonthEnd

Spec == Init /\ [][Next]_vars

\* The loop of Server::Run goes on by itself; no player has to do anything.
FairSpec == Spec /\ WF_vars(NextPass) /\ WF_vars(CloseMonth) /\ WF_vars(MonthEnd)
=============================================================================
