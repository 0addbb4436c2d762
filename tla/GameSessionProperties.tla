----------------------- MODULE GameSessionProperties -----------------------
(***************************************************************************)
(* What a game session has to keep: the invariants, action properties and  *)
(* liveness properties of GameSession that hold of the code, and, at the   *)
(* end, statements of README.md that the code does not keep.               *)
(***************************************************************************)
EXTENDS GameSession

Amounts == [Players -> Nat]

Site == [num : 1..MaxPlayers, left : 0..TurnsToBuild, since : Nat]

Request == [player : Players, amount : Nat, price : Nat]

LoopType == phase \in Phases /\ served \subseteq Players

PeopleType ==
    /\ free \in [Players -> BOOLEAN] /\ bankrot \in [Players -> BOOLEAN]
    /\ turned \in [Players -> BOOLEAN]

AccountsType ==
    /\ money \in [Players -> Int] /\ oldMoney \in [Players -> Int]
    /\ income \in [Players -> Int]

StockType == sources \in Amounts /\ products \in Amounts /\ produced \in Amounts

PlantsType ==
    /\ wait \in Amounts /\ work \in Amounts /\ built \in Amounts
    /\ builds \in [Players -> Seq(Site)]

TradeType ==
    /\ sent \in [Kinds -> [Players -> BOOLEAN]]
    /\ requests \in [Kinds -> Seq(Request)] /\ bids \in Seq(Request)
    /\ report \in [Kinds -> [Players -> [amount : Nat, price : Nat]]]
    /\ granted \in [Kinds -> Amounts] /\ offered \in Nat

SessionType ==
    /\ alive \in 0..MaxPlayers /\ ready \in 0..MaxPlayers
    /\ turn \in Nat /\ level \in Levels
    /\ market \in [sources : Nat, minPrice : Nat, products : Nat, maxPrice : Nat]

WalkType == walker \in 1..(MaxPlayers + 1) /\ node \in Nat \ {0}

\* Every variable has the type its class declares, the setters' checks for
\* negative and out-of-range values included: none of them can fail, other
\* than the two that the phase "stopped" stands for.
TypeOK ==
    /\ LoopType /\ PeopleType /\ AccountsType /\ StockType /\ PlantsType
    /\ TradeType /\ SessionType /\ WalkType

-----------------------------------------------------------------------------
(* The counters.                                                           *)

Waiting == {p \in Present : ~turned[p]}

\* alive_players counts at least the players present, and ready_players at
\* least those of them who ended the turn, with room left for the others to
\* do so: however players turn, leave and go bankrupt, the decrements and
\* increments of QuitPlayer and TurnCmdUpdateGameState stay in range.
CountersCoverPlayers ==
    /\ alive >= Cardinality(Present)
    /\ ready >= Cardinality(Present \ Waiting)
    /\ ready + Cardinality(Waiting) <= MaxPlayers

\* How far alive_players is off the players present is decided in the lobby:
\* no step of a game changes it.
DriftIsConstant ==
    [][alive' - Cardinality(Present') = alive - Cardinality(Present)]_vars

-----------------------------------------------------------------------------
(* Money, goods and factories.                                             *)

\* Who plays a month can pay: the auction may overdraw an account, since Buy
\* does not reserve the money it checks, but PayCharges and QuitBankrotPlayers
\* leave nobody in the game with a debt or declared bankrupt.
SolventInPlay ==
    phase = "play" => \A p \in Present : money[p] >= 0 /\ ~bankrot[p]

Goods(p) == sources[p] + work[p] + products[p]

\* What a player has in sources, work and products changes in the auctions
\* only: production turns one unit into another, over two months' handlers.
GoodsMoveInAuctionsOnly ==
    [][\A p \in Players :
           Goods(p)' # Goods(p) => phase \in {"grantSource", "grantProduct"}]_vars

Factories(p) == wait[p] + work[p] + built[p]

\* Factories are lost in no step, and appear only by one order of a player who
\* pays for it at once: completing a site, production and the new month move
\* them between waiting, working and being built.
FactoriesAreOrdered ==
    [][\A p \in Players :
           Factories(p)' # Factories(p) =>
               /\ Factories(p)' = Factories(p) + 1
               /\ money[p]' = money[p] - Half
               /\ Len(builds[p]') = Len(builds[p]) + 1]_vars

\* built_factories is the length of the list, and the numbers that Delete
\* looks sites up by are distinct.
BuiltCountsSites ==
    \A p \in Players :
        /\ built[p] = Len(builds[p])
        /\ \A i, j \in DOMAIN builds[p] : builds[p][i].num = builds[p][j].num => i = j

\* Every month end takes one month off every site, although the walk of
\* CheckBuildingFactories goes back to the start of the list whenever a site
\* is completed.
BuildsOnSchedule ==
    phase = "play" =>
        \A p \in Present : \A i \in DOMAIN builds[p] :
            builds[p][i].left = TurnsToBuild - (turn - builds[p][i].since)

-----------------------------------------------------------------------------
(* The auctions.                                                           *)

\* The units of an auction, by who has them: as many as it has granted in all.
Units(f) == UNION {{p} \X (1..f[p]) : p \in Players}

Supply(k) == IF k = "source" THEN market.sources ELSE market.products

\* The bank never sells more sources, nor buys more products, than it announced.
SupplyRespected ==
    phase \notin {"play", "stopped", "undefined"} =>
        \A k \in Kinds : Cardinality(Units(granted[k])) <= Supply(k)

\* The loop of StartAuction asks for the bidder by number and follows the
\* answer.  When nobody left the lobby, the sort is defined only if nobody with
\* a request has left since, so the answer is never a null pointer.
BiddersArePresent == \A i \in DOMAIN bids : bids[i].player \in Present

AuctionDone(k) ==
    \/ k = "source" /\ phase \in {"openProduct", "grantProduct"}
    \/ phase \in {"builds", "charges", "bankrots", "newTurn"}

\* Price goes first: when a request got anything, every request that outranks
\* it got all it asked for.  (A request may be left out of the sorted list,
\* with all that follow it, but not overtaken.)
PricePriority ==
    \A k \in Kinds : AuctionDone(k) =>
        \A i, j \in DOMAIN requests[k] :
            LET a == requests[k][i]
                b == requests[k][j]
            IN  /\ granted[k][b.player] > 0
                /\ a.price > 0 /\ Outranks(k, a, b)
                => granted[k][a.player] = a.amount

-----------------------------------------------------------------------------
(* What the players see of the months.                                     *)

Stopped == phase \in {"stopped", "undefined"}

\* From QuitBankrotPlayers on the old month is over; before it, it is not.
MonthOver == Stopped \/ phase = "newTurn"

Session == INSTANCE Rounds WITH
    Players <- Players,
    running <- ~Stopped,
    month   <- IF Stopped THEN 0 ELSE IF MonthOver THEN turn + 1 ELSE turn,
    present <- IF Stopped THEN {} ELSE Present,
    ended   <- IF MonthOver THEN {} ELSE Present \ Waiting,
    ghosts  <- IF MonthOver THEN 0 ELSE ready - Cardinality(Present \ Waiting),
    missing <- IF Stopped THEN 0 ELSE alive - Cardinality(Present)

\* The session with its counters and its month end of many steps is, to its
\* players, one of sets and of one step: nobody sees a month half ended, the
\* counters mean the players in the game with those who left after the turn or
\* in the lobby, and no turn is lost or taken twice.
ImplementsRounds == Session!Spec

-----------------------------------------------------------------------------
(* Liveness.                                                               *)

\* A month end comes to its end: the walk over the building sites, which is
\* restarted at every completed site, and the auctions always finish.
MonthEndFinishes ==
    phase \notin {"play", "stopped", "undefined"}
        ~> phase \in {"play", "stopped", "undefined"}

-----------------------------------------------------------------------------
(* What README.md says and the code does not keep.                         *)

\* README.md:168: the month ends when all players have ended their turn.
\* The code compares two counters, and who leaves after ending the turn is
\* still counted as ready.
MonthEndsWhenAllTurned == phase = "openSource" => \A p \in Present : turned[p]

=============================================================================
