------------------------- MODULE GameSession_proofs -------------------------
(***************************************************************************)
(* Theorems of GameSession, for every choice of the game's settings and of *)
(* the bounds.  The inductive invariant is                                 *)
(*    TypeOK         the types,                                            *)
(*    CountersCoverPlayers, BuiltCountsSites                               *)
(*                   which the types of the counters rest on,              *)
(*    Solvency       who is bankrupt or in debt in which phase,            *)
(*    Schedule       how much of a site's time is left in which phase.     *)
(* Then the auctions, the abstract months, and the dispatch of commands.   *)
(***************************************************************************)
EXTENDS GameSessionProperties, CommandsProperties, FiniteSetTheorems, SequenceTheorems, TLAPS

Auctioning == {"openSource", "grantSource", "openProduct", "grantProduct"}

\* Bankrupts exist between the walk and QuitBankrotPlayers, debts between the
\* auction and PayCharges.
Solvency ==
    /\ phase \in {"play", "newTurn"} \cup Auctioning => \A p \in Present : ~bankrot[p]
    /\ phase \in {"play", "bankrots", "newTurn"} =>
           \A p \in Present : bankrot[p] \/ money[p] >= 0

\* The months a site ordered in month since has left in month now.
Due(since, now) == TurnsToBuild - (now - since)

\* The walk of the month end has been at the i-th site of p.
Walked(p, i) ==
    \/ phase \in {"charges", "bankrots", "newTurn"}
    \/ phase = "builds" /\ (walker > p \/ (walker = p /\ i < node))

OnSchedule(p) ==
    \A i \in DOMAIN builds[p] :
        builds[p][i].left =
            IF Walked(p, i) THEN Due(builds[p][i].since, turn) - 1
                            ELSE Due(builds[p][i].since, turn)

OldestFirst(p) ==
    \A i \in DOMAIN builds[p] :
        /\ builds[p][i].since <= turn
        /\ \A j \in DOMAIN builds[p] : i < j => builds[p][i].since <= builds[p][j].since

Schedule ==
    /\ phase \notin {"builds", "stopped"} => walker = 1 /\ node = 1
    /\ phase \notin {"stopped", "undefined"} =>
           \A p \in Present : ~bankrot[p] => OnSchedule(p) /\ OldestFirst(p)

IInv == TypeOK /\ CountersCoverPlayers /\ BuiltCountsSites /\ Solvency /\ Schedule

-----------------------------------------------------------------------------
\* MarketAt gives natural numbers at every level: Banker.cpp's tables hold no
\* negative entry, and the setters of MarketState never refuse.
LEMMA MarketType ==
    ASSUME NEW l \in Levels, NEW n \in Nat
    PROVE  MarketAt(l, n) \in [sources : Nat, minPrice : Nat, products : Nat, maxPrice : Nat]
<1>1. amount_multiplier_doubled[l][1] \in Nat /\ amount_multiplier_doubled[l][2] \in Nat
  BY SMT DEF Levels, amount_multiplier_doubled
<1>2. price_table[l][1] \in Nat /\ price_table[l][2] \in Nat
  BY SMT DEF Levels, price_table
<1>3. ASSUME NEW m \in Nat PROVE (m * n) \div 2 \in Nat
  <2>1. m * n \in Nat
    BY SMT
  <2> QED BY <2>1, SMT
<1> QED BY <1>1, <1>2, <1>3 DEF MarketAt

LEMMA LevelAfterType ==
    ASSUME NEW l \in Levels, NEW r \in Dice, NEW m \in LevelAfter(l, r)
    PROVE  m \in Levels
BY DEF LevelAfter

\* Sizes of sets of players.
LEMMA PlayersFinite ==
    /\ IsFiniteSet(Players)
    /\ Cardinality(Players) = MaxPlayers
    /\ \A S \in SUBSET Players :
          /\ IsFiniteSet(S)
          /\ Cardinality(S) \in 0..MaxPlayers
<1>1. IsFiniteSet(Players) /\ Cardinality(Players) = MaxPlayers
  BY FS_Interval, SettingsAssumption DEF Players
<1>2. ASSUME NEW S \in SUBSET Players
      PROVE  IsFiniteSet(S) /\ Cardinality(S) \in 0..MaxPlayers
  <2>1. IsFiniteSet(S) /\ Cardinality(S) <= Cardinality(Players)
    BY <1>1, FS_Subset
  <2>2. Cardinality(S) \in Nat
    BY <2>1, FS_CardinalityType
  <2> QED BY <1>1, <2>1, <2>2, SettingsAssumption, SMT
<1> QED BY <1>1, <1>2

\* Of two sets of players one of which contains the other.
LEMMA SubsetSize ==
    ASSUME NEW S \in SUBSET Players, NEW T \in SUBSET S
    PROVE  /\ Cardinality(T) <= Cardinality(S)
           /\ Cardinality(S \ T) = Cardinality(S) - Cardinality(T)
<1>1. IsFiniteSet(S) /\ IsFiniteSet(T)
  BY PlayersFinite
<1>2. Cardinality(T) <= Cardinality(S)
  BY <1>1, FS_Subset
<1>3. S \cap T = T
  OBVIOUS
<1>4. Cardinality(S \ T) = Cardinality(S) - Cardinality(S \cap T)
  BY <1>1, FS_Difference
<1> QED BY <1>2, <1>3, <1>4

\* The same, as numbers.
LEMMA SizeOrder ==
    \A S \in SUBSET Players : \A T \in SUBSET S :
        /\ Cardinality(T) <= Cardinality(S)
        /\ Cardinality(T) \in Nat /\ Cardinality(S) \in Nat
<1> SUFFICES ASSUME NEW S \in SUBSET Players, NEW T \in SUBSET S
             PROVE  /\ Cardinality(T) <= Cardinality(S)
                    /\ Cardinality(T) \in Nat /\ Cardinality(S) \in Nat
  OBVIOUS
<1>1. T \in SUBSET Players
  OBVIOUS
<1>2. Cardinality(T) <= Cardinality(S)
  BY SubsetSize
<1> QED BY <1>1, <1>2, PlayersFinite

LEMMA NoPlayers == Cardinality({}) = 0
BY FS_EmptySet

LEMMA RemovePlayer ==
    ASSUME NEW S \in SUBSET Players, NEW p \in S
    PROVE  Cardinality(S \ {p}) = Cardinality(S) - 1
BY PlayersFinite, FS_RemoveElement

-----------------------------------------------------------------------------
(* Type correctness, action by action.                                     *)

\* Groups of variables that a step leaves alone keep their types.
LEMMA UnchangedTypes ==
    ASSUME TypeOK
    PROVE  /\ UNCHANGED <<phase, served>> => LoopType'
           /\ UNCHANGED people => PeopleType'
           /\ UNCHANGED accounts => AccountsType'
           /\ UNCHANGED stock => StockType'
           /\ UNCHANGED plants => PlantsType'
           /\ UNCHANGED trade => TradeType'
           /\ UNCHANGED session => SessionType'
           /\ UNCHANGED loops => WalkType'
BY DEF TypeOK, LoopType, PeopleType, AccountsType, StockType, PlantsType, TradeType,
       SessionType, WalkType, people, accounts, stock, plants, trade, session, loops

LEMMA ProdType ==
    ASSUME TypeOK, NEW p \in Players, Prod(p)
    PROVE  TypeOK'
<1>1. LoopType'
  BY DEF TypeOK, LoopType, Prod, Handled
<1>2. AccountsType'
  BY SettingsAssumption DEF TypeOK, AccountsType, Prod
<1>3. StockType'
  BY DEF TypeOK, StockType, Amounts, Prod
<1>4. PlantsType'
  BY DEF TypeOK, PlantsType, Amounts, Prod
<1> QED BY <1>1, <1>2, <1>3, <1>4, UnchangedTypes DEF TypeOK, Prod

LEMMA BuildType ==
    ASSUME TypeOK, NEW p \in Players, Build(p)
    PROVE  TypeOK'
<1>1. LoopType'
  BY DEF TypeOK, LoopType, Build, Handled
<1>2. AccountsType'
  BY SettingsAssumption DEF TypeOK, AccountsType, Build, Half
<1>3. PlantsType'
  <2>1. PICK n \in 0..(MaxPlayers - 1) :
           builds' = [builds EXCEPT ![p] =
               Append(@, [num |-> n + 1, left |-> TurnsToBuild, since |-> turn])]
    BY DEF Build
  <2>2. [num |-> n + 1, left |-> TurnsToBuild, since |-> turn] \in Site
    BY SettingsAssumption DEF TypeOK, SessionType, Site
  <2>3. builds' \in [Players -> Seq(Site)]
    BY <2>1, <2>2 DEF TypeOK, PlantsType
  <2> QED BY <2>3 DEF TypeOK, PlantsType, Amounts, Build
<1> QED BY <1>1, <1>2, <1>3, UnchangedTypes DEF TypeOK, Build

LEMMA SendRequestType ==
    ASSUME TypeOK, NEW p \in Players, NEW k \in Kinds,
           NEW b, b.amount \in Nat, b.price \in Nat, SendRequest(k, p, b)
    PROVE  TypeOK'
<1>1. LoopType'
  BY DEF TypeOK, LoopType, SendRequest, Handled
<1>2. TradeType'
  <2>1. [player |-> p, amount |-> b.amount, price |-> b.price] \in Request
    BY DEF Request
  <2>2. Insert(requests[k], p, b) \in Seq(Request)
    BY <2>1 DEF TypeOK, TradeType, Insert
  <2>3. requests' \in [Kinds -> Seq(Request)]
    BY <2>2 DEF TypeOK, TradeType, SendRequest
  <2>4. sent' \in [Kinds -> [Players -> BOOLEAN]]
    BY DEF TypeOK, TradeType, SendRequest
  <2> QED BY <2>3, <2>4 DEF TypeOK, TradeType, SendRequest
<1> QED BY <1>1, <1>2, UnchangedTypes DEF TypeOK, SendRequest

LEMMA BuyType ==
    ASSUME TypeOK, NEW p \in Players, NEW b \in BuyBids, Buy(p, b)
    PROVE  TypeOK'
<1>1. b.amount \in Nat /\ b.price \in Nat
  BY BoundsAssumption DEF Buy, TypeOK, SessionType
<1> QED BY <1>1, SendRequestType DEF Buy, Kinds

LEMMA SellType ==
    ASSUME TypeOK, NEW p \in Players, NEW b \in SellBids, Sell(p, b)
    PROVE  TypeOK'
<1>1. b.amount \in Nat /\ b.price \in Nat
  BY BoundsAssumption DEF Sell
<1> QED BY <1>1, SendRequestType DEF Sell, Kinds

\* The counters stay in range because they cover the players.
LEMMA WaitingSets ==
    /\ Present \in SUBSET Players
    /\ Waiting \in SUBSET Present
    /\ Waiting \in SUBSET Players
    /\ Present \ Waiting \in SUBSET Players
BY DEF Present, Waiting

LEMMA TurnType ==
    ASSUME TypeOK, CountersCoverPlayers, NEW p \in Players, Turn(p)
    PROVE  TypeOK'
<1>1. p \in Waiting
  BY DEF Turn, MayCommand, Waiting, Present
<1>2. Cardinality(Waiting) >= 1
  <2>1. Cardinality(Waiting \ {p}) = Cardinality(Waiting) - 1
    BY <1>1, WaitingSets, RemovePlayer
  <2>2. Cardinality(Waiting \ {p}) \in Nat /\ Cardinality(Waiting) \in Nat
    BY WaitingSets, PlayersFinite
  <2> QED BY <2>1, <2>2
<1>3. Cardinality(Waiting) \in Nat
  BY WaitingSets, PlayersFinite
<1>4. SessionType'
  BY <1>2, <1>3, SettingsAssumption DEF TypeOK, SessionType, CountersCoverPlayers, Turn
<1>5. PeopleType'
  BY DEF TypeOK, PeopleType, Turn
<1>6. LoopType'
  BY DEF TypeOK, LoopType, Turn, Handled
<1> QED BY <1>4, <1>5, <1>6, UnchangedTypes DEF TypeOK, Turn

LEMMA DisconnectType ==
    ASSUME TypeOK, CountersCoverPlayers, NEW p \in Players, Disconnect(p)
    PROVE  TypeOK'
<1>1. p \in Present
  BY DEF Disconnect, Present
<1>2. Cardinality(Present) \in Nat /\ Cardinality(Present) >= 1
  <2>1. Cardinality(Present \ {p}) = Cardinality(Present) - 1
    BY <1>1, WaitingSets, RemovePlayer
  <2>2. Cardinality(Present \ {p}) \in Nat /\ Cardinality(Present) \in Nat
    BY WaitingSets, PlayersFinite
  <2> QED BY <2>1, <2>2
<1>3. SessionType'
  BY <1>2, SettingsAssumption DEF TypeOK, SessionType, CountersCoverPlayers, Disconnect
<1>4. PeopleType'
  BY DEF TypeOK, PeopleType, Disconnect
<1> QED BY <1>3, <1>4, UnchangedTypes DEF TypeOK, Disconnect

LEMMA CloseMonthType ==
    ASSUME TypeOK, CloseMonth
    PROVE  TypeOK'
<1>1. TradeType'
  BY DEF TypeOK, TradeType, CloseMonth, Everybody, Amounts
<1>2. LoopType'
  BY DEF TypeOK, LoopType, CloseMonth, Phases
<1> QED BY <1>1, <1>2, UnchangedTypes DEF TypeOK, CloseMonth

\* Steps that do no more than move on to another phase.
MovesOn ==
    /\ phase' \in Phases /\ served' \subseteq Players
    /\ UNCHANGED <<people, accounts, stock, plants, trade, session, loops>>

LEMMA MovesOnType ==
    ASSUME TypeOK, MovesOn
    PROVE  TypeOK'
BY UnchangedTypes DEF TypeOK, LoopType, MovesOn

LEMMA MovingOn ==
    ASSUME TypeOK
    PROVE  /\ NextPass => MovesOn
           /\ \A p \in Players : BuildOverflow(p) => MovesOn
           /\ \A k \in Kinds :
                 \/ SkipAuction(k) \/ SortOverrun(k) \/ MissingBidder(k) \/ CloseAuction(k)
                 => MovesOn
           /\ Oversold \/ ConnectionError => MovesOn
BY DEF TypeOK, LoopType, Phases, MovesOn, NextPass, BuildOverflow, SkipAuction, SortOverrun,
       MissingBidder, CloseAuction, AfterAuction, Oversold,
       ConnectionError

LEMMA FunctionIsSeq ==
    ASSUME NEW S, NEW n \in Nat, NEW s \in [1..n -> S]
    PROVE  s \in Seq(S)
BY SeqDef

\* A list read at indices of its own is a list of its elements.
LEMMA PickedRequests ==
    ASSUME NEW reqs \in Seq(Request), NEW S \in SUBSET (DOMAIN reqs), NEW n \in Nat,
           NEW f \in [1..n -> S]
    PROVE  [i \in 1..n |-> reqs[f[i]]] \in Seq(Request)
<1>1. ASSUME NEW i \in 1..n PROVE reqs[f[i]] \in Request
  OBVIOUS
<1> QED BY <1>1, FunctionIsSeq

LEMMA EmptyRequestsType ==
    ASSUME TypeOK, NEW reqs \in Seq(Request), NEW new \in WithEmptyRequests(reqs)
    PROVE  new \in Seq(Request)
<1>1. Unlisted(reqs) \in SUBSET Players
  BY DEF Unlisted, Present
<1>2. Cardinality(Unlisted(reqs)) \in Nat
  BY <1>1, PlayersFinite
<1>3. PICK f \in [1..Cardinality(Unlisted(reqs)) -> Unlisted(reqs)] :
         new = reqs \o [i \in DOMAIN f |-> [player |-> f[i], amount |-> 0, price |-> 0]]
  BY DEF WithEmptyRequests, Listings
<1>4. [i \in DOMAIN f |-> [player |-> f[i], amount |-> 0, price |-> 0]] \in Seq(Request)
  <2>1. ASSUME NEW i \in 1..Cardinality(Unlisted(reqs))
        PROVE  [player |-> f[i], amount |-> 0, price |-> 0] \in Request
    BY <1>1 DEF Request
  <2> QED BY <1>2, <2>1, FunctionIsSeq
<1>5. ASSUME NEW g \in Seq(Request) PROVE reqs \o g \in Seq(Request)
  BY ConcatProperties
<1> QED BY <1>3, <1>4, <1>5

LEMMA SortedType ==
    ASSUME NEW k \in Kinds, NEW reqs \in Seq(Request), NEW s \in Sorted(k, reqs)
    PROVE  s \in Seq(Request)
<1> DEFINE S == Found(k, reqs)
<1>1. S \in SUBSET (DOMAIN reqs)
  BY DEF Found
<1>2. Cardinality(S) \in Nat
  <2>1. IsFiniteSet(DOMAIN reqs)
    <3>1. DOMAIN reqs = 1..Len(reqs) /\ Len(reqs) \in Nat
      OBVIOUS
    <3> QED BY <3>1, FS_Interval
  <2>2. IsFiniteSet(S)
    BY <1>1, <2>1, FS_Subset
  <2> QED BY <2>2, FS_CardinalityType
<1>3. PICK f \in [1..Cardinality(S) -> S] : s = [i \in DOMAIN f |-> reqs[f[i]]]
  BY DEF Sorted, Listings
<1>4. s = [i \in 1..Cardinality(S) |-> reqs[f[i]]]
  BY <1>3
<1> QED BY <1>1, <1>2, <1>4, PickedRequests

LEMMA OpenAuctionType ==
    ASSUME TypeOK, NEW k \in Kinds, OpenAuction(k)
    PROVE  TypeOK'
<1>1. requests[k] \in Seq(Request)
  BY DEF TypeOK, TradeType
<1>2. PICK reqs \in WithEmptyRequests(requests[k]) :
         requests' = [requests EXCEPT ![k] = reqs] /\ bids' \in Sorted(k, reqs)
  BY DEF OpenAuction
<1>3. reqs \in Seq(Request)
  BY <1>1, EmptyRequestsType
<1>4. bids' \in Seq(Request)
  BY <1>2, <1>3, SortedType
<1>5. TradeType'
  BY <1>2, <1>3, <1>4 DEF TypeOK, TradeType, SessionType, OpenAuction
<1>6. LoopType'
  BY DEF TypeOK, LoopType, Phases, OpenAuction, GrantPhase
<1> QED BY <1>5, <1>6, UnchangedTypes DEF TypeOK, OpenAuction

LEMMA HeadRequest ==
    ASSUME TypeOK, bids # <<>>
    PROVE  /\ Head(bids) \in Request /\ Tail(bids) \in Seq(Request)
           /\ Head(bids).player \in Players
           /\ Head(bids).amount \in Nat /\ Head(bids).price \in Nat
           /\ Grant(Head(bids)) \in 0..offered
           /\ Grant(Head(bids)) \in Nat
           /\ offered \in Nat
<1>1. Head(bids) \in Request /\ Tail(bids) \in Seq(Request)
  BY DEF TypeOK, TradeType
<1>2. offered \in Nat
  BY DEF TypeOK, TradeType
<1> QED BY <1>1, <1>2 DEF Request, Grant

LEMMA PassOverType ==
    ASSUME TypeOK, NEW k \in Kinds, PassOver(k)
    PROVE  TypeOK'
<1>1. TradeType'
  BY HeadRequest DEF TypeOK, TradeType, PassOver, NextBid
<1>2. AccountsType' /\ StockType'
  BY DEF TypeOK, AccountsType, StockType, PassOver, NextBid
<1> QED BY <1>1, <1>2, UnchangedTypes DEF TypeOK, PassOver, NextBid

LEMMA TradeStepType ==
    ASSUME TypeOK, NEW k \in Kinds, Trade(k)
    PROVE  TypeOK'
<1> DEFINE b == Head(bids)
           got == Grant(b)
           p == b.player
<1>1. /\ p \in Players /\ got \in 0..offered /\ got \in Nat /\ b.price \in Nat
      /\ Tail(bids) \in Seq(Request) /\ offered \in Nat
  BY HeadRequest DEF Trade, NextBid
<1>2. got * b.price \in Nat
  BY <1>1
<1> HIDE DEF b, got, p
<1>3. Trade(k) => /\ bids' = Tail(bids) /\ got > 0 /\ (k = "product" => got <= products[p])
                  /\ money' = [money EXCEPT ![p] =
                        IF k = "source" THEN @ - got * b.price ELSE @ + got * b.price]
                  /\ sources' = IF k = "source" THEN [sources EXCEPT ![p] = @ + got] ELSE sources
                  /\ products' = IF k = "product" THEN [products EXCEPT ![p] = @ - got]
                                 ELSE products
                  /\ report' = [report EXCEPT ![k][p] = [amount |-> got, price |-> b.price]]
                  /\ granted' = [granted EXCEPT ![k][p] = @ + got]
                  /\ offered' = offered - got
                  /\ UNCHANGED <<phase, served, people, oldMoney, income, produced, plants,
                                 sent, requests, session, loops>>
  BY DEF Trade, NextBid, b, got, p
<1>4. AccountsType'
  BY <1>1, <1>2, <1>3 DEF TypeOK, AccountsType
<1>5. StockType'
  BY <1>1, <1>3 DEF TypeOK, StockType, Amounts
<1>6. TradeType'
  <2>1. /\ granted \in [Kinds -> [Players -> Nat]]
        /\ report \in [Kinds -> [Players -> [amount : Nat, price : Nat]]]
        /\ sent \in [Kinds -> [Players -> BOOLEAN]] /\ requests \in [Kinds -> Seq(Request)]
    BY DEF TypeOK, TradeType, Amounts
  <2>2. granted' \in [Kinds -> [Players -> Nat]]
    <3>1. [granted[k] EXCEPT ![p] = @ + got] \in [Players -> Nat]
      BY <1>1, <2>1
    <3>2. granted' = [granted EXCEPT ![k] = [granted[k] EXCEPT ![p] = @ + got]]
      BY <1>3, <2>1
    <3> QED BY <2>1, <3>1, <3>2
  <2>3. report' \in [Kinds -> [Players -> [amount : Nat, price : Nat]]]
    <3> DEFINE entry == [amount |-> got, price |-> b.price]
    <3>1. entry \in [amount : Nat, price : Nat]
      BY <1>1
    <3> HIDE DEF entry
    <3>2. [report[k] EXCEPT ![p] = entry] \in [Players -> [amount : Nat, price : Nat]]
      BY <1>1, <2>1, <3>1
    <3>3. report' = [report EXCEPT ![k] = [report[k] EXCEPT ![p] = entry]]
      BY <1>3, <2>1 DEF entry
    <3> QED BY <2>1, <3>2, <3>3
  <2>4. sent' = sent /\ requests' = requests /\ bids' = Tail(bids) /\ offered' = offered - got
    BY <1>3
  <2> QED BY <1>1, <2>1, <2>2, <2>3, <2>4 DEF TradeType, Amounts
<1> QED BY <1>3, <1>4, <1>5, <1>6, UnchangedTypes DEF TypeOK


\* A site whose time left is changed remains a site, and the list keeps its length.
LEMMA SiteChanged ==
    ASSUME NEW s \in Seq(Site), NEW i \in 1..Len(s), NEW l \in 0..TurnsToBuild
    PROVE  [s EXCEPT ![i].left = l] \in Seq(Site)
<1>1. s[i] \in Site
  BY ElementOfSeq
<1>2. [s[i] EXCEPT !.left = l] \in Site
  BY <1>1 DEF Site
<1> QED BY <1>2, ExceptSeq

\* The site the walk is at.
LEMMA SiteAtNode ==
    ASSUME TypeOK, NEW p \in Players, node <= Len(builds[p])
    PROVE  /\ builds[p] \in Seq(Site) /\ Len(builds[p]) \in Nat
           /\ node \in 1..Len(builds[p]) /\ node \in Nat
           /\ DOMAIN builds[p] = 1..Len(builds[p])
           /\ builds[p][node] \in Site
           /\ builds[p][node].left \in 0..TurnsToBuild
<1>1. builds[p] \in Seq(Site) /\ node \in Nat \ {0}
  BY DEF TypeOK, PlantsType, WalkType
<1>2. Len(builds[p]) \in Nat /\ DOMAIN builds[p] = 1..Len(builds[p])
  BY <1>1, LenProperties
<1>3. node \in 1..Len(builds[p])
  BY <1>1, <1>2
<1>4. builds[p][node] \in Site
  BY <1>1, <1>3, ElementOfSeq
<1> QED BY <1>1, <1>2, <1>3, <1>4 DEF Site

LEMMA AgeType ==
    ASSUME TypeOK, NEW p \in Players, Age(p)
    PROVE  TypeOK'
<1> DEFINE l == builds[p][node].left
<1>1. l - 1 \in 0..TurnsToBuild
  <2>1. l \in 0..TurnsToBuild /\ l \notin {0, 1}
    BY SiteAtNode DEF Age
  <2> QED BY <2>1, SettingsAssumption
<1>2. [builds[p] EXCEPT ![node].left = l - 1] \in Seq(Site)
  BY <1>1, SiteAtNode, SiteChanged DEF Age
<1>3. builds' = [builds EXCEPT ![p] = [builds[p] EXCEPT ![node].left = l - 1]]
  BY SiteAtNode DEF Age, TypeOK, PlantsType
<1>4. PlantsType'
  BY <1>2, <1>3 DEF TypeOK, PlantsType, Age
<1>5. WalkType'
  BY DEF TypeOK, WalkType, Age
<1>6. LoopType'
  BY DEF TypeOK, LoopType, Age
<1> QED BY <1>4, <1>5, <1>6, UnchangedTypes DEF TypeOK, Age

LEMMA PaySecondHalfType ==
    ASSUME TypeOK, NEW p \in Players, PaySecondHalf(p)
    PROVE  TypeOK'
<1>1. 0 \in 0..TurnsToBuild
  BY SettingsAssumption
<1>2. [builds[p] EXCEPT ![node].left = 0] \in Seq(Site)
  BY <1>1, SiteAtNode, SiteChanged DEF PaySecondHalf
<1>3. builds' = [builds EXCEPT ![p] = [builds[p] EXCEPT ![node].left = 0]]
  BY SiteAtNode DEF PaySecondHalf, TypeOK, PlantsType
<1>4. PlantsType'
  BY <1>2, <1>3 DEF TypeOK, PlantsType, PaySecondHalf
<1>5. WalkType'
  BY DEF TypeOK, WalkType, PaySecondHalf
<1>6. AccountsType'
  <2>1. Half \in Int
    BY SettingsAssumption DEF Half
  <2>2. money' \in [Players -> Int]
    BY <2>1 DEF TypeOK, AccountsType, PaySecondHalf
  <2> QED BY <2>2 DEF TypeOK, AccountsType, PaySecondHalf
<1> QED BY <1>4, <1>5, <1>6, UnchangedTypes DEF TypeOK, PaySecondHalf

LEMMA CannotPayHalfType ==
    ASSUME TypeOK, NEW p \in Players, CannotPayHalf(p)
    PROVE  TypeOK'
<1>1. WalkType'
  BY SettingsAssumption DEF TypeOK, WalkType, CannotPayHalf, NextPlayer, Walking, Players
<1>2. PeopleType'
  BY DEF TypeOK, PeopleType, CannotPayHalf
<1> QED BY <1>1, <1>2, UnchangedTypes DEF TypeOK, CannotPayHalf

\* The list without the site at the node, as List::Delete leaves it.
LEMMA SiteDeleted ==
    ASSUME NEW s \in Seq(Site), NEW n \in 1..Len(s)
    PROVE  /\ [i \in 1..(Len(s) - 1) |-> IF i < n THEN s[i] ELSE s[i + 1]] \in Seq(Site)
           /\ Len([i \in 1..(Len(s) - 1) |-> IF i < n THEN s[i] ELSE s[i + 1]]) = Len(s) - 1
<1> DEFINE d == [i \in 1..(Len(s) - 1) |-> IF i < n THEN s[i] ELSE s[i + 1]]
<1>1. Len(s) \in Nat /\ Len(s) - 1 \in Nat
  BY LenProperties
<1>2. \A j \in 1..Len(s) : s[j] \in Site
  BY ElementOfSeq
<1>3. ASSUME NEW i \in 1..(Len(s) - 1) PROVE (IF i < n THEN s[i] ELSE s[i + 1]) \in Site
  <2>1. i \in 1..Len(s) /\ i + 1 \in 1..Len(s)
    BY <1>1
  <2> QED BY <1>2, <2>1
<1>4. d \in [1..(Len(s) - 1) -> Site]
  BY <1>3
<1>5. d \in Seq(Site)
  BY <1>1, <1>4, FunctionIsSeq
<1>6. Len(d) = Len(s) - 1
  BY <1>1, <1>4
<1> QED BY <1>5, <1>6

LEMMA CompleteType ==
    ASSUME TypeOK, BuiltCountsSites, NEW p \in Players, Complete(p)
    PROVE  TypeOK'
<1> DEFINE s == builds[p]
           d == [i \in 1..(Len(s) - 1) |-> IF i < node THEN s[i] ELSE s[i + 1]]
<1>1. s \in Seq(Site) /\ node \in 1..Len(s) /\ Len(s) \in Nat
  BY SiteAtNode DEF Complete
<1>2. d \in Seq(Site)
  BY <1>1, SiteDeleted
<1>3. builds' = [builds EXCEPT ![p] = d]
  BY DEF Complete
<1> HIDE DEF d
<1>4. builds' \in [Players -> Seq(Site)]
  BY <1>2, <1>3 DEF TypeOK, PlantsType
<1>5. built[p] = Len(s)
  BY DEF BuiltCountsSites
<1>6. PlantsType'
  BY <1>1, <1>4, <1>5 DEF TypeOK, PlantsType, Amounts, Complete
<1>7. WalkType'
  BY DEF TypeOK, WalkType, Complete
<1> QED BY <1>6, <1>7, UnchangedTypes DEF TypeOK, Complete

LEMMA LeavePlayerType ==
    ASSUME TypeOK, LeavePlayer
    PROVE  TypeOK'
<1>1. WalkType'
  BY SettingsAssumption DEF TypeOK, WalkType, LeavePlayer, NextPlayer, Players
<1> QED BY <1>1, UnchangedTypes DEF TypeOK, LeavePlayer

LEMMA EndWalkType ==
    ASSUME TypeOK, EndWalk
    PROVE  TypeOK'
<1>1. WalkType'
  BY SettingsAssumption DEF WalkType, EndWalk
<1>2. LoopType'
  BY DEF TypeOK, LoopType, Phases, EndWalk
<1> QED BY <1>1, <1>2, UnchangedTypes DEF TypeOK, EndWalk

LEMMA ChargesType ==
    ASSUME TypeOK, NEW p \in Players
    PROVE  Charges(p) \in Nat
<1>1. sources[p] \in Nat /\ products[p] \in Nat /\ wait[p] + work[p] \in Nat
  BY DEF TypeOK, StockType, PlantsType, Amounts
<1>2. /\ sources[p] * SourceCharge \in Nat
      /\ products[p] * ProductCharge \in Nat
      /\ (wait[p] + work[p]) * FactoryCharge \in Nat
  BY <1>1, SettingsAssumption
<1> QED BY <1>2 DEF Charges

LEMMA PayChargesType ==
    ASSUME TypeOK, PayCharges
    PROVE  TypeOK'
<1>1. AccountsType'
  <2>1. money \in [Players -> Int] /\ \A p \in Players : money[p] - Charges(p) \in Int
    BY ChargesType DEF TypeOK, AccountsType
  <2>2. money' \in [Players -> Int]
    BY <2>1 DEF PayCharges
  <2> QED BY <2>2 DEF TypeOK, AccountsType, PayCharges
<1>2. PeopleType'
  BY DEF TypeOK, PeopleType, PayCharges
<1>3. LoopType'
  BY DEF TypeOK, LoopType, Phases, PayCharges
<1> QED BY <1>1, <1>2, <1>3, UnchangedTypes DEF TypeOK, PayCharges

LEMMA QuitBankrotsType ==
    ASSUME TypeOK, CountersCoverPlayers, QuitBankrots
    PROVE  TypeOK'
<1> DEFINE leaving == {p \in Present : bankrot[p]}
<1>1. leaving \in SUBSET Present
  OBVIOUS
<1>2. /\ Cardinality(leaving) <= Cardinality(Present)
      /\ Cardinality(leaving) \in Nat /\ Cardinality(Present) \in Nat
  <2>1. Present \in SUBSET Players /\ leaving \in SUBSET Players
    BY <1>1, WaitingSets
  <2> HIDE DEF leaving
  <2>2. Cardinality(leaving) \in Nat /\ Cardinality(Present) \in Nat
    BY <2>1, PlayersFinite
  <2>3. Cardinality(leaving) <= Cardinality(Present)
    BY <1>1, <2>1, SubsetSize
  <2> QED BY <2>2, <2>3
<1>3. alive' \in 0..MaxPlayers
  BY <1>2, SettingsAssumption DEF QuitBankrots, CountersCoverPlayers, TypeOK, SessionType
<1>4. SessionType'
  BY <1>3 DEF TypeOK, SessionType, QuitBankrots
<1>5. PeopleType'
  BY DEF TypeOK, PeopleType, QuitBankrots
<1>6. LoopType'
  BY DEF TypeOK, LoopType, Phases, QuitBankrots
<1> QED BY <1>4, <1>5, <1>6, UnchangedTypes DEF TypeOK, QuitBankrots

LEMMA RenewType ==
    ASSUME NEW S, NEW f \in [Players -> S], NEW new \in [Players -> S]
    PROVE  Renew(f, new) \in [Players -> S]
BY DEF Renew

LEMMA PrepareNewTurnType ==
    ASSUME TypeOK, PrepareNewTurn
    PROVE  TypeOK'
<1>1. level' \in Levels
  BY LevelAfterType, BoundsAssumption DEF PrepareNewTurn, TypeOK, SessionType
<1>2. market' \in [sources : Nat, minPrice : Nat, products : Nat, maxPrice : Nat]
  BY <1>1, MarketType DEF PrepareNewTurn, TypeOK, SessionType
<1>3. SessionType'
  BY <1>1, <1>2, SettingsAssumption DEF PrepareNewTurn, TypeOK, SessionType
<1>4. PeopleType'
  <2>1. Everybody(FALSE) \in [Players -> BOOLEAN]
    BY DEF Everybody
  <2>2. turned' \in [Players -> BOOLEAN]
    BY <2>1, RenewType DEF PrepareNewTurn, TypeOK, PeopleType
  <2> QED BY <2>2 DEF PrepareNewTurn, TypeOK, PeopleType
<1>5. AccountsType'
  <2>1. [p \in Players |-> money[p] - oldMoney[p]] \in [Players -> Int]
    BY DEF TypeOK, AccountsType
  <2>2. income' \in [Players -> Int] /\ oldMoney' \in [Players -> Int]
    BY <2>1, RenewType DEF PrepareNewTurn, TypeOK, AccountsType
  <2> QED BY <2>2 DEF PrepareNewTurn, TypeOK, AccountsType
<1>6. StockType'
  <2>1. [p \in Players |-> products[p] + work[p]] \in [Players -> Nat]
    BY DEF TypeOK, StockType, PlantsType, Amounts
  <2>2. produced' \in [Players -> Nat] /\ products' \in [Players -> Nat]
    BY <2>1, RenewType DEF PrepareNewTurn, TypeOK, StockType, PlantsType, Amounts
  <2> QED BY <2>2 DEF PrepareNewTurn, TypeOK, StockType, Amounts
<1>7. PlantsType'
  <2>1. [p \in Players |-> wait[p] + work[p]] \in [Players -> Nat]
    BY DEF TypeOK, PlantsType, Amounts
  <2>2. Everybody(0) \in [Players -> Nat]
    BY DEF Everybody
  <2>3. wait' \in [Players -> Nat] /\ work' \in [Players -> Nat]
    BY <2>1, <2>2, RenewType DEF PrepareNewTurn, TypeOK, PlantsType, Amounts
  <2> QED BY <2>3 DEF PrepareNewTurn, TypeOK, PlantsType, Amounts
<1>8. TradeType'
  <2>1. Everybody(FALSE) \in [Players -> BOOLEAN]
    BY DEF Everybody
  <2>2. ASSUME NEW k \in Kinds PROVE Renew(sent[k], Everybody(FALSE)) \in [Players -> BOOLEAN]
    BY <2>1, RenewType DEF TypeOK, TradeType
  <2>3. sent' \in [Kinds -> [Players -> BOOLEAN]]
    BY <2>2 DEF PrepareNewTurn
  <2> QED BY <2>3 DEF PrepareNewTurn, TypeOK, TradeType
<1>9. LoopType'
  BY DEF LoopType, Phases, PrepareNewTurn
<1> QED BY <1>3, <1>4, <1>5, <1>6, <1>7, <1>8, <1>9, UnchangedTypes DEF TypeOK, PrepareNewTurn


LEMMA TypeStep ==
    ASSUME TypeOK, CountersCoverPlayers, BuiltCountsSites, [Next]_vars
    PROVE  TypeOK'
<1>1. CASE UNCHANGED vars
  BY <1>1, UnchangedTypes DEF TypeOK, vars
<1>2. ASSUME NEW p \in Players, Command(p) \/ Disconnect(p)
      PROVE  TypeOK'
  BY <1>2, ProdType, BuildType, BuyType, SellType, TurnType, DisconnectType, MovingOn,
     MovesOnType DEF Command
<1>3. CASE NextPass \/ CloseMonth
  BY <1>3, MovingOn, MovesOnType, CloseMonthType
<1>4. ASSUME NEW k \in Kinds, Auction(k)
      PROVE  TypeOK'
  BY <1>4, MovingOn, MovesOnType, OpenAuctionType, PassOverType, TradeStepType DEF Auction
<1>5. CASE Oversold \/ ConnectionError
  BY <1>5, MovingOn, MovesOnType
<1>6. CASE CheckBuilds
  BY <1>6, AgeType, PaySecondHalfType, CannotPayHalfType, CompleteType, LeavePlayerType,
     EndWalkType DEF CheckBuilds
<1>7. CASE PayCharges \/ QuitBankrots \/ PrepareNewTurn
  BY <1>7, PayChargesType, QuitBankrotsType, PrepareNewTurnType
<1> QED BY <1>1, <1>2, <1>3, <1>4, <1>5, <1>6, <1>7 DEF Next, MonthEnd

LEMMA TypeInit ==
    ASSUME Init
    PROVE  TypeOK
<1>1. PICK lobby \in MinPlayers..MaxPlayers : alive = lobby
  BY DEF Init
<1>2. alive \in 0..MaxPlayers /\ alive \in Nat
  BY <1>1, SettingsAssumption
<1>3. free \in [Players -> BOOLEAN]
  BY DEF Init
<1>4. PeopleType /\ LoopType
  BY <1>3 DEF Init, PeopleType, LoopType, Phases, Everybody
<1>5. AccountsType /\ StockType
  BY SettingsAssumption DEF Init, AccountsType, StockType, Amounts, Everybody
<1>6. PlantsType
  <2>1. <<>> \in Seq(Site)
    BY EmptySeq
  <2> QED BY <2>1, SettingsAssumption DEF Init, PlantsType, Amounts, Everybody
<1>7. TradeType
  <2>1. <<>> \in Seq(Request)
    BY EmptySeq
  <2> QED BY <2>1 DEF Init, TradeType, Amounts, Everybody
<1>8. SessionType
  <2>1. market \in [sources : Nat, minPrice : Nat, products : Nat, maxPrice : Nat]
    BY <1>2, MarketType, SettingsAssumption DEF Init
  <2> QED BY <1>2, <2>1, SettingsAssumption DEF Init, SessionType
<1>9. WalkType
  BY SettingsAssumption DEF Init, WalkType
<1> QED BY <1>4, <1>5, <1>6, <1>7, <1>8, <1>9 DEF TypeOK

-----------------------------------------------------------------------------
(* The counters.                                                           *)

LEMMA CountersFrame ==
    ASSUME CountersCoverPlayers, UNCHANGED <<free, turned, alive, ready>>
    PROVE  CountersCoverPlayers'
BY DEF CountersCoverPlayers, Waiting, Present

\* The three numbers the invariant is about, and what relates them.
LEMMA Sizes ==
    /\ Cardinality(Present) \in 0..MaxPlayers /\ Cardinality(Waiting) \in Nat
    /\ Cardinality(Present \ Waiting) = Cardinality(Present) - Cardinality(Waiting)
    /\ \A p \in Waiting : Cardinality(Waiting \ {p}) = Cardinality(Waiting) - 1
    /\ \A p \in Present : Cardinality(Present \ {p}) = Cardinality(Present) - 1
<1>1. Cardinality(Present) \in 0..MaxPlayers /\ Cardinality(Waiting) \in 0..MaxPlayers
  BY WaitingSets, PlayersFinite
<1>2. Cardinality(Present \ Waiting) = Cardinality(Present) - Cardinality(Waiting)
  BY WaitingSets, SubsetSize
<1>3. \A p \in Waiting : Cardinality(Waiting \ {p}) = Cardinality(Waiting) - 1
  BY WaitingSets, RemovePlayer
<1>4. \A p \in Present : Cardinality(Present \ {p}) = Cardinality(Present) - 1
  BY WaitingSets, RemovePlayer
<1> QED BY <1>1, <1>2, <1>3, <1>4

LEMMA TurnCounters ==
    ASSUME TypeOK, CountersCoverPlayers, NEW p \in Players, Turn(p)
    PROVE  CountersCoverPlayers'
<1>1. p \in Waiting
  BY DEF Turn, MayCommand, Waiting, Present
<1>2. Present' = Present /\ Waiting' = Waiting \ {p}
  BY DEF Turn, Waiting, Present, TypeOK, PeopleType
<1>3. (Present \ Waiting)' = Present \ (Waiting \ {p})
  BY <1>2
<1>4. Cardinality(Present \ (Waiting \ {p})) = Cardinality(Present) - Cardinality(Waiting \ {p})
  <2>1. Waiting \ {p} \in SUBSET Present
    BY WaitingSets
  <2> QED BY <2>1, WaitingSets, SubsetSize
<1>5. ready' = ready + 1 /\ alive' = alive
  BY DEF Turn
<1>6. ready \in Nat /\ alive \in Nat
  BY DEF TypeOK, SessionType
<1> QED BY <1>1, <1>2, <1>3, <1>4, <1>5, <1>6, Sizes, SettingsAssumption
        DEF CountersCoverPlayers

LEMMA DisconnectCounters ==
    ASSUME TypeOK, CountersCoverPlayers, NEW p \in Players, Disconnect(p)
    PROVE  CountersCoverPlayers'
<1>1. p \in Present
  BY DEF Disconnect, Present
<1>2. Present' = Present \ {p} /\ Waiting' = Waiting \ {p}
  BY DEF Disconnect, Waiting, Present, TypeOK, PeopleType
<1>3. alive' = alive - 1 /\ ready' = ready /\ alive \in Nat /\ ready \in Nat
  BY DEF Disconnect, TypeOK, SessionType
<1>4. CASE p \in Waiting
  <2>1. (Present \ Waiting)' = Present \ Waiting
    BY <1>2, <1>4
  <2>2. /\ Cardinality(Present') = Cardinality(Present) - 1
        /\ Cardinality(Waiting') = Cardinality(Waiting) - 1
        /\ Cardinality((Present \ Waiting)') = Cardinality(Present \ Waiting)
    BY <1>1, <1>2, <1>4, <2>1, Sizes
  <2> QED BY <1>3, <2>2, Sizes, SettingsAssumption DEF CountersCoverPlayers
<1>5. CASE p \notin Waiting
  <2>1. Waiting' = Waiting
    BY <1>2, <1>5
  <2>2. (Present \ Waiting)' = (Present \ Waiting) \ {p}
    BY <1>2, <1>5
  <2>3. Cardinality((Present \ Waiting) \ {p}) = Cardinality(Present \ Waiting) - 1
    BY <1>1, <1>5, WaitingSets, RemovePlayer
  <2>4. /\ Cardinality(Present') = Cardinality(Present) - 1
        /\ Cardinality(Waiting') = Cardinality(Waiting)
        /\ Cardinality((Present \ Waiting)') = Cardinality(Present \ Waiting) - 1
    BY <1>1, <1>2, <2>1, <2>2, <2>3, Sizes
  <2> QED BY <1>3, <2>4, Sizes, SettingsAssumption DEF CountersCoverPlayers
<1> QED BY <1>4, <1>5

LEMMA QuitBankrotsCounters ==
    ASSUME TypeOK, CountersCoverPlayers, QuitBankrots
    PROVE  CountersCoverPlayers'
<1> DEFINE leaving == {p \in Present : bankrot[p]}
<1>1. Present' = Present \ leaving /\ Waiting' = Waiting \ leaving
  BY DEF QuitBankrots, Waiting, Present, TypeOK, PeopleType
<1>2. alive' = alive - Cardinality(leaving) /\ ready' = ready
  BY DEF QuitBankrots
<1>3. leaving \in SUBSET Present
  OBVIOUS
<1> HIDE DEF leaving
<1>4. Cardinality(Present \ leaving) = Cardinality(Present) - Cardinality(leaving)
  BY <1>3, WaitingSets, SubsetSize
<1>5. /\ Cardinality((Present \ Waiting)') <= Cardinality(Present \ Waiting)
      /\ Cardinality((Present \ Waiting)') \in Nat /\ Cardinality(Present \ Waiting) \in Nat
  <2>1. (Present \ Waiting)' \in SUBSET (Present \ Waiting)
    BY <1>1, WaitingSets
  <2> QED BY <2>1, WaitingSets, SizeOrder
<1>6. /\ Cardinality(Waiting') <= Cardinality(Waiting)
      /\ Cardinality(Waiting') \in Nat /\ Cardinality(Waiting) \in Nat
  <2>1. Waiting' \in SUBSET Waiting
    BY <1>1, WaitingSets
  <2> QED BY <2>1, WaitingSets, SizeOrder
<1>7. Cardinality(leaving) \in Nat /\ Cardinality(Present) \in Nat
  BY <1>3, WaitingSets, PlayersFinite
<1>8. ready \in Nat /\ alive \in Nat
  BY DEF TypeOK, SessionType
<1> QED BY <1>1, <1>2, <1>4, <1>5, <1>6, <1>7, <1>8, SettingsAssumption
        DEF CountersCoverPlayers

LEMMA PrepareNewTurnCounters ==
    ASSUME TypeOK, CountersCoverPlayers, Solvency, PrepareNewTurn
    PROVE  CountersCoverPlayers'
<1>1. Playing = Present
  BY DEF Solvency, PrepareNewTurn, Playing
<1>2. Present' = Present /\ Waiting' = Present
  BY <1>1 DEF PrepareNewTurn, Waiting, Present, Renew, Everybody
<1>3. (Present \ Waiting)' = {}
  BY <1>2
<1>4. ready' = 0 /\ alive' = alive
  BY DEF PrepareNewTurn
<1>5. Cardinality((Present \ Waiting)') = 0
  BY <1>3, NoPlayers
<1>6. Cardinality(Present') = Cardinality(Present) /\ Cardinality(Waiting') = Cardinality(Present)
  BY <1>2
<1> QED BY <1>4, <1>5, <1>6, Sizes, SettingsAssumption DEF CountersCoverPlayers

LEMMA CountersStep ==
    ASSUME IInv, [Next]_vars
    PROVE  CountersCoverPlayers'
<1> USE DEF IInv
<1>1. CASE UNCHANGED vars
  BY <1>1, CountersFrame DEF vars, people, session
<1>2. ASSUME NEW p \in Players, Command(p) \/ Disconnect(p)
      PROVE  CountersCoverPlayers'
  <2>1. CASE Turn(p)
    BY <2>1, TurnCounters
  <2>2. CASE Disconnect(p)
    BY <2>2, DisconnectCounters
  <2>3. CASE Prod(p) \/ Build(p) \/ BuildOverflow(p)
    BY <2>3, CountersFrame DEF Prod, Build, BuildOverflow, people, session
  <2>4. CASE (\E b \in BuyBids : Buy(p, b)) \/ (\E b \in SellBids : Sell(p, b))
    BY <2>4, CountersFrame DEF Buy, Sell, SendRequest, people, session
  <2> QED BY <1>2, <2>1, <2>2, <2>3, <2>4 DEF Command
<1>3. CASE NextPass \/ CloseMonth
  BY <1>3, CountersFrame DEF NextPass, CloseMonth, people, session
<1>4. ASSUME NEW k \in Kinds, Auction(k)
      PROVE  CountersCoverPlayers'
  <2>1. UNCHANGED people /\ UNCHANGED session
    BY <1>4 DEF Auction, SkipAuction, OpenAuction, SortOverrun, PassOver, Trade, NextBid,
                MissingBidder, CloseAuction
  <2> QED BY <2>1, CountersFrame DEF people, session
<1>5. CASE Oversold \/ ConnectionError
  BY <1>5, CountersFrame DEF Oversold, ConnectionError, people, session
<1>6. CASE CheckBuilds
  BY <1>6, CountersFrame DEF CheckBuilds, Age, PaySecondHalf, CannotPayHalf, Complete,
     LeavePlayer, EndWalk, people, session
<1>7. CASE PayCharges
  BY <1>7, CountersFrame DEF PayCharges, session
<1>8. CASE QuitBankrots \/ PrepareNewTurn
  BY <1>8, QuitBankrotsCounters, PrepareNewTurnCounters
<1> QED BY <1>1, <1>2, <1>3, <1>4, <1>5, <1>6, <1>7, <1>8 DEF Next, MonthEnd

LEMMA CountersInit ==
    ASSUME Init
    PROVE  CountersCoverPlayers
<1>1. PICK lobby \in MinPlayers..MaxPlayers : \E joined \in SUBSET (1..lobby) :
         alive = lobby /\ free = [p \in Players |-> p \notin joined]
  BY DEF Init
<1>2. PICK joined \in SUBSET (1..lobby) :
         alive = lobby /\ free = [p \in Players |-> p \notin joined]
  BY <1>1
<1>3. lobby \in Nat /\ lobby <= MaxPlayers
  BY SettingsAssumption
<1>4. Present = joined
  <2>1. joined \in SUBSET Players
    BY <1>3, SettingsAssumption DEF Players
  <2> QED BY <1>2, <2>1 DEF Present
<1>5. Cardinality(joined) <= lobby
  <2>1. IsFiniteSet(1..lobby) /\ Cardinality(1..lobby) = lobby
    BY <1>3, FS_Interval
  <2> QED BY <2>1, FS_Subset
<1>6. Waiting = Present
  BY <1>4 DEF Init, Waiting, Present, Everybody
<1>7. Present \ Waiting = {}
  BY <1>6
<1>8. ready = 0
  BY DEF Init
<1> QED BY <1>2, <1>3, <1>4, <1>5, <1>6, <1>7, <1>8, Sizes, FS_EmptySet, SettingsAssumption
        DEF CountersCoverPlayers


-----------------------------------------------------------------------------
(* The building sites.                                                     *)

\* Of one player: as many sites as built_factories says, numbered apart.
Counted(p) ==
    /\ built[p] = Len(builds[p])
    /\ \A i, j \in DOMAIN builds[p] : builds[p][i].num = builds[p][j].num => i = j

LEMMA CountedFrame ==
    ASSUME BuiltCountsSites, UNCHANGED <<built, builds>>
    PROVE  BuiltCountsSites'
BY DEF BuiltCountsSites

LEMMA BuildCounts ==
    ASSUME TypeOK, BuiltCountsSites, NEW p \in Players, Build(p)
    PROVE  BuiltCountsSites'
<1>1. PICK n \in 0..(MaxPlayers - 1) :
         /\ IsMaxNum(p, n)
         /\ builds' = [builds EXCEPT ![p] =
               Append(@, [num |-> n + 1, left |-> TurnsToBuild, since |-> turn])]
  BY DEF Build
<1> DEFINE new == [num |-> n + 1, left |-> TurnsToBuild, since |-> turn]
           s == builds[p]
<1>2. s \in Seq(Site) /\ Len(s) \in Nat /\ DOMAIN s = 1..Len(s)
  BY LenProperties DEF TypeOK, PlantsType
<1>3. new \in Site /\ new.num = n + 1
  BY SettingsAssumption DEF TypeOK, SessionType, Site
<1> HIDE DEF new, s
<1>4. builds'[p] = Append(s, new) /\ \A q \in Players \ {p} : builds'[q] = builds[q]
  BY <1>1 DEF new, s, TypeOK, PlantsType
<1>5. built'[p] = built[p] + 1 /\ \A q \in Players \ {p} : built'[q] = built[q]
  BY DEF Build, TypeOK, PlantsType, Amounts
<1>6. \A i \in 1..Len(s) : s[i].num <= n /\ s[i].num \in Nat
  <2>1. \A i \in 1..Len(s) : s[i].num <= n
    BY <1>1, <1>2 DEF IsMaxNum, s
  <2>2. \A i \in 1..Len(s) : s[i] \in Site
    BY <1>2, ElementOfSeq
  <2> QED BY <2>1, <2>2 DEF Site
<1>7. /\ Len(Append(s, new)) = Len(s) + 1
      /\ DOMAIN Append(s, new) = 1..(Len(s) + 1)
      /\ \A i \in 1..Len(s) : Append(s, new)[i] = s[i]
      /\ Append(s, new)[Len(s) + 1] = new
  BY <1>2, <1>3
<1>8. ASSUME NEW i \in 1..(Len(s) + 1), NEW j \in 1..(Len(s) + 1),
             Append(s, new)[i].num = Append(s, new)[j].num
      PROVE  i = j
  <2>1. CASE i \in 1..Len(s) /\ j \in 1..Len(s)
    BY <1>2, <1>7, <1>8, <2>1 DEF BuiltCountsSites, s
  <2>2. \A h \in 1..Len(s) : Append(s, new)[h].num < n + 1
    BY <1>6, <1>7
  <2>3. Append(s, new)[Len(s) + 1].num = n + 1
    BY <1>3, <1>7
  <2>4. CASE i \in 1..Len(s) /\ j = Len(s) + 1
    BY <1>8, <2>2, <2>3, <2>4
  <2>5. CASE i = Len(s) + 1 /\ j \in 1..Len(s)
    BY <1>8, <2>2, <2>3, <2>5
  <2> QED BY <1>2, <2>1, <2>4, <2>5
<1>9. Counted(p)'
  BY <1>4, <1>5, <1>7, <1>8 DEF Counted, BuiltCountsSites, s
<1>10. \A q \in Players \ {p} : Counted(q)'
  BY <1>4, <1>5 DEF Counted, BuiltCountsSites
<1> QED BY <1>9, <1>10 DEF Counted, BuiltCountsSites

\* Age and PaySecondHalf change the time left of one site, nothing else.
LEMMA TimeChangeCounts ==
    ASSUME TypeOK, BuiltCountsSites, NEW p \in Players, node <= Len(builds[p]),
           NEW l, builds' = [builds EXCEPT ![p] = [builds[p] EXCEPT ![node].left = l]],
           built' = built
    PROVE  /\ BuiltCountsSites'
           /\ \A q \in Players \ {p} : builds'[q] = builds[q]
           /\ DOMAIN builds'[p] = DOMAIN builds[p]
           /\ \A i \in DOMAIN builds[p] :
                 /\ builds'[p][i].since = builds[p][i].since
                 /\ builds'[p][i].left = IF i = node THEN l ELSE builds[p][i].left
<1> DEFINE s == builds[p]
           new == [s[node] EXCEPT !.left = l]
           t == [s EXCEPT ![node] = new]
<1>1. /\ s \in Seq(Site) /\ Len(s) \in Nat /\ node \in 1..Len(s) /\ DOMAIN s = 1..Len(s)
      /\ s[node] \in Site
  BY SiteAtNode
<1>2. new.num = s[node].num /\ new.left = l /\ new.since = s[node].since
  BY <1>1 DEF Site
<1> HIDE DEF s, new
<1>3. builds'[p] = t /\ \A q \in Players \ {p} : builds'[q] = builds[q]
  BY DEF s, new, TypeOK, PlantsType
<1>4. Len(t) = Len(s) /\ DOMAIN t = 1..Len(s)
  BY <1>1
<1>5. \A i \in 1..Len(s) : t[i] = IF i = node THEN new ELSE s[i]
  BY <1>1
<1> HIDE DEF t
<1>6. \A i \in 1..Len(s) : /\ t[i].num = s[i].num /\ t[i].since = s[i].since
                           /\ t[i].left = IF i = node THEN l ELSE s[i].left
  BY <1>2, <1>5
<1>7. BuiltCountsSites'
  BY <1>1, <1>3, <1>4, <1>6 DEF BuiltCountsSites, s
<1> QED BY <1>1, <1>3, <1>4, <1>6, <1>7 DEF s

LEMMA AgeIsTimeChange ==
    ASSUME TypeOK, NEW p \in Players, Age(p)
    PROVE  /\ node <= Len(builds[p]) /\ built' = built
           /\ builds' = [builds EXCEPT ![p] =
                 [builds[p] EXCEPT ![node].left = builds[p][node].left - 1]]
BY SiteAtNode DEF Age, TypeOK, PlantsType

LEMMA PayIsTimeChange ==
    ASSUME TypeOK, NEW p \in Players, PaySecondHalf(p)
    PROVE  /\ node <= Len(builds[p]) /\ built' = built
           /\ builds' = [builds EXCEPT ![p] = [builds[p] EXCEPT ![node].left = 0]]
BY SiteAtNode DEF PaySecondHalf, TypeOK, PlantsType

\* What Complete leaves of the list.
LEMMA CompletedList ==
    ASSUME TypeOK, NEW p \in Players, Complete(p)
    PROVE  /\ Len(builds[p]) \in Nat /\ node \in 1..Len(builds[p])
           /\ DOMAIN builds[p] = 1..Len(builds[p])
           /\ Len(builds'[p]) = Len(builds[p]) - 1
           /\ DOMAIN builds'[p] = 1..(Len(builds[p]) - 1)
           /\ \A i \in 1..(Len(builds[p]) - 1) :
                 builds'[p][i] = builds[p][IF i < node THEN i ELSE i + 1]
           /\ \A q \in Players \ {p} : builds'[q] = builds[q]
<1> DEFINE s == builds[p]
           d == [i \in 1..(Len(s) - 1) |-> IF i < node THEN s[i] ELSE s[i + 1]]
<1>1. s \in Seq(Site) /\ Len(s) \in Nat /\ node \in 1..Len(s) /\ DOMAIN s = 1..Len(s)
  BY SiteAtNode DEF Complete
<1>2. builds'[p] = d /\ \A q \in Players \ {p} : builds'[q] = builds[q]
  BY DEF Complete, TypeOK, PlantsType
<1>3. Len(d) = Len(s) - 1
  BY <1>1, SiteDeleted
<1>4. DOMAIN d = 1..(Len(s) - 1)
  OBVIOUS
<1>5. \A i \in 1..(Len(s) - 1) : d[i] = s[IF i < node THEN i ELSE i + 1]
  OBVIOUS
<1> HIDE DEF d
<1> QED BY <1>1, <1>2, <1>3, <1>4, <1>5

LEMMA CompleteCounts ==
    ASSUME TypeOK, BuiltCountsSites, NEW p \in Players, Complete(p)
    PROVE  BuiltCountsSites'
<1> DEFINE n == Len(builds[p])
           at(i) == IF i < node THEN i ELSE i + 1
<1>1. /\ n \in Nat /\ node \in 1..n /\ Len(builds'[p]) = n - 1
      /\ DOMAIN builds'[p] = 1..(n - 1)
      /\ \A i \in 1..(n - 1) : builds'[p][i] = builds[p][at(i)]
      /\ \A q \in Players \ {p} : builds'[q] = builds[q]
  BY CompletedList
<1>2. built'[p] = built[p] - 1 /\ \A q \in Players \ {p} : built'[q] = built[q]
  BY DEF Complete, TypeOK, PlantsType, Amounts
<1>3. built[p] = n /\ \A i, j \in 1..n : builds[p][i].num = builds[p][j].num => i = j
  BY CompletedList DEF BuiltCountsSites
<1>4. \A i \in 1..(n - 1) : at(i) \in 1..n
  BY <1>1
<1>5. \A i, j \in 1..(n - 1) : at(i) = at(j) => i = j
  BY <1>1
<1> HIDE DEF n, at
<1>6. \A i, j \in 1..(n - 1) : builds'[p][i].num = builds'[p][j].num => i = j
  <2> SUFFICES ASSUME NEW i \in 1..(n - 1), NEW j \in 1..(n - 1),
                      builds'[p][i].num = builds'[p][j].num
               PROVE  i = j
    OBVIOUS
  <2>1. builds[p][at(i)].num = builds[p][at(j)].num
    BY <1>1
  <2>2. at(i) = at(j)
    BY <1>3, <1>4, <2>1
  <2> QED BY <1>5, <2>2
<1>7. Counted(p)'
  BY <1>1, <1>2, <1>3, <1>6 DEF Counted
<1>8. \A q \in Players \ {p} : Counted(q)'
  BY <1>1, <1>2 DEF Counted, BuiltCountsSites
<1> QED BY <1>7, <1>8 DEF Counted, BuiltCountsSites

LEMMA CountsStep ==
    ASSUME IInv, [Next]_vars
    PROVE  BuiltCountsSites'
<1> USE DEF IInv
<1>1. CASE UNCHANGED vars
  BY <1>1, CountedFrame DEF vars, plants
<1>2. ASSUME NEW p \in Players, Command(p) \/ Disconnect(p)
      PROVE  BuiltCountsSites'
  <2>1. CASE Build(p)
    BY <2>1, BuildCounts
  <2>2. CASE Prod(p) \/ BuildOverflow(p) \/ Turn(p) \/ Disconnect(p)
    BY <2>2, CountedFrame DEF Prod, BuildOverflow, Turn, Disconnect, plants
  <2>3. CASE (\E b \in BuyBids : Buy(p, b)) \/ (\E b \in SellBids : Sell(p, b))
    BY <2>3, CountedFrame DEF Buy, Sell, SendRequest, plants
  <2> QED BY <1>2, <2>1, <2>2, <2>3 DEF Command
<1>3. CASE NextPass \/ CloseMonth
  BY <1>3, CountedFrame DEF NextPass, CloseMonth, plants
<1>4. ASSUME NEW k \in Kinds, Auction(k)
      PROVE  BuiltCountsSites'
  <2>1. UNCHANGED plants
    BY <1>4 DEF Auction, SkipAuction, OpenAuction, SortOverrun, PassOver, Trade, NextBid,
                MissingBidder, CloseAuction
  <2> QED BY <2>1, CountedFrame DEF plants
<1>5. CASE Oversold \/ ConnectionError \/ PayCharges \/ QuitBankrots
  BY <1>5, CountedFrame DEF Oversold, ConnectionError, PayCharges, QuitBankrots, plants
<1>6. CASE CheckBuilds
  <2>1. ASSUME NEW p \in Players, Age(p) PROVE BuiltCountsSites'
    BY <2>1, AgeIsTimeChange, TimeChangeCounts
  <2>2. ASSUME NEW p \in Players, PaySecondHalf(p) PROVE BuiltCountsSites'
    BY <2>2, PayIsTimeChange, TimeChangeCounts
  <2>3. ASSUME NEW p \in Players, Complete(p) PROVE BuiltCountsSites'
    BY <2>3, CompleteCounts
  <2>4. CASE (\E p \in Players : CannotPayHalf(p)) \/ LeavePlayer \/ EndWalk
    BY <2>4, CountedFrame DEF CannotPayHalf, LeavePlayer, EndWalk, plants
  <2> QED BY <1>6, <2>1, <2>2, <2>3, <2>4 DEF CheckBuilds
<1>7. CASE PrepareNewTurn
  BY <1>7, CountedFrame DEF PrepareNewTurn
<1> QED BY <1>1, <1>2, <1>3, <1>4, <1>5, <1>6, <1>7 DEF Next, MonthEnd


-----------------------------------------------------------------------------
(* Money.                                                                  *)

LEMMA HalfType == Half \in Nat
BY SettingsAssumption DEF Half

\* Nothing the invariant reads changes, or the step ends in a phase about
\* which it says no more than it did before.
LEMMA SolvencyFrame ==
    ASSUME Solvency, UNCHANGED <<free, bankrot, money>>,
           phase' \in {"play", "newTurn"} \cup Auctioning
               => phase \in {"play", "newTurn"} \cup Auctioning,
           phase' \in {"play", "bankrots", "newTurn"}
               => phase \in {"play", "bankrots", "newTurn"}
    PROVE  Solvency'
BY DEF Solvency, Present

LEMMA CommandSolvency ==
    ASSUME TypeOK, Solvency, NEW p \in Players, Command(p) \/ Disconnect(p)
    PROVE  Solvency'
<1>1. phase = "play"
  BY DEF Command, Prod, Build, BuildOverflow, Buy, Sell, Turn, Disconnect, MayCommand
<1>2. (\A q \in Present : ~bankrot[q]) /\ (\A q \in Present : money[q] >= 0)
  BY <1>1 DEF Solvency
<1>3. CASE Prod(p)
  <2>1. money' = [money EXCEPT ![p] = @ - ProductCost] /\ money[p] >= ProductCost
    BY <1>3 DEF Prod
  <2>2. \A q \in Present : money'[q] >= 0
    BY <1>2, <2>1, SettingsAssumption DEF Present, TypeOK, AccountsType
  <2>3. UNCHANGED <<phase, free, bankrot>>
    BY <1>3 DEF Prod, people
  <2> QED BY <1>2, <2>2, <2>3 DEF Solvency, Present
<1>4. CASE Build(p)
  <2>1. money' = [money EXCEPT ![p] = @ - Half] /\ money[p] >= Half
    BY <1>4 DEF Build
  <2>2. \A q \in Present : money'[q] >= 0
    BY <1>2, <2>1, HalfType DEF Present, TypeOK, AccountsType
  <2>3. UNCHANGED <<phase, free, bankrot>>
    BY <1>4 DEF Build, people
  <2> QED BY <1>2, <2>2, <2>3 DEF Solvency, Present
<1>5. CASE BuildOverflow(p)
  BY <1>5 DEF BuildOverflow, Solvency, Auctioning
<1>6. CASE (\E b \in BuyBids : Buy(p, b)) \/ (\E b \in SellBids : Sell(p, b))
  BY <1>6, SolvencyFrame DEF Buy, Sell, SendRequest, people, accounts
<1>7. CASE Turn(p)
  BY <1>7, SolvencyFrame DEF Turn, accounts
<1>8. CASE Disconnect(p)
  <2>1. UNCHANGED <<phase, bankrot, money>>
    BY <1>8 DEF Disconnect, accounts
  <2>2. Present' \in SUBSET Present
    BY <1>8 DEF Disconnect, Present, TypeOK, PeopleType
  <2> QED BY <1>2, <2>1, <2>2 DEF Solvency
<1> QED BY <1>3, <1>4, <1>5, <1>6, <1>7, <1>8 DEF Command

LEMMA AuctionSolvency ==
    ASSUME TypeOK, Solvency, NEW k \in Kinds, Auction(k)
    PROVE  Solvency'
<1>1. phase \in Auctioning
  BY DEF Auction, SkipAuction, OpenAuction, SortOverrun, PassOver, Trade, NextBid, MissingBidder,
         CloseAuction, OpenPhase, GrantPhase, Auctioning
<1>2. \A q \in Present : ~bankrot[q]
  BY <1>1 DEF Solvency
<1>3. phase' \in Auctioning \cup {"undefined", "builds"}
  BY <1>1 DEF Auction, SkipAuction, OpenAuction, SortOverrun, PassOver, Trade, NextBid,
              MissingBidder, CloseAuction, OpenPhase, GrantPhase, AfterAuction, Auctioning, Kinds
<1>4. UNCHANGED people
  BY DEF Auction, SkipAuction, OpenAuction, SortOverrun, PassOver, Trade, NextBid, MissingBidder,
         CloseAuction
<1> QED BY <1>2, <1>3, <1>4 DEF Solvency, Present, people, Auctioning

LEMMA WalkSolvency ==
    ASSUME TypeOK, Solvency, CheckBuilds
    PROVE  Solvency'
<1>1. phase' \in {"builds", "charges"}
  BY DEF CheckBuilds, Age, PaySecondHalf, CannotPayHalf, Complete, LeavePlayer, EndWalk, Walking
<1> QED BY <1>1 DEF Solvency, Auctioning

\* Whoever PayCharges leaves with less than the charges is declared bankrupt.
LEMMA PayChargesSolvency ==
    ASSUME TypeOK, Solvency, PayCharges
    PROVE  Solvency'
<1>1. phase' = "bankrots" /\ Present' = Present
  BY DEF PayCharges, Present
<1>2. ASSUME NEW p \in Present PROVE bankrot'[p] \/ money'[p] >= 0
  <2>1. p \in Players
    BY DEF Present
  <2>2. bankrot'[p] = (bankrot[p] \/ (~bankrot[p] /\ ~(money[p] - Charges(p) >= 0)))
    BY <2>1 DEF PayCharges
  <2>3. ~bankrot[p] /\ money[p] - Charges(p) >= 0 => money'[p] = money[p] - Charges(p)
    BY <2>1 DEF PayCharges
  <2> QED BY <2>2, <2>3
<1> QED BY <1>1, <1>2 DEF Solvency, Auctioning

LEMMA QuitBankrotsSolvency ==
    ASSUME TypeOK, Solvency, QuitBankrots
    PROVE  Solvency'
<1>1. UNCHANGED <<bankrot, money>> /\ phase = "bankrots"
  BY DEF QuitBankrots, accounts
<1>2. \A p \in Present' : p \in Present /\ ~bankrot[p]
  BY DEF QuitBankrots, Present, TypeOK, PeopleType
<1> QED BY <1>1, <1>2 DEF Solvency

LEMMA SolvencyStep ==
    ASSUME IInv, [Next]_vars
    PROVE  Solvency'
<1> USE DEF IInv
<1>1. CASE UNCHANGED vars
  BY <1>1, SolvencyFrame DEF vars, people, accounts
<1>2. ASSUME NEW p \in Players, Command(p) \/ Disconnect(p)
      PROVE  Solvency'
  BY <1>2, CommandSolvency
<1>3. CASE NextPass \/ CloseMonth
  BY <1>3, SolvencyFrame DEF NextPass, CloseMonth, people, accounts
<1>4. ASSUME NEW k \in Kinds, Auction(k)
      PROVE  Solvency'
  BY <1>4, AuctionSolvency
<1>5. CASE Oversold \/ ConnectionError
  BY <1>5 DEF Oversold, ConnectionError, Solvency, Auctioning
<1>6. CASE CheckBuilds
  BY <1>6, WalkSolvency
<1>7. CASE PayCharges \/ QuitBankrots
  BY <1>7, PayChargesSolvency, QuitBankrotsSolvency
<1>8. CASE PrepareNewTurn
  BY <1>8, SolvencyFrame DEF PrepareNewTurn
<1> QED BY <1>1, <1>2, <1>3, <1>4, <1>5, <1>6, <1>7, <1>8 DEF Next, MonthEnd

-----------------------------------------------------------------------------
(* The schedule of the building sites.                                     *)

\* What is known of the site i of p while it is on schedule.
LEMMA SiteFacts ==
    ASSUME TypeOK, NEW p \in Players, NEW i \in DOMAIN builds[p]
    PROVE  /\ builds[p][i].since \in Nat /\ builds[p][i].left \in 0..TurnsToBuild
           /\ Due(builds[p][i].since, turn) \in Int
           /\ DOMAIN builds[p] = 1..Len(builds[p]) /\ Len(builds[p]) \in Nat
           /\ i \in 1..Len(builds[p])
<1>1. builds[p] \in Seq(Site)
  BY DEF TypeOK, PlantsType
<1>2. DOMAIN builds[p] = 1..Len(builds[p]) /\ Len(builds[p]) \in Nat
  BY <1>1, LenProperties
<1>3. builds[p][i] \in Site
  BY <1>1, <1>2, ElementOfSeq
<1> QED BY <1>2, <1>3, SettingsAssumption DEF Site, Due, TypeOK, SessionType

\* A step that leaves the sites alone, frees slots and declares bankrupts at
\* most, and does not change how far the walk has come.
LEMMA ScheduleFrame ==
    ASSUME Schedule, UNCHANGED <<builds, turn>>,
           phase \notin {"stopped", "undefined"}, phase' # "builds" => walker' = 1 /\ node' = 1,
           Present' \in SUBSET Present, \A p \in Present' : bankrot[p] => bankrot'[p],
           \A p \in Present : \A i \in DOMAIN builds[p] :
               ~bankrot'[p] => Walked(p, i)' = Walked(p, i)
    PROVE  Schedule'
<1>1. ASSUME NEW p \in Present', ~bankrot'[p]
      PROVE  OnSchedule(p)' /\ OldestFirst(p)'
  <2>1. p \in Present /\ OnSchedule(p) /\ OldestFirst(p)
    BY <1>1 DEF Schedule
  <2>2. \A i \in DOMAIN builds[p] : Walked(p, i)' = Walked(p, i)
    BY <1>1, <2>1
  <2> QED BY <2>1, <2>2 DEF OnSchedule, OldestFirst, Due
<1> QED BY <1>1 DEF Schedule


LEMMA StopSchedule ==
    ASSUME phase' = "stopped" \/ (phase' = "undefined" /\ walker' = 1 /\ node' = 1)
    PROVE  Schedule'
BY DEF Schedule

LEMMA BuildSchedule ==
    ASSUME TypeOK, Schedule, NEW p \in Players, Build(p)
    PROVE  Schedule'
<1>1. /\ phase = "play" /\ phase' = "play" /\ walker' = 1 /\ node' = 1 /\ turn' = turn
      /\ Present' = Present /\ bankrot' = bankrot /\ turn \in Nat
  BY DEF Build, MayCommand, people, session, loops, Schedule, Present, TypeOK, SessionType
<1>2. PICK n \in 0..(MaxPlayers - 1) :
         builds' = [builds EXCEPT ![p] =
             Append(@, [num |-> n + 1, left |-> TurnsToBuild, since |-> turn])]
  BY DEF Build
<1> DEFINE new == [num |-> n + 1, left |-> TurnsToBuild, since |-> turn]
           s == builds[p]
<1>3. s \in Seq(Site) /\ Len(s) \in Nat /\ DOMAIN s = 1..Len(s)
  BY LenProperties DEF TypeOK, PlantsType
<1>4. new.left = TurnsToBuild /\ new.since = turn
  OBVIOUS
<1> HIDE DEF new, s
<1>5. builds'[p] = Append(s, new) /\ \A q \in Players \ {p} : builds'[q] = builds[q]
  BY <1>2 DEF new, s, TypeOK, PlantsType
<1>6. /\ DOMAIN Append(s, new) = 1..(Len(s) + 1)
      /\ \A i \in 1..Len(s) : Append(s, new)[i] = s[i]
      /\ Append(s, new)[Len(s) + 1] = new
  BY <1>3
<1>7. \A q \in Players : \A i : ~Walked(q, i) /\ ~Walked(q, i)'
  BY <1>1 DEF Walked
<1>8. ASSUME NEW q \in Present', ~bankrot'[q]
      PROVE  OnSchedule(q)' /\ OldestFirst(q)'
  <2>1. q \in Players /\ OnSchedule(q) /\ OldestFirst(q)
    BY <1>1, <1>8 DEF Schedule, Present
  <2>2. CASE q # p
    BY <1>1, <1>5, <1>7, <2>1, <2>2 DEF OnSchedule, OldestFirst, Due
  <2>3. CASE q = p
    <3>1. \A i \in 1..Len(s) : s[i].left = Due(s[i].since, turn) /\ s[i].since <= turn
      BY <1>3, <1>7, <2>1, <2>3 DEF OnSchedule, OldestFirst, s
    <3>2. \A i, j \in 1..Len(s) : i < j => s[i].since <= s[j].since
      BY <1>3, <2>1, <2>3 DEF OldestFirst, s
    <3>3. Due(turn, turn) = TurnsToBuild
      BY <1>1, SettingsAssumption DEF Due
    <3>4. \A i \in 1..(Len(s) + 1) :
             builds'[p][i].left = Due(builds'[p][i].since, turn)
      BY <1>3, <1>4, <1>5, <1>6, <3>1, <3>3
    <3>5. OnSchedule(p)'
      BY <1>1, <1>5, <1>6, <1>7, <3>4 DEF OnSchedule, Due
    <3>6. \A i \in 1..(Len(s) + 1) : builds'[p][i].since <= turn
      BY <1>1, <1>3, <1>4, <1>5, <1>6, <3>1
    <3>7. \A i, j \in 1..(Len(s) + 1) : i < j => builds'[p][i].since <= builds'[p][j].since
      BY <1>3, <1>4, <1>5, <1>6, <3>1, <3>2
    <3> QED BY <1>1, <1>5, <1>6, <2>3, <3>5, <3>6, <3>7 DEF OldestFirst
  <2> QED BY <2>2, <2>3
<1> QED BY <1>1, <1>8 DEF Schedule

LEMMA CommandSchedule ==
    ASSUME TypeOK, Schedule, NEW p \in Players, Command(p) \/ Disconnect(p)
    PROVE  Schedule'
<1>1. phase = "play"
  BY DEF Command, Prod, Build, BuildOverflow, Buy, Sell, Turn, Disconnect, MayCommand
<1>2. walker = 1 /\ node = 1
  BY <1>1 DEF Schedule
<1>3. CASE Build(p)
  BY <1>3, BuildSchedule
<1>4. CASE BuildOverflow(p)
  BY <1>2, <1>4, StopSchedule DEF BuildOverflow, loops
<1>5. ASSUME UNCHANGED <<phase, builds, turn, walker, node, bankrot>>,
             Present' \in SUBSET Present
      PROVE  Schedule'
  BY <1>1, <1>2, <1>5, ScheduleFrame DEF Walked
<1>6. CASE Prod(p)
  BY <1>5, <1>6 DEF Prod, people, session, loops, Present
<1>7. CASE (\E b \in BuyBids : Buy(p, b)) \/ (\E b \in SellBids : Sell(p, b))
  BY <1>5, <1>7 DEF Buy, Sell, SendRequest, people, plants, session, loops, Present
<1>8. CASE Turn(p)
  BY <1>5, <1>8 DEF Turn, plants, loops, Present
<1>9. CASE Disconnect(p)
  <2>1. Present' \in SUBSET Present
    BY <1>9 DEF Disconnect, Present, TypeOK, PeopleType
  <2> QED BY <1>5, <1>9, <2>1 DEF Disconnect, plants, loops
<1> QED BY <1>3, <1>4, <1>6, <1>7, <1>8, <1>9 DEF Command

\* The steps before the walk: it starts with every site still to be visited.
LEMMA AuctionSchedule ==
    ASSUME TypeOK, Schedule, NEW k \in Kinds, Auction(k)
    PROVE  Schedule'
<1>1. phase \in Auctioning
  BY DEF Auction, SkipAuction, OpenAuction, SortOverrun, PassOver, Trade, NextBid, MissingBidder,
         CloseAuction, OpenPhase, GrantPhase, Auctioning
<1>2. phase' \in Auctioning \cup {"undefined", "builds"}
  BY <1>1 DEF Auction, SkipAuction, OpenAuction, SortOverrun, PassOver, Trade, NextBid,
              MissingBidder, CloseAuction, OpenPhase, GrantPhase, AfterAuction, Auctioning, Kinds
<1>3. UNCHANGED people /\ UNCHANGED plants /\ UNCHANGED session /\ UNCHANGED loops
  BY DEF Auction, SkipAuction, OpenAuction, SortOverrun, PassOver, Trade, NextBid, MissingBidder,
         CloseAuction
<1>4. walker = 1 /\ node = 1
  BY <1>1 DEF Schedule, Auctioning
<1>5. CASE phase' = "undefined"
  BY <1>3, <1>4, <1>5, StopSchedule DEF loops
<1>6. CASE phase' # "undefined"
  <2>1. \A p \in Present : \A i \in DOMAIN builds[p] : ~Walked(p, i)
    BY <1>1 DEF Walked, Auctioning
  <2>2. \A p \in Present : \A i \in DOMAIN builds[p] : ~Walked(p, i)'
    <3> SUFFICES ASSUME NEW p \in Present, NEW i \in DOMAIN builds[p] PROVE ~Walked(p, i)'
      OBVIOUS
    <3>1. p \in Players /\ p >= 1 /\ i >= 1 /\ i \in Int
      BY SiteFacts, SettingsAssumption DEF Present, Players
    <3> QED BY <1>2, <1>3, <1>4, <1>6, <3>1 DEF Walked, Auctioning, loops, Players
  <2>3. /\ UNCHANGED <<builds, turn>> /\ Present' = Present /\ bankrot' = bankrot
        /\ walker' = 1 /\ node' = 1 /\ phase \notin {"stopped", "undefined"}
    BY <1>1, <1>3, <1>4 DEF Auctioning, people, plants, session, loops, Present
  <2>4. \A p \in Present : \A i \in DOMAIN builds[p] : Walked(p, i)' = Walked(p, i)
    BY <2>1, <2>2, Zenon DEF Walked
  <2> QED BY <2>3, <2>4, ScheduleFrame
<1> QED BY <1>5, <1>6

\* Age and PaySecondHalf: the site at the node is visited, and no other.
LEMMA TimeChangeSchedule ==
    ASSUME TypeOK, BuiltCountsSites, Schedule, NEW p \in Players, Walking(p),
           node <= Len(builds[p]), built' = built,
           builds' = [builds EXCEPT ![p] =
               [builds[p] EXCEPT ![node].left = builds[p][node].left - 1]],
           UNCHANGED people, UNCHANGED session, phase' = phase, walker' = walker,
           node' = node + 1
    PROVE  Schedule'
<1>1. /\ phase = "builds" /\ walker = p /\ turn' = turn /\ Present' = Present
      /\ bankrot' = bankrot /\ p \in Present /\ ~bankrot[p]
  BY DEF Walking, people, session, Present
<1>2. /\ \A q \in Players \ {p} : builds'[q] = builds[q]
      /\ DOMAIN builds'[p] = DOMAIN builds[p]
      /\ \A i \in DOMAIN builds[p] :
            /\ builds'[p][i].since = builds[p][i].since
            /\ builds'[p][i].left = IF i = node THEN builds[p][node].left - 1
                                    ELSE builds[p][i].left
  BY TimeChangeCounts
<1>3. node \in Nat /\ walker \in Nat /\ p \in Nat
  BY <1>1, SettingsAssumption DEF TypeOK, WalkType, Players
<1>4. ASSUME NEW q \in Present', ~bankrot'[q]
      PROVE  OnSchedule(q)' /\ OldestFirst(q)'
  <2>1. q \in Players /\ OnSchedule(q) /\ OldestFirst(q)
    BY <1>1, <1>4 DEF Schedule, Present
  <2>2. CASE q # p
    <3>1. \A i \in DOMAIN builds[q] : Walked(q, i)' = Walked(q, i)
      BY <1>1, <2>2 DEF Walked
    <3> QED BY <1>1, <1>2, <2>1, <2>2, <3>1 DEF OnSchedule, OldestFirst, Due
  <2>3. CASE q = p
    <3>1. \A i \in DOMAIN builds[p] : i \in Nat
      BY SiteFacts
    <3>2. \A i \in DOMAIN builds[p] :
             (Walked(p, i) <=> i < node) /\ (Walked(p, i)' <=> i < node + 1)
      BY <1>1, <1>3 DEF Walked
    <3>3. \A i \in DOMAIN builds[p] :
             builds'[p][i].left = IF i < node + 1 THEN Due(builds[p][i].since, turn) - 1
                                  ELSE Due(builds[p][i].since, turn)
      <4> SUFFICES ASSUME NEW i \in DOMAIN builds[p]
                   PROVE  builds'[p][i].left =
                              IF i < node + 1 THEN Due(builds[p][i].since, turn) - 1
                              ELSE Due(builds[p][i].since, turn)
        OBVIOUS
      <4>1. builds[p][i].left = IF i < node THEN Due(builds[p][i].since, turn) - 1
                                ELSE Due(builds[p][i].since, turn)
        BY <2>1, <2>3, <3>2 DEF OnSchedule
      <4>2. CASE i = node
        BY <1>2, <1>3, <4>1, <4>2
      <4>3. CASE i # node
        BY <1>2, <1>3, <3>1, <4>1, <4>3
      <4> QED BY <4>2, <4>3
    <3>4. OnSchedule(p)'
      BY <1>1, <1>2, <3>2, <3>3 DEF OnSchedule, Due
    <3> QED BY <1>1, <1>2, <2>1, <2>3, <3>4 DEF OldestFirst
  <2> QED BY <2>2, <2>3
<1> QED BY <1>1, <1>4 DEF Schedule


\* A completed site is the first of its list.  A site before it would have been
\* visited this month and have a time left of Due - 1 >= 0, but it was ordered
\* no later, so its Due is no more than the 0 of the completed site.
LEMMA CompletedIsFirst ==
    ASSUME TypeOK, Schedule, NEW p \in Players, Complete(p)
    PROVE  node = 1
<1> DEFINE s == builds[p]
<1>1. p \in Present /\ ~bankrot[p] /\ phase = "builds" /\ walker = p /\ s[node].left = 0
  BY DEF Complete, Walking, Present
<1>2. OnSchedule(p) /\ OldestFirst(p)
  BY <1>1 DEF Schedule
<1>3. node \in DOMAIN s /\ node \in Nat \ {0} /\ DOMAIN s = 1..Len(s) /\ Len(s) \in Nat
  BY SiteAtNode DEF Complete, TypeOK, WalkType
<1>4. ~Walked(p, node)
  BY <1>1, <1>3 DEF Walked, Players
<1>5. Due(s[node].since, turn) = 0
  BY <1>1, <1>2, <1>3, <1>4 DEF OnSchedule
<1> SUFFICES ASSUME node > 1 PROVE FALSE
  BY <1>3
<1>6. node - 1 \in DOMAIN s /\ node - 1 < node
  BY <1>3
<1>7. Walked(p, node - 1)
  BY <1>1, <1>6 DEF Walked
<1>8. s[node - 1].left = Due(s[node - 1].since, turn) - 1
  BY <1>2, <1>6, <1>7 DEF OnSchedule
<1>9. s[node - 1].since <= s[node].since
  BY <1>2, <1>3, <1>6 DEF OldestFirst
<1>10. /\ s[node - 1].since \in Nat /\ s[node - 1].left \in 0..TurnsToBuild
       /\ s[node].since \in Nat
  BY <1>3, <1>6, SiteFacts
<1>11. Due(s[node - 1].since, turn) <= Due(s[node].since, turn)
  BY <1>9, <1>10, SettingsAssumption DEF Due, TypeOK, SessionType
<1>12. Due(s[node - 1].since, turn) \in Int
  BY <1>6, SiteFacts
<1> QED BY <1>5, <1>8, <1>10, <1>11, <1>12, SettingsAssumption

LEMMA CompleteSchedule ==
    ASSUME TypeOK, Schedule, NEW p \in Players, Complete(p)
    PROVE  Schedule'
<1>1. /\ phase = "builds" /\ phase' = "builds" /\ walker = p /\ walker' = p /\ node = 1
      /\ node' = 1 /\ turn' = turn /\ Present' = Present /\ bankrot' = bankrot
  BY CompletedIsFirst DEF Complete, Walking, people, session, Present
<1> DEFINE n == Len(builds[p])
<1>2. /\ n \in Nat /\ DOMAIN builds[p] = 1..n /\ DOMAIN builds'[p] = 1..(n - 1)
      /\ \A i \in 1..(n - 1) : builds'[p][i] = builds[p][i + 1]
      /\ \A q \in Players \ {p} : builds'[q] = builds[q]
  <2>1. /\ n \in Nat /\ DOMAIN builds[p] = 1..n /\ DOMAIN builds'[p] = 1..(n - 1)
        /\ \A i \in 1..(n - 1) : builds'[p][i] = builds[p][IF i < node THEN i ELSE i + 1]
        /\ \A q \in Players \ {p} : builds'[q] = builds[q]
    BY CompletedList
  <2>2. \A i \in 1..(n - 1) : (IF i < node THEN i ELSE i + 1) = i + 1
    BY <1>1
  <2> QED BY <2>1, <2>2
<1> HIDE DEF n
<1>3. \A i \in 1..n : ~Walked(p, i) /\ ~Walked(p, i)'
  BY <1>1, <1>2, SettingsAssumption DEF Walked, Players
<1>4. ASSUME NEW q \in Present', ~bankrot'[q]
      PROVE  OnSchedule(q)' /\ OldestFirst(q)'
  <2>1. q \in Players /\ OnSchedule(q) /\ OldestFirst(q)
    BY <1>1, <1>4 DEF Schedule, Present
  <2>2. CASE q # p
    <3>1. \A i \in DOMAIN builds[q] : (Walked(q, i) <=> Walked(q, i)')
      BY <1>1, <2>2 DEF Walked
    <3> QED BY <1>1, <1>2, <2>1, <2>2, <3>1 DEF OnSchedule, OldestFirst, Due
  <2>3. CASE q = p
    <3>1. \A i \in 1..(n - 1) : i + 1 \in 1..n /\ i \in 1..n
      BY <1>2
    <3>2. \A i \in 1..n : builds[p][i].left = Due(builds[p][i].since, turn)
      BY <1>2, <1>3, <2>1, <2>3 DEF OnSchedule
    <3>3. OnSchedule(p)'
      BY <1>1, <1>2, <1>3, <3>1, <3>2 DEF OnSchedule, Due
    <3>4. OldestFirst(p)'
      <4>1. \A i \in 1..(n - 1) : builds'[p][i].since <= turn
        BY <1>2, <2>1, <2>3, <3>1 DEF OldestFirst
      <4>2. \A i, j \in 1..(n - 1) : i < j => i + 1 < j + 1
        BY <1>2
      <4>3. \A i, j \in 1..(n - 1) : i < j => builds'[p][i].since <= builds'[p][j].since
        <5> SUFFICES ASSUME NEW i \in 1..(n - 1), NEW j \in 1..(n - 1), i < j
                     PROVE  builds'[p][i].since <= builds'[p][j].since
          OBVIOUS
        <5>1. builds'[p][i] = builds[p][i + 1] /\ builds'[p][j] = builds[p][j + 1]
          BY <1>2
        <5>2. i + 1 \in DOMAIN builds[p] /\ j + 1 \in DOMAIN builds[p] /\ i + 1 < j + 1
          BY <1>2, <3>1, <4>2
        <5>3. builds[p][i + 1].since <= builds[p][j + 1].since
          BY <2>1, <2>3, <5>2 DEF OldestFirst
        <5> QED BY <5>1, <5>3
      <4> QED BY <1>1, <1>2, <4>1, <4>3 DEF OldestFirst
    <3> QED BY <2>3, <3>3, <3>4
  <2> QED BY <2>2, <2>3
<1> QED BY <1>1, <1>4 DEF Schedule

\* The walk goes on to the next player: all sites of who is left behind, and is
\* neither gone nor bankrupt, were visited.
LEMMA NextPlayerSchedule ==
    ASSUME TypeOK, Schedule, phase = "builds", phase' = "builds", walker \in Players, NextPlayer,
           UNCHANGED <<free, builds, turn>>, \A p \in Players : bankrot[p] => bankrot'[p],
           free[walker] \/ bankrot'[walker] \/ node > Len(builds[walker])
    PROVE  Schedule'
<1>1. Present' = Present
  BY DEF Present
<1>2. walker \in Nat /\ walker' = walker + 1 /\ node' = 1
  BY SettingsAssumption DEF NextPlayer, Players
<1>3. ASSUME NEW p \in Present, ~bankrot'[p], NEW i \in DOMAIN builds[p]
      PROVE  Walked(p, i)' = Walked(p, i)
  <2>1. p \in Players /\ p \in Nat /\ ~free[p]
    BY DEF Present, Players
  <2>2. i \in 1..Len(builds[p]) /\ i \in Nat /\ i >= 1 /\ Len(builds[p]) \in Nat
    BY <2>1, SiteFacts
  <2>3. CASE p < walker
    BY <1>2, <2>1, <2>3 DEF Walked
  <2>4. CASE p = walker
    <3>1. node > Len(builds[p]) /\ node \in Nat
      BY <1>3, <2>1, <2>4 DEF TypeOK, WalkType
    <3>2. i < node
      BY <2>2, <3>1
    <3> QED BY <1>2, <2>1, <2>4, <3>2 DEF Walked
  <2>5. CASE p > walker
    BY <1>2, <2>1, <2>2, <2>5 DEF Walked
  <2> QED BY <1>2, <2>1, <2>3, <2>4, <2>5
<1>4. \A p \in Present : bankrot[p] => bankrot'[p]
  BY DEF Present
<1> QED BY <1>1, <1>3, <1>4, ScheduleFrame

LEMMA EndWalkSchedule ==
    ASSUME TypeOK, Schedule, EndWalk
    PROVE  Schedule'
<1>1. /\ phase = "builds" /\ phase' = "charges" /\ walker > MaxPlayers /\ walker' = 1 /\ node' = 1
      /\ UNCHANGED <<free, bankrot, builds, turn>> /\ Present' = Present
  BY DEF EndWalk, people, plants, session, Present
<1>2. \A p \in Present : \A i \in DOMAIN builds[p] : Walked(p, i) /\ Walked(p, i)'
  <2>1. \A p \in Present : walker > p
    BY <1>1, SettingsAssumption DEF Present, Players, TypeOK, WalkType
  <2> QED BY <1>1, <2>1 DEF Walked
<1>3. \A p \in Present : \A i \in DOMAIN builds[p] : Walked(p, i)' = Walked(p, i)
  BY <1>2, Zenon DEF Walked
<1> QED BY <1>1, <1>3, ScheduleFrame

LEMMA WalkSchedule ==
    ASSUME TypeOK, BuiltCountsSites, Schedule, CheckBuilds
    PROVE  Schedule'
<1>1. ASSUME NEW p \in Players, Age(p) PROVE Schedule'
  BY <1>1, AgeIsTimeChange, TimeChangeSchedule DEF Age
<1>2. ASSUME NEW p \in Players, PaySecondHalf(p) PROVE Schedule'
  <2>1. builds[p][node].left - 1 = 0
    BY <1>2 DEF PaySecondHalf
  <2> QED BY <1>2, <2>1, PayIsTimeChange, TimeChangeSchedule DEF PaySecondHalf
<1>3. ASSUME NEW p \in Players, CannotPayHalf(p) PROVE Schedule'
  <2>1. /\ phase = "builds" /\ phase' = "builds" /\ walker = p /\ NextPlayer
        /\ UNCHANGED <<free, builds, turn>>
    BY <1>3 DEF CannotPayHalf, Walking, plants, session
  <2>2. bankrot'[p] /\ \A q \in Players : bankrot[q] => bankrot'[q]
    BY <1>3 DEF CannotPayHalf, TypeOK, PeopleType
  <2> QED BY <2>1, <2>2, NextPlayerSchedule
<1>4. ASSUME NEW p \in Players, Complete(p) PROVE Schedule'
  BY <1>4, CompleteSchedule
<1>5. CASE LeavePlayer
  BY <1>5, NextPlayerSchedule DEF LeavePlayer, people, plants, session
<1>6. CASE EndWalk
  BY <1>6, EndWalkSchedule
<1> QED BY <1>1, <1>2, <1>3, <1>4, <1>5, <1>6 DEF CheckBuilds

\* PayCharges and QuitBankrots come after the walk and take players out.
LEMMA AfterWalkSchedule ==
    ASSUME TypeOK, Schedule, PayCharges \/ QuitBankrots
    PROVE  Schedule'
<1>1. /\ phase \in {"charges", "bankrots"} /\ phase' \in {"bankrots", "newTurn"}
      /\ walker' = 1 /\ node' = 1 /\ UNCHANGED <<builds, turn>>
  BY DEF PayCharges, QuitBankrots, plants, session, loops, Schedule
<1>2. Present' \in SUBSET Present /\ \A p \in Players : bankrot[p] => bankrot'[p]
  BY DEF PayCharges, QuitBankrots, Present, TypeOK, PeopleType
<1>3. \A p \in Present' : bankrot[p] => bankrot'[p]
  BY <1>2 DEF Present
<1>4. \A p \in Present : \A i \in DOMAIN builds[p] : Walked(p, i)' = Walked(p, i)
  BY <1>1 DEF Walked
<1> QED BY <1>1, <1>2, <1>3, <1>4, ScheduleFrame

\* With the new month, the month that was taken off every site is accounted for.
LEMMA PrepareNewTurnSchedule ==
    ASSUME TypeOK, Schedule, PrepareNewTurn
    PROVE  Schedule'
<1>1. /\ phase = "newTurn" /\ phase' = "play" /\ turn' = turn + 1 /\ turn \in Nat
      /\ walker' = 1 /\ node' = 1 /\ builds' = builds /\ Present' = Present /\ bankrot' = bankrot
  BY DEF PrepareNewTurn, loops, Schedule, Present, TypeOK, SessionType
<1>2. ASSUME NEW p \in Present, ~bankrot[p]
      PROVE  OnSchedule(p)' /\ OldestFirst(p)'
  <2>1. OnSchedule(p) /\ OldestFirst(p)
    BY <1>1, <1>2 DEF Schedule
  <2>2. \A i \in DOMAIN builds[p] :
           /\ builds[p][i].since \in Nat
           /\ builds[p][i].left = Due(builds[p][i].since, turn) - 1
           /\ builds[p][i].since <= turn
    BY <1>1, <2>1, SiteFacts DEF Present, OnSchedule, OldestFirst, Walked
  <2>3. \A i \in DOMAIN builds[p] : builds[p][i].left = Due(builds[p][i].since, turn + 1)
    BY <1>1, <2>2, SettingsAssumption DEF Due
  <2>4. \A i \in DOMAIN builds[p] : ~Walked(p, i)'
    BY <1>1 DEF Walked
  <2>5. OnSchedule(p)'
    BY <1>1, <2>3, <2>4 DEF OnSchedule, Due
  <2>6. \A i \in DOMAIN builds[p] : builds[p][i].since <= turn + 1
    BY <1>1, <2>2
  <2>7. OldestFirst(p)'
    BY <1>1, <2>1, <2>6 DEF OldestFirst
  <2> QED BY <2>5, <2>7
<1> QED BY <1>1, <1>2 DEF Schedule

LEMMA ScheduleStep ==
    ASSUME IInv, [Next]_vars
    PROVE  Schedule'
<1> USE DEF IInv
<1>1. CASE UNCHANGED vars
  BY <1>1 DEF vars, people, plants, session, loops, Schedule, OnSchedule, OldestFirst, Walked,
              Due, Present
<1>2. ASSUME NEW p \in Players, Command(p) \/ Disconnect(p)
      PROVE  Schedule'
  BY <1>2, CommandSchedule
<1>3. CASE NextPass \/ CloseMonth
  <2>1. /\ UNCHANGED <<builds, turn, walker, node, free, bankrot>> /\ phase = "play"
        /\ phase' \in {"play", "openSource"}
    BY <1>3 DEF NextPass, CloseMonth, people, plants, session, loops
  <2>2. walker = 1 /\ node = 1 /\ Present' = Present
    BY <2>1 DEF Schedule, Present
  <2>3. \A p \in Present : \A i \in DOMAIN builds[p] : Walked(p, i)' = Walked(p, i)
    BY <2>1 DEF Walked
  <2> QED BY <2>1, <2>2, <2>3, ScheduleFrame
<1>4. ASSUME NEW k \in Kinds, Auction(k)
      PROVE  Schedule'
  BY <1>4, AuctionSchedule
<1>5. CASE Oversold \/ ConnectionError
  BY <1>5, StopSchedule DEF Oversold, ConnectionError, loops, Schedule
<1>6. CASE CheckBuilds
  BY <1>6, WalkSchedule
<1>7. CASE PayCharges \/ QuitBankrots
  BY <1>7, AfterWalkSchedule
<1>8. CASE PrepareNewTurn
  BY <1>8, PrepareNewTurnSchedule
<1> QED BY <1>1, <1>2, <1>3, <1>4, <1>5, <1>6, <1>7, <1>8 DEF Next, MonthEnd


-----------------------------------------------------------------------------
(* The theorems.                                                           *)

LEMMA InvariantInit ==
    ASSUME Init
    PROVE  IInv
<1>1. BuiltCountsSites
  BY DEF Init, BuiltCountsSites, Everybody
<1>2. Solvency
  <2>1. \A p \in Present : ~bankrot[p] /\ money[p] >= 0
    BY SettingsAssumption DEF Init, Present, Everybody
  <2> QED BY <2>1 DEF Solvency
<1>3. Schedule
  <2>1. \A p \in Players : DOMAIN builds[p] = {}
    BY DEF Init, Everybody
  <2>2. \A p \in Players : OnSchedule(p) /\ OldestFirst(p)
    BY <2>1 DEF OnSchedule, OldestFirst
  <2> QED BY <2>2 DEF Init, Schedule, Present
<1> QED BY <1>1, <1>2, <1>3, TypeInit, CountersInit DEF IInv

LEMMA InvariantStep ==
    ASSUME IInv, [Next]_vars
    PROVE  IInv'
BY TypeStep, CountersStep, CountsStep, SolvencyStep, ScheduleStep DEF IInv

\* The inductive invariant holds in every reachable state: what the command
\* handlers and the month end of BrokerMessages.cpp keep together.
THEOREM Invariance == Spec => []IInv
BY InvariantInit, InvariantStep, PTL DEF Spec

\* Every variable keeps its type, for any number of players, any settings that
\* Config::Load admits and any requests: none of the range checks of Banker's and
\* Player's setters can fail, but for the two that end in the phase "stopped".
THEOREM TypeCorrect == Spec => []TypeOK
<1>1. IInv => TypeOK
  BY DEF IInv
<1> QED BY <1>1, Invariance, PTL

\* alive_players and ready_players never fall below the players they stand for.
THEOREM CountersCover == Spec => []CountersCoverPlayers
<1>1. IInv => CountersCoverPlayers
  BY DEF IInv
<1> QED BY <1>1, Invariance, PTL

\* built_factories is the length of the list of sites, whose numbers are distinct.
THEOREM SitesCounted == Spec => []BuiltCountsSites
<1>1. IInv => BuiltCountsSites
  BY DEF IInv
<1> QED BY <1>1, Invariance, PTL

\* No player starts a month in debt or bankrupt, whatever the auctions took.
THEOREM Solvent == Spec => []SolventInPlay
<1>1. IInv => SolventInPlay
  BY DEF IInv, Solvency, SolventInPlay
<1> QED BY <1>1, Invariance, PTL

\* The walk of CheckBuildingFactories takes exactly one month off every site,
\* although a completed site sends it back to the start of the list.
THEOREM OnTime == Spec => []BuildsOnSchedule
<1>1. IInv => BuildsOnSchedule
  BY DEF IInv, Solvency, Schedule, OnSchedule, Walked, Due, BuildsOnSchedule, Present
<1> QED BY <1>1, Invariance, PTL


\* Steps that change none of a player's goods.
LEMMA GoodsFrame ==
    ASSUME NEW p \in Players, UNCHANGED <<sources, work, products>>
    PROVE  Goods(p)' = Goods(p)
BY DEF Goods

LEMMA GoodsStep ==
    ASSUME TypeOK, [Next]_vars, NEW p \in Players, Goods(p)' # Goods(p)
    PROVE  phase \in {"grantSource", "grantProduct"}
<1> SUFFICES ASSUME phase \notin {"grantSource", "grantProduct"} PROVE FALSE
  OBVIOUS
<1>1. sources[p] \in Nat /\ work[p] \in Nat /\ products[p] \in Nat
  BY DEF TypeOK, StockType, PlantsType, Amounts
<1>2. CASE UNCHANGED vars
  BY <1>2, GoodsFrame DEF vars, stock, plants
<1>3. ASSUME NEW q \in Players, Command(q) \/ Disconnect(q)
      PROVE  FALSE
  <2>1. CASE Prod(q)
    <3>1. /\ sources' = [sources EXCEPT ![q] = @ - 1] /\ work' = [work EXCEPT ![q] = @ + 1]
          /\ products' = products
      BY <2>1 DEF Prod
    <3>2. sources'[p] + work'[p] = sources[p] + work[p]
      BY <1>1, <3>1 DEF TypeOK, StockType, PlantsType, Amounts
    <3> QED BY <3>1, <3>2 DEF Goods
  <2>2. CASE Build(q) \/ BuildOverflow(q) \/ Turn(q) \/ Disconnect(q)
    BY <2>2, GoodsFrame DEF Build, BuildOverflow, Turn, Disconnect, stock, plants
  <2>3. CASE (\E b \in BuyBids : Buy(q, b)) \/ (\E b \in SellBids : Sell(q, b))
    BY <2>3, GoodsFrame DEF Buy, Sell, SendRequest, stock, plants
  <2> QED BY <1>3, <2>1, <2>2, <2>3 DEF Command
<1>4. CASE NextPass \/ CloseMonth
  BY <1>4, GoodsFrame DEF NextPass, CloseMonth, stock, plants
<1>5. ASSUME NEW k \in Kinds, Auction(k)
      PROVE  FALSE
  <2>1. SkipAuction(k) \/ OpenAuction(k) \/ SortOverrun(k)
    BY <1>5 DEF Auction, PassOver, Trade, NextBid, MissingBidder, CloseAuction, GrantPhase
  <2> QED BY <2>1, GoodsFrame DEF SkipAuction, OpenAuction, SortOverrun, stock, plants
<1>6. CASE Oversold \/ ConnectionError \/ PayCharges \/ QuitBankrots
  BY <1>6, GoodsFrame DEF Oversold, ConnectionError, PayCharges, QuitBankrots, stock, plants
<1>7. CASE CheckBuilds
  BY <1>7, GoodsFrame DEF CheckBuilds, Age, PaySecondHalf, CannotPayHalf, Complete, LeavePlayer,
     EndWalk, stock, plants
<1>8. CASE PrepareNewTurn
  <2>1. /\ sources' = sources
        /\ products'[p] = IF p \in Playing THEN products[p] + work[p] ELSE products[p]
        /\ work'[p] = IF p \in Playing THEN 0 ELSE work[p]
    BY <1>8 DEF PrepareNewTurn, Renew, Everybody
  <2> QED BY <1>1, <2>1 DEF Goods
<1> QED BY <1>2, <1>3, <1>4, <1>5, <1>6, <1>7, <1>8 DEF Next, MonthEnd

\* Sources, work and products of a player only ever add up to another number in
\* the auctions.
THEOREM GoodsMove == Spec => GoodsMoveInAuctionsOnly
<1>1. IInv /\ [Next]_vars =>
          [\A p \in Players : Goods(p)' # Goods(p) => phase \in {"grantSource", "grantProduct"}]_vars
  BY GoodsStep DEF IInv
<1> QED BY <1>1, Invariance, PTL DEF Spec, GoodsMoveInAuctionsOnly

LEMMA FactoriesFrame ==
    ASSUME NEW p \in Players, UNCHANGED <<wait, work, built>>
    PROVE  Factories(p)' = Factories(p)
BY DEF Factories

\* What FactoriesAreOrdered says of the step of one player's factories.
Ordered(p) ==
    Factories(p)' # Factories(p) =>
        /\ Factories(p)' = Factories(p) + 1
        /\ money[p]' = money[p] - Half
        /\ Len(builds[p]') = Len(builds[p]) + 1

LEMMA FactoriesStep ==
    ASSUME TypeOK, [Next]_vars, NEW p \in Players
    PROVE  Ordered(p)
<1>1. wait[p] \in Nat /\ work[p] \in Nat /\ built[p] \in Nat
  BY DEF TypeOK, PlantsType, Amounts
<1>2. Factories(p)' = Factories(p) => Ordered(p)
  BY DEF Ordered
<1>3. CASE UNCHANGED vars
  BY <1>2, <1>3, FactoriesFrame DEF vars, plants
<1>4. ASSUME NEW q \in Players, Command(q) \/ Disconnect(q)
      PROVE  Ordered(p)
  <2>1. CASE Prod(q)
    <3>1. /\ wait' = [wait EXCEPT ![q] = @ - 1] /\ work' = [work EXCEPT ![q] = @ + 1]
          /\ built' = built
      BY <2>1 DEF Prod
    <3>2. wait'[p] + work'[p] = wait[p] + work[p]
      BY <1>1, <3>1 DEF TypeOK, PlantsType, Amounts
    <3> QED BY <1>2, <3>1, <3>2 DEF Factories
  <2>2. CASE Build(q)
    <3>1. /\ wait' = wait /\ work' = work /\ built' = [built EXCEPT ![q] = @ + 1]
          /\ money' = [money EXCEPT ![q] = @ - Half]
      BY <2>2 DEF Build
    <3>2. PICK n \in 0..(MaxPlayers - 1) :
             builds' = [builds EXCEPT ![q] =
                 Append(@, [num |-> n + 1, left |-> TurnsToBuild, since |-> turn])]
      BY <2>2 DEF Build
    <3>3. CASE p = q
      <4>1. money'[p] = money[p] - Half /\ built'[p] = built[p] + 1
        BY <3>1, <3>3 DEF TypeOK, AccountsType, PlantsType, Amounts
      <4>2. builds'[p] = Append(builds[p], [num |-> n + 1, left |-> TurnsToBuild, since |-> turn])
        BY <3>2, <3>3 DEF TypeOK, PlantsType
      <4>3. Len(builds'[p]) = Len(builds[p]) + 1
        BY <4>2 DEF TypeOK, PlantsType
      <4>4. Factories(p)' = Factories(p) + 1
        BY <1>1, <3>1, <4>1 DEF Factories
      <4> QED BY <4>1, <4>3, <4>4 DEF Ordered
    <3>4. CASE p # q
      BY <1>2, <3>1, <3>4 DEF Factories, TypeOK, PlantsType, Amounts
    <3> QED BY <3>3, <3>4
  <2>3. CASE BuildOverflow(q) \/ Turn(q) \/ Disconnect(q)
    BY <1>2, <2>3, FactoriesFrame DEF BuildOverflow, Turn, Disconnect, plants
  <2>4. CASE (\E b \in BuyBids : Buy(q, b)) \/ (\E b \in SellBids : Sell(q, b))
    BY <1>2, <2>4, FactoriesFrame DEF Buy, Sell, SendRequest, plants
  <2> QED BY <1>4, <2>1, <2>2, <2>3, <2>4 DEF Command
<1>5. CASE NextPass \/ CloseMonth
  BY <1>2, <1>5, FactoriesFrame DEF NextPass, CloseMonth, plants
<1>6. ASSUME NEW k \in Kinds, Auction(k)
      PROVE  Ordered(p)
  <2>1. UNCHANGED plants
    BY <1>6 DEF Auction, SkipAuction, OpenAuction, SortOverrun, PassOver, Trade, NextBid,
                MissingBidder, CloseAuction
  <2> QED BY <1>2, <2>1, FactoriesFrame DEF plants
<1>7. CASE Oversold \/ ConnectionError \/ PayCharges \/ QuitBankrots
  BY <1>2, <1>7, FactoriesFrame DEF Oversold, ConnectionError, PayCharges, QuitBankrots, plants
<1>8. CASE CheckBuilds
  <2>1. ASSUME NEW q \in Players, Complete(q) PROVE Ordered(p)
    <3>1. /\ wait' = [wait EXCEPT ![q] = @ + 1] /\ built' = [built EXCEPT ![q] = @ - 1]
          /\ work' = work
      BY <2>1 DEF Complete
    <3>2. wait'[p] + built'[p] = wait[p] + built[p]
      BY <1>1, <3>1 DEF TypeOK, PlantsType, Amounts
    <3>3. wait'[p] \in Int /\ built'[p] \in Int
      BY <1>1, <3>1 DEF TypeOK, PlantsType, Amounts
    <3> QED BY <1>1, <1>2, <3>1, <3>2, <3>3 DEF Factories
  <2>2. CASE \/ \E q \in Players : Age(q) \/ PaySecondHalf(q) \/ CannotPayHalf(q)
             \/ LeavePlayer \/ EndWalk
    BY <1>2, <2>2, FactoriesFrame DEF Age, PaySecondHalf, CannotPayHalf, LeavePlayer, EndWalk, plants
  <2> QED BY <1>8, <2>1, <2>2 DEF CheckBuilds
<1>9. CASE PrepareNewTurn
  <2>1. /\ built' = built
        /\ wait'[p] = IF p \in Playing THEN wait[p] + work[p] ELSE wait[p]
        /\ work'[p] = IF p \in Playing THEN 0 ELSE work[p]
    BY <1>9 DEF PrepareNewTurn, Renew, Everybody
  <2> QED BY <1>1, <1>2, <2>1 DEF Factories
<1> QED BY <1>3, <1>4, <1>5, <1>6, <1>7, <1>8, <1>9 DEF Next, MonthEnd

\* A player's factories are never lost, and a new one is an order paid by half.
THEOREM FactoriesOrdered == Spec => FactoriesAreOrdered
<1>1. IInv /\ [Next]_vars => [\A p \in Players : Ordered(p)]_vars
  BY FactoriesStep DEF IInv
<1>2. IInv /\ [Next]_vars =>
         [\A p \in Players :
             Factories(p)' # Factories(p) =>
                 /\ Factories(p)' = Factories(p) + 1
                 /\ money[p]' = money[p] - Half
                 /\ Len(builds[p]') = Len(builds[p]) + 1]_vars
  BY <1>1 DEF Ordered
<1> QED BY <1>2, Invariance, PTL DEF Spec, FactoriesAreOrdered


-----------------------------------------------------------------------------
(* The month end, and what the session promises of it.                      *)

Closing == Auctioning \cup {"builds", "charges", "bankrots"}

EqualWhileClosing == phase \in Closing => ready = alive

RInv == IInv /\ EqualWhileClosing

LEMMA PhaseKinds == ASSUME TypeOK PROVE phase \in Phases
BY DEF TypeOK, LoopType

\* A month end keeps both counters until the bankrupts leave.
LEMMA EqualStep ==
    ASSUME RInv, [Next]_vars
    PROVE  EqualWhileClosing'
<1> USE DEF EqualWhileClosing, Closing, Auctioning
<1>1. CASE UNCHANGED vars
  BY <1>1 DEF vars, session, RInv
<1>2. ASSUME NEW p \in Players, Command(p) \/ Disconnect(p)
      PROVE  EqualWhileClosing'
  <2>1. phase' \in {"play", "stopped"}
    BY <1>2 DEF Command, Disconnect, Prod, Build, BuildOverflow, Buy, Sell, SendRequest, Turn,
                MayCommand
  <2> QED BY <2>1
<1>3. CASE NextPass \/ CloseMonth
  BY <1>3 DEF NextPass, CloseMonth, session
<1>4. ASSUME NEW k \in Kinds, Auction(k)
      PROVE  EqualWhileClosing'
  <2>1. UNCHANGED session /\ phase \in Closing
    BY <1>4 DEF Auction, SkipAuction, OpenAuction, SortOverrun, PassOver, Trade, NextBid,
                MissingBidder, CloseAuction, Kinds, OpenPhase, GrantPhase
  <2> QED BY <2>1 DEF session, RInv
<1>5. CASE Oversold \/ ConnectionError
  BY <1>5 DEF Oversold, ConnectionError
<1>6. CASE CheckBuilds
  BY <1>6 DEF CheckBuilds, Age, PaySecondHalf, CannotPayHalf, Complete, LeavePlayer, EndWalk,
              Walking, session, RInv
<1>7. CASE PayCharges \/ QuitBankrots \/ PrepareNewTurn
  BY <1>7 DEF PayCharges, QuitBankrots, PrepareNewTurn, session, RInv
<1> QED BY <1>1, <1>2, <1>3, <1>4, <1>5, <1>6, <1>7 DEF Next, MonthEnd

THEOREM RInvariance == Spec => []RInv
<1>1. Init => EqualWhileClosing
  BY DEF Init, EqualWhileClosing, Closing, Auctioning
<1>2. EqualWhileClosing /\ IInv /\ [Next]_vars => EqualWhileClosing'
  BY EqualStep DEF RInv
<1> QED BY <1>1, <1>2, Invariance, PTL DEF Spec, RInv

-----------------------------------------------------------------------------
(* How far alive_players is off.                                           *)

Drift == alive - Cardinality(Present)

LEMMA DriftFrame ==
    ASSUME UNCHANGED <<free, alive>>
    PROVE  Drift' = Drift
BY DEF Drift, Present

LEMMA DisconnectDrift ==
    ASSUME TypeOK, NEW p \in Players, Disconnect(p)
    PROVE  Drift' = Drift
<1>1. p \in Present /\ Present' = Present \ {p}
  BY DEF Disconnect, Present, TypeOK, PeopleType
<1>2. Cardinality(Present') = Cardinality(Present) - 1 /\ Cardinality(Present) \in Nat
  BY <1>1, Sizes
<1> QED BY <1>2 DEF Disconnect, Drift, TypeOK, SessionType

LEMMA QuitBankrotsDrift ==
    ASSUME TypeOK, QuitBankrots
    PROVE  Drift' = Drift
<1> DEFINE leaving == {p \in Present : bankrot[p]}
<1>1. Present' = Present \ leaving
  BY DEF QuitBankrots, Present, TypeOK, PeopleType
<1>2. alive' = alive - Cardinality(leaving)
  BY DEF QuitBankrots
<1>3. leaving \in SUBSET Present
  OBVIOUS
<1> HIDE DEF leaving
<1>4. Cardinality(Present \ leaving) = Cardinality(Present) - Cardinality(leaving)
  BY <1>3, WaitingSets, SubsetSize
<1>5. Cardinality(leaving) \in Nat /\ Cardinality(Present) \in Nat
  BY <1>3, WaitingSets, PlayersFinite
<1>6. alive \in Nat
  BY DEF TypeOK, SessionType
<1> QED BY <1>1, <1>2, <1>4, <1>5, <1>6 DEF Drift

LEMMA DriftStep ==
    ASSUME IInv, [Next]_vars
    PROVE  Drift' = Drift
<1>1. CASE UNCHANGED vars
  BY <1>1, DriftFrame DEF vars, people, session
<1>2. ASSUME NEW p \in Players, Command(p) \/ Disconnect(p)
      PROVE  Drift' = Drift
  <2>1. CASE Disconnect(p)
    BY <2>1, DisconnectDrift DEF IInv
  <2>2. CASE Turn(p) \/ Prod(p) \/ Build(p) \/ BuildOverflow(p)
    BY <2>2, DriftFrame DEF Turn, Prod, Build, BuildOverflow, people, session
  <2>3. CASE (\E b \in BuyBids : Buy(p, b)) \/ (\E b \in SellBids : Sell(p, b))
    BY <2>3, DriftFrame DEF Buy, Sell, SendRequest, people, session
  <2> QED BY <1>2, <2>1, <2>2, <2>3 DEF Command
<1>3. CASE NextPass \/ CloseMonth
  BY <1>3, DriftFrame DEF NextPass, CloseMonth, people, session
<1>4. ASSUME NEW k \in Kinds, Auction(k)
      PROVE  Drift' = Drift
  <2>1. UNCHANGED people /\ UNCHANGED session
    BY <1>4 DEF Auction, SkipAuction, OpenAuction, SortOverrun, PassOver, Trade, NextBid,
                MissingBidder, CloseAuction
  <2> QED BY <2>1, DriftFrame DEF people, session
<1>5. CASE Oversold \/ ConnectionError
  BY <1>5, DriftFrame DEF Oversold, ConnectionError, people, session
<1>6. CASE CheckBuilds
  BY <1>6, DriftFrame DEF CheckBuilds, Age, PaySecondHalf, CannotPayHalf, Complete,
     LeavePlayer, EndWalk, people, session
<1>7. CASE PayCharges \/ PrepareNewTurn
  BY <1>7, DriftFrame DEF PayCharges, PrepareNewTurn, session
<1>8. CASE QuitBankrots
  BY <1>8, QuitBankrotsDrift DEF IInv
<1> QED BY <1>1, <1>2, <1>3, <1>4, <1>5, <1>6, <1>7, <1>8 DEF Next, MonthEnd

\* However players turn, leave and go bankrupt, alive_players stays as far off the
\* players in the game as the lobby left it.
THEOREM DriftNeverChanges == Spec => DriftIsConstant
<1>1. IInv /\ [Next]_vars =>
         [alive' - Cardinality(Present') = alive - Cardinality(Present)]_vars
  BY DriftStep DEF Drift
<1> QED BY <1>1, Invariance, PTL DEF Spec, DriftIsConstant

-----------------------------------------------------------------------------
(* The refinement, step by step.                                           *)

Ended == Present \ Waiting

LEMMA EndedFacts ==
    /\ Present \in SUBSET Players /\ Ended \in SUBSET Present
    /\ Cardinality(Present) \in Nat /\ Cardinality(Ended) \in Nat
<1>1. Present \in SUBSET Players /\ Ended \in SUBSET Present
  BY DEF Present, Ended
<1> QED BY <1>1, SizeOrder

\* Rounds counts as GameSession does.
LEMMA SameSizes == \A S : Session!Cardinality(S) = Cardinality(S)
BY DEF Session!Cardinality, Cardinality

\* Steps that neither the sets nor the counters nor the month see.
LEMMA UnseenStep ==
    ASSUME UNCHANGED <<free, turned, alive, ready, turn>>,
           Stopped' = Stopped, MonthOver' = MonthOver
    PROVE  UNCHANGED Session!rounds
<1>1. Present' = Present /\ Waiting' = Waiting
  BY DEF Present, Waiting
<1> QED BY <1>1 DEF Session!rounds

LEMMA StopStep ==
    ASSUME ~Stopped, Stopped'
    PROVE  Session!Stop
BY DEF Session!Stop, MonthOver

LEMMA TurnRefines ==
    ASSUME TypeOK, NEW p \in Players, Turn(p)
    PROVE  Session!EndTurn(p)
<1>1. phase = "play" /\ phase' = "play" /\ p \in Waiting /\ p \in Present
  BY DEF Turn, MayCommand, Waiting, Present
<1>2. ~Stopped /\ ~MonthOver /\ ~Stopped' /\ ~MonthOver'
  BY <1>1 DEF Stopped, MonthOver
<1>3. Present' = Present /\ Waiting' = Waiting \ {p}
  BY DEF Turn, Waiting, Present, TypeOK, PeopleType
<1>4. Ended' = Ended \cup {p} /\ p \notin Ended
  BY <1>1, <1>3 DEF Ended
<1>5. Cardinality(Ended') = Cardinality(Ended) + 1
  <2>1. IsFiniteSet(Ended)
    BY EndedFacts, PlayersFinite
  <2> QED BY <1>4, <2>1, FS_AddElement
<1>6. ready' = ready + 1 /\ ready \in Nat /\ alive' = alive /\ turn' = turn
  BY DEF Turn, TypeOK, SessionType
<1>7. ready' - Cardinality(Ended') = ready - Cardinality(Ended)
  BY <1>5, <1>6, EndedFacts
<1> QED BY <1>1, <1>2, <1>3, <1>4, <1>6, <1>7 DEF Session!EndTurn, Ended

LEMMA DisconnectRefines ==
    ASSUME TypeOK, NEW p \in Players, Disconnect(p)
    PROVE  Session!Leave(p)
<1>1. phase = "play" /\ phase' = "play" /\ p \in Present
  BY DEF Disconnect, Present
<1>2. ~Stopped /\ ~MonthOver /\ ~Stopped' /\ ~MonthOver'
  BY <1>1 DEF Stopped, MonthOver
<1>3. Present' = Present \ {p} /\ Waiting' = Waiting \ {p}
  BY DEF Disconnect, Waiting, Present, TypeOK, PeopleType
<1>4. Ended' = Ended \ {p}
  BY <1>3 DEF Ended
<1>5. Cardinality(Ended') = IF p \in Ended THEN Cardinality(Ended) - 1 ELSE Cardinality(Ended)
  <2>1. IsFiniteSet(Ended)
    BY EndedFacts, PlayersFinite
  <2> QED BY <1>4, <2>1, FS_RemoveElement
<1>6. ready' = ready /\ ready \in Nat /\ turn' = turn
  BY DEF Disconnect, TypeOK, SessionType
<1>7. ready' - Cardinality(Ended') =
         IF p \in Ended THEN (ready - Cardinality(Ended)) + 1 ELSE ready - Cardinality(Ended)
  BY <1>5, <1>6, EndedFacts
<1>8. alive' - Cardinality(Present') = alive - Cardinality(Present)
  BY DisconnectDrift DEF Drift
<1> QED BY <1>1, <1>2, <1>3, <1>4, <1>6, <1>7, <1>8 DEF Session!Leave, Ended

LEMMA QuitBankrotsRefines ==
    ASSUME RInv, QuitBankrots
    PROVE  Session!EndMonth
<1> USE DEF RInv, IInv
<1>1. phase = "bankrots" /\ phase' = "newTurn" /\ turn' = turn
  BY DEF QuitBankrots
<1>2. ~Stopped /\ ~MonthOver /\ ~Stopped' /\ MonthOver'
  BY <1>1 DEF Stopped, MonthOver
<1>3. Present' \in SUBSET Present
  BY DEF QuitBankrots, Present, TypeOK, PeopleType
<1>4. alive' - Cardinality(Present') = alive - Cardinality(Present)
  BY QuitBankrotsDrift DEF Drift
<1>5. ready = alive /\ ready \in Nat
  BY <1>1 DEF EqualWhileClosing, Closing, TypeOK, SessionType
<1>6. Cardinality(Ended) + (ready - Cardinality(Ended))
        = Cardinality(Present) + (alive - Cardinality(Present))
  BY <1>5, EndedFacts
<1> QED BY <1>1, <1>2, <1>3, <1>4, <1>6, SameSizes DEF Session!EndMonth, Session!AllReady, Ended

LEMMA PrepareNewTurnRefines ==
    ASSUME RInv, PrepareNewTurn
    PROVE  UNCHANGED Session!rounds
<1> USE DEF RInv, IInv
<1>1. phase = "newTurn" /\ phase' = "play" /\ turn' = turn + 1 /\ ready' = 0 /\ alive' = alive
  BY DEF PrepareNewTurn
<1>2. ~Stopped /\ MonthOver /\ ~Stopped' /\ ~MonthOver'
  BY <1>1 DEF Stopped, MonthOver
<1>3. Playing = Present
  BY <1>1 DEF Solvency, Playing
<1>4. Present' = Present /\ Waiting' = Present
  BY <1>3 DEF PrepareNewTurn, Waiting, Present, Renew, Everybody
<1>5. Ended' = {} /\ Cardinality(Ended') = 0
  BY <1>4, NoPlayers DEF Ended
<1> QED BY <1>1, <1>2, <1>4, <1>5 DEF Session!rounds, Ended

LEMMA StepRefines ==
    ASSUME RInv, [Next]_vars
    PROVE  [Session!Next]_(Session!rounds)
<1> USE DEF RInv, IInv
<1> DEFINE Seen == [Session!Next]_(Session!rounds)
<1>1. ASSUME UNCHANGED <<free, turned, alive, ready, turn>>,
             Stopped' = Stopped, MonthOver' = MonthOver
      PROVE  Seen
  BY <1>1, UnseenStep
<1>2. ASSUME ~Stopped, Stopped' PROVE Seen
  BY <1>2, StopStep DEF Session!Next
<1>3. CASE UNCHANGED vars
  BY <1>1, <1>3 DEF vars, session, people, Stopped, MonthOver
<1>4. ASSUME NEW p \in Players, Command(p) \/ Disconnect(p)
      PROVE  Seen
  <2>1. CASE Turn(p)
    BY <2>1, TurnRefines DEF Session!Next
  <2>2. CASE Disconnect(p)
    BY <2>2, DisconnectRefines DEF Session!Next
  <2>3. CASE Prod(p) \/ Build(p)
    BY <1>1, <2>3 DEF Prod, Build, people, session, Stopped, MonthOver
  <2>4. CASE BuildOverflow(p)
    BY <1>2, <2>4 DEF BuildOverflow, MayCommand, Stopped
  <2>5. CASE (\E b \in BuyBids : Buy(p, b)) \/ (\E b \in SellBids : Sell(p, b))
    BY <1>1, <2>5 DEF Buy, Sell, SendRequest, people, session, Stopped, MonthOver
  <2> QED BY <1>4, <2>1, <2>2, <2>3, <2>4, <2>5 DEF Command
<1>5. CASE NextPass
  BY <1>1, <1>5 DEF NextPass, people, session, Stopped, MonthOver
<1>6. CASE CloseMonth
  BY <1>1, <1>6 DEF CloseMonth, people, session, Stopped, MonthOver
<1>7. ASSUME NEW k \in Kinds, Auction(k)
      PROVE  Seen
  <2>1. CASE SortOverrun(k) \/ MissingBidder(k)
    BY <1>2, <2>1 DEF SortOverrun, MissingBidder, Stopped, OpenPhase, GrantPhase
  <2>2. CASE SkipAuction(k) \/ OpenAuction(k) \/ PassOver(k) \/ Trade(k) \/ CloseAuction(k)
    <3>1. UNCHANGED people /\ UNCHANGED session
      BY <2>2 DEF SkipAuction, OpenAuction, PassOver, Trade, NextBid, CloseAuction
    <3>2. phase \in Auctioning /\ phase' \in Auctioning \cup {"builds"}
      BY <2>2 DEF SkipAuction, OpenAuction, PassOver, Trade, NextBid, CloseAuction,
                  OpenPhase, GrantPhase, AfterAuction, Auctioning
    <3>3. Stopped' = Stopped /\ MonthOver' = MonthOver
      BY <3>2 DEF Stopped, MonthOver, Auctioning
    <3> QED BY <1>1, <3>1, <3>3 DEF people, session
  <2> QED BY <1>7, <2>1, <2>2 DEF Auction
<1>8. CASE Oversold \/ ConnectionError
  BY <1>2, <1>8 DEF Oversold, ConnectionError, Stopped
<1>9. CASE CheckBuilds
  <2>1. UNCHANGED <<free, turned>> /\ UNCHANGED session
    BY <1>9 DEF CheckBuilds, Age, PaySecondHalf, CannotPayHalf, Complete, LeavePlayer, EndWalk,
                people
  <2>2. phase = "builds" /\ phase' \in {"builds", "charges"}
    BY <1>9 DEF CheckBuilds, Age, PaySecondHalf, CannotPayHalf, Complete, LeavePlayer, EndWalk,
                Walking
  <2> QED BY <1>1, <2>1, <2>2 DEF session, Stopped, MonthOver
<1>10. CASE PayCharges
  BY <1>1, <1>10 DEF PayCharges, session, Stopped, MonthOver
<1>11. CASE QuitBankrots
  BY <1>11, QuitBankrotsRefines DEF Session!Next
<1>12. CASE PrepareNewTurn
  BY <1>12, PrepareNewTurnRefines
<1> QED BY <1>3, <1>4, <1>5, <1>6, <1>7, <1>8, <1>9, <1>10, <1>11, <1>12 DEF Next, MonthEnd

LEMMA InitRefines == ASSUME Init PROVE Session!Init
<1>1. ~Stopped /\ ~MonthOver /\ turn = 1 /\ ready = 0
  BY DEF Init, Stopped, MonthOver
<1>2. Waiting = Present
  BY DEF Init, Waiting, Present, Everybody
<1>3. Ended = {} /\ Cardinality(Ended) = 0
  BY <1>2, NoPlayers DEF Ended
<1>4. alive >= Cardinality(Present) /\ alive \in Nat
  BY CountersInit, TypeInit DEF CountersCoverPlayers, TypeOK, SessionType
<1>5. alive - Cardinality(Present) \in Nat
  BY <1>4, EndedFacts
<1> QED BY <1>1, <1>3, <1>5, EndedFacts DEF Session!Init, Ended

\* The counters, and a month end that takes a step for every request, site and
\* account, are to the players what Rounds says: for every number of players, any
\* settings, requests and bankruptcies, with who was lost in the lobby.
THEOREM SessionImplementsRounds == Spec => ImplementsRounds
<1>1. RInv /\ [Next]_vars => [Session!Next]_(Session!rounds)
  BY StepRefines
<1>2. Init => Session!Init
  BY InitRefines
<1> QED BY <1>1, <1>2, RInvariance, PTL DEF Spec, ImplementsRounds, Session!Spec

-----------------------------------------------------------------------------
(* What Rounds promises, of the session.                                   *)

LEMMA MonthNumber ==
    ASSUME RInv
    PROVE  (IF Stopped THEN 0 ELSE IF MonthOver THEN turn + 1 ELSE turn) \in Nat
BY DEF RInv, IInv, TypeOK, SessionType

\* Without players who left, counters that are equal mean that everybody has ended
\* the turn: comparing numbers is then as good as comparing sets.
THEOREM EndsRight == Spec => Session!EndsByTheirTurns
<1> DEFINE number == IF Stopped THEN 0 ELSE IF MonthOver THEN turn + 1 ELSE turn
           inGame == IF Stopped THEN {} ELSE Present
           ended  == IF MonthOver THEN {} ELSE Present \ Waiting
           ghosts == IF MonthOver THEN 0 ELSE ready - Cardinality(Present \ Waiting)
           missing == IF Stopped THEN 0 ELSE alive - Cardinality(Present)
<1>1. ASSUME RInv, [Next]_vars, number' > number, ghosts = 0, missing = 0
      PROVE  ended = inGame
  <2>1. number \in Nat
    BY <1>1, MonthNumber
  <2>2. Session!Next \/ UNCHANGED Session!rounds
    BY <1>1, StepRefines
  <2>3. ASSUME NEW p \in Players, Session!EndTurn(p) \/ Session!Leave(p)
        PROVE  number' = number
    BY <2>3 DEF Session!EndTurn, Session!Leave
  <2>4. Session!Stop => number' = 0
    BY DEF Session!Stop
  <2>5. (UNCHANGED Session!rounds) => number' = number
    BY DEF Session!rounds
  <2> DEFINE later == number'
  <2>6. later > number
    BY <1>1
  <2> HIDE DEF number, later
  <2>7. Session!EndMonth
    <3>1. ~(later = number) /\ ~(later = 0)
      BY <2>1, <2>6
    <3> QED BY <2>2, <2>3, <2>4, <2>5, <3>1 DEF Session!Next, later
  <2>8. /\ ~Stopped
        /\ Session!Cardinality(ended) + ghosts = Session!Cardinality(inGame) + missing
    BY <2>7 DEF Session!EndMonth, Session!AllReady
  <2>9. Cardinality(ended) + 0 = Cardinality(inGame) + 0
    BY <1>1, <2>8, SameSizes
  <2>10. IsFiniteSet(Present) /\ inGame = Present /\ ended \in SUBSET Present
    BY <2>8, EndedFacts, PlayersFinite
  <2> HIDE DEF ended, inGame
  <2>11. Cardinality(ended) \in Nat /\ Cardinality(Present) \in Nat
    BY <2>10, FS_Subset, FS_CardinalityType
  <2>12. Cardinality(Present) = Cardinality(ended)
    BY <2>9, <2>10, <2>11
  <2> QED BY <2>10, <2>12, FS_Subset
<1>2. RInv /\ [Next]_vars =>
         [number' > number /\ ghosts = 0 /\ missing = 0 => ended = inGame]_(Session!rounds)
  BY <1>1
<1> QED BY <1>2, RInvariance, PTL DEF Spec, Session!EndsByTheirTurns

\* A turn once ended is not taken back within the month.
THEOREM TurnsLast == Spec => Session!TurnsStand
<1> DEFINE number == IF Stopped THEN 0 ELSE IF MonthOver THEN turn + 1 ELSE turn
           inGame == IF Stopped THEN {} ELSE Present
           ended  == IF MonthOver THEN {} ELSE Present \ Waiting
<1>1. ASSUME RInv, [Next]_vars, ~Stopped', number' = number
      PROVE  ended \cap inGame' \subseteq ended'
  <2>1. Session!Next \/ UNCHANGED Session!rounds
    BY <1>1, StepRefines
  <2>2. ASSUME NEW p \in Players, Session!EndTurn(p) \/ Session!Leave(p)
        PROVE  ended \cap inGame' \subseteq ended'
    BY <2>2 DEF Session!EndTurn, Session!Leave
  <2>3. ~Session!EndMonth
    <3>1. Session!EndMonth => number' = number + 1
      BY DEF Session!EndMonth
    <3>2. number \in Nat
      BY <1>1, MonthNumber
    <3> HIDE DEF number
    <3> QED BY <1>1, <3>1, <3>2
  <2>4. ~Session!Stop
    BY <1>1 DEF Session!Stop
  <2>5. CASE UNCHANGED Session!rounds
    BY <2>5 DEF Session!rounds
  <2> QED BY <2>1, <2>2, <2>3, <2>4, <2>5 DEF Session!Next
<1>2. RInv /\ [Next]_vars =>
         [~Stopped' /\ number' = number => ended \cap inGame' \subseteq ended']_(Session!rounds)
  BY <1>1
<1> QED BY <1>2, RInvariance, PTL DEF Spec, Session!TurnsStand

-----------------------------------------------------------------------------
(* The auctions. *)

\* The requests of an auction, and those it still has to go through.
Asked(k) == {requests[k][i] : i \in DOMAIN requests[k]}
Pending  == {bids[i] : i \in DOMAIN bids}

\* Nobody is twice in a list of requests.
OneEach(reqs) ==
    \A i, j \in DOMAIN reqs : reqs[i].player = reqs[j].player => i = j

OneRequestEach == \A k \in Kinds : OneEach(requests[k])

BidsInAuctions ==
    phase \notin {"grantSource", "grantProduct", "stopped", "undefined"} => bids = <<>>

Bids == OneRequestEach /\ BidsInAuctions

\* The phases of a month end before the auction's first grant.
Ahead(k) ==
    IF k = "source" THEN {"openSource"} ELSE {"openSource", "grantSource", "openProduct"}

NothingGranted(k) == \A p \in Players : granted[k][p] = 0

\* What is granted and what is left make up the supply.
Supplied(k) ==
    /\ phase \in Ahead(k) => NothingGranted(k)
    /\ phase = GrantPhase(k) => Cardinality(Units(granted[k])) + offered = Supply(k)
    /\ AuctionDone(k) => Cardinality(Units(granted[k])) <= Supply(k)

\* Who outranks somebody who got something got all, as long as the auction goes on
\* and after it.
Priority(k) ==
    \A a, b \in Asked(k) :
        granted[k][b.player] > 0 /\ a.price > 0 /\ Outranks(k, a, b)
            => granted[k][a.player] = a.amount

\* What is pending is in order, has got nothing and outranks nobody who has.
InOrder(k) ==
    /\ Pending \subseteq Asked(k)
    /\ \A i, j \in DOMAIN bids : i < j =>
           /\ bids[i].player # bids[j].player
           /\ ~Outranks(k, bids[j], bids[i])
    /\ \A c \in Pending : granted[k][c.player] = 0
    /\ \A b \in Asked(k) : granted[k][b.player] > 0 =>
           \A c \in Pending : ~Outranks(k, c, b)

\* A request with a price has its turn to come, or has all it asked for, or nothing
\* is left, or it was lost in the sorting, and outranks nobody who was not.
Accounted(k) ==
    \A a \in Asked(k) : a.price > 0 =>
        \/ a \in Pending
        \/ granted[k][a.player] = a.amount
        \/ offered = 0
        \/ \A b \in Asked(k) :
               b \in Pending \/ granted[k][b.player] > 0 => ~Outranks(k, a, b)

Ranked(k) ==
    /\ phase = GrantPhase(k) => InOrder(k) /\ Accounted(k)
    /\ phase = GrantPhase(k) \/ AuctionDone(k) => Priority(k)

AInv == Bids /\ \A k \in Kinds : Supplied(k) /\ Ranked(k)

-----------------------------------------------------------------------------
(* Units.                                                                  *)

LEMMA UnitsFinite ==
    ASSUME NEW f \in [Players -> Nat]
    PROVE  IsFiniteSet(Units(f)) /\ Cardinality(Units(f)) \in Nat
<1> DEFINE h == [p \in Players |-> {p} \X (1..f[p])]
           S == {h[p] : p \in Players}
<1>1. IsFiniteSet(S)
  <2>1. h \in Surjection(Players, S)
    BY DEF Surjection
  <2> QED BY <2>1, PlayersFinite, FS_Surjection
<1>2. ASSUME NEW p \in Players PROVE IsFiniteSet(h[p])
  <2>1. IsFiniteSet({p})
    BY FS_Singleton
  <2>2. f[p] \in Int
    OBVIOUS
  <2>3. IsFiniteSet(1..f[p])
    BY <2>2, FS_Interval
  <2>4. IsFiniteSet({p} \X (1..f[p]))
    BY <2>1, <2>3, FS_Product
  <2> QED BY <2>4
<1>3. IsFiniteSet(UNION S)
  <2>1. \A T \in S : IsFiniteSet(T)
    BY <1>2
  <2> HIDE DEF S
  <2> QED BY <1>1, <2>1, FS_UNION
<1>4. Units(f) = UNION S
  BY DEF Units
<1> QED BY <1>3, <1>4, FS_CardinalityType

LEMMA NoUnits ==
    ASSUME NEW f \in [Players -> Nat], \A p \in Players : f[p] = 0
    PROVE  Cardinality(Units(f)) = 0
<1>1. Units(f) = {}
  BY DEF Units
<1> QED BY <1>1, FS_EmptySet

\* Who is granted more has as many units more.
LEMMA UnitsGrow ==
    ASSUME NEW f \in [Players -> Nat], NEW p \in Players, NEW g \in Nat
    PROVE  Cardinality(Units([f EXCEPT ![p] = @ + g])) = Cardinality(Units(f)) + g
<1> DEFINE new == {p} \X ((f[p] + 1)..(f[p] + g))
           more == [f EXCEPT ![p] = @ + g]
<1>1. Units(more) = Units(f) \cup new /\ Units(f) \cap new = {}
  <2>1. \A q \in Players : more[q] = IF q = p THEN f[p] + g ELSE f[q]
    OBVIOUS
  <2>2. 1..(f[p] + g) = (1..f[p]) \cup ((f[p] + 1)..(f[p] + g))
        /\ (1..f[p]) \cap ((f[p] + 1)..(f[p] + g)) = {}
    OBVIOUS
  <2>3. \A q \in Players : {q} \X (1..more[q]) =
            IF q = p THEN ({q} \X (1..f[q])) \cup new ELSE {q} \X (1..f[q])
    BY <2>1, <2>2
  <2> HIDE DEF more
  <2>4. \A q \in Players : ({q} \X (1..f[q])) \cap new = {}
    BY <2>2
  <2>5. ASSUME NEW x
        PROVE  x \in Units(more) <=> x \in Units(f) \/ x \in new
    <3>1. x \in Units(more) <=> \E q \in Players : x \in {q} \X (1..more[q])
      BY DEF Units
    <3>2. x \in Units(f) <=> \E q \in Players : x \in {q} \X (1..f[q])
      BY DEF Units
    <3> HIDE DEF new
    <3> QED BY <2>3, <3>1, <3>2
  <2>6. Units(f) \cap new = {}
    BY <2>4 DEF Units
  <2> HIDE DEF new
  <2> QED BY <2>5, <2>6
<1>2. IsFiniteSet(new) /\ Cardinality(new) = g
  <2>1. IsFiniteSet({p}) /\ Cardinality({p}) = 1
    BY FS_Singleton
  <2>2. IsFiniteSet((f[p] + 1)..(f[p] + g)) /\ Cardinality((f[p] + 1)..(f[p] + g)) = g
    <3>1. f[p] + 1 \in Int /\ f[p] + g \in Int
      OBVIOUS
    <3>2. IsFiniteSet((f[p] + 1)..(f[p] + g))
          /\ Cardinality((f[p] + 1)..(f[p] + g)) =
                 IF f[p] + 1 > f[p] + g THEN 0 ELSE (f[p] + g) - (f[p] + 1) + 1
      BY <3>1, FS_Interval
    <3> QED BY <3>2
  <2>3. IsFiniteSet(new)
        /\ Cardinality(new) = Cardinality({p}) * Cardinality((f[p] + 1)..(f[p] + g))
    BY <2>1, <2>2, FS_Product
  <2> QED BY <2>1, <2>2, <2>3
<1>3. IsFiniteSet(Units(f)) /\ Cardinality(Units(f)) \in Nat
  BY UnitsFinite
<1> HIDE DEF new, more
<1>4. Cardinality(Units(more)) =
          Cardinality(Units(f)) + Cardinality(new) - Cardinality(Units(f) \cap new)
  BY <1>1, <1>2, <1>3, FS_Union
<1>5. Cardinality(Units(f) \cap new) = 0
  BY <1>1, NoPlayers
<1>6. Cardinality(Units(more)) = Cardinality(Units(f)) + g
  BY <1>2, <1>3, <1>4, <1>5
<1> QED BY <1>6 DEF more

-----------------------------------------------------------------------------
(* Lists of requests.                                                      *)

\* As many places as elements, and no element in two of them: each has one.
LEMMA EachHasAPlace ==
    ASSUME NEW S, IsFiniteSet(S), NEW n \in Nat, n = Cardinality(S), NEW f \in [1..n -> S],
           \A i, j \in 1..n : f[i] = f[j] => i = j
    PROVE  \A x \in S : \E i \in 1..n : f[i] = x
<1>1. Cardinality(1..n) = n
  BY FS_Interval
<1>2. f \in Injection(1..n, S)
  BY DEF Injection, IsInjective
<1>3. f \in Surjection(1..n, S)
  BY <1>1, <1>2, FS_Injection
<1> QED BY <1>3 DEF Surjection

LEMMA InsertOneEach ==
    ASSUME NEW reqs \in Seq(Request), OneEach(reqs), NEW p \in Players, NEW b
    PROVE  OneEach(Insert(reqs, p, b))
<1> DEFINE r == [player |-> p, amount |-> b.amount, price |-> b.price]
<1>1. CASE Listed(reqs, p)
  BY <1>1 DEF Insert
<1>2. CASE ~Listed(reqs, p)
  <2>1. Insert(reqs, p, b) = Append(reqs, r)
    BY <1>2 DEF Insert
  <2>2. \A i \in DOMAIN reqs : reqs[i].player # p
    BY <1>2 DEF Listed
  <2> QED BY <2>1, <2>2 DEF OneEach
<1> QED BY <1>1, <1>2

Bidders(reqs) == {reqs[i].player : i \in DOMAIN reqs}

\* AddEmptyAuctionRequest adds whoever is present and not listed, once.
LEMMA EmptyRequestsComplete ==
    ASSUME TypeOK, NEW reqs \in Seq(Request), OneEach(reqs),
           NEW new \in WithEmptyRequests(reqs)
    PROVE  /\ OneEach(new)
           /\ Bidders(new) = Bidders(reqs) \cup Present
           /\ \A i \in DOMAIN reqs : new[i] = reqs[i]
<1> DEFINE U == Unlisted(reqs)
           n == Cardinality(U)
<1>1. U \in SUBSET Players /\ U = Present \ Bidders(reqs)
  BY DEF Unlisted, Present, Listed, Bidders
<1>2. IsFiniteSet(U) /\ n \in Nat /\ n = Cardinality(U)
  BY <1>1, PlayersFinite
<1>3. PICK f \in [1..n -> U] :
         /\ \A i, j \in 1..n : i < j => f[i] < f[j]
         /\ new = reqs \o [i \in DOMAIN f |-> [player |-> f[i], amount |-> 0, price |-> 0]]
  BY DEF WithEmptyRequests, Listings
<1> HIDE DEF U, n
<1>4. \A i, j \in 1..n : f[i] = f[j] => i = j
  <2>1. \A i \in 1..n : f[i] \in Int
    BY <1>1, <1>3 DEF Players
  <2> QED BY <1>2, <1>3, <2>1
<1>5. \A p \in U : \E i \in 1..n : f[i] = p
  <2>1. f \in [1..n -> U]
    BY <1>3
  <2> QED BY <1>2, <1>4, <2>1, EachHasAPlace, SMTT(30)
<1> DEFINE g == [i \in DOMAIN f |-> [player |-> f[i], amount |-> 0, price |-> 0]]
           m == Len(reqs)
<1>6. g \in Seq(Request) /\ Len(g) = n /\ \A i \in 1..n : g[i].player = f[i]
  <2>1. g \in [1..n -> Request]
    BY <1>1, <1>3 DEF Request
  <2> HIDE DEF g
  <2>2. g \in Seq(Request)
    BY <1>2, <2>1, FunctionIsSeq
  <2>3. Len(g) = n
    BY <1>2, <2>1
  <2>4. \A i \in 1..n : g[i].player = f[i]
    BY <1>3 DEF g
  <2> QED BY <2>2, <2>3, <2>4
<1>7. new = reqs \o g
  BY <1>3
<1> HIDE DEF g
<1>8. /\ DOMAIN new = 1..(m + n) /\ m \in Nat /\ DOMAIN reqs = 1..m
      /\ \A i \in 1..m : new[i] = reqs[i]
      /\ \A i \in (m + 1)..(m + n) : new[i] = g[i - m] /\ i - m \in 1..n
  <2>1. m \in Nat /\ DOMAIN reqs = 1..m
    OBVIOUS
  <2>2. reqs \in Seq(Request) /\ g \in Seq(Request)
        /\ Len(reqs) = m /\ Len(g) = n
    BY <1>6
  <2> HIDE DEF m
  <2>3. Len(new) = m + n /\ DOMAIN new = 1..(m + n)
    <3>1. Len(reqs \o g) = Len(reqs) + Len(g) /\ reqs \o g \in Seq(Request)
      BY <2>2
    <3> QED BY <1>2, <1>7, <2>1, <2>2, <3>1
  <2>4. \A i \in 1..m : new[i] = reqs[i]
    BY <1>2, <1>7, <2>1, <2>2
  <2>5. \A i \in (m + 1)..(m + n) : i - m \in 1..n /\ new[i] = g[i - m]
    BY <1>2, <1>7, <2>1, <2>2
  <2> QED BY <2>1, <2>3, <2>4, <2>5
<1>9. \A i \in 1..m : new[i].player \notin U
  BY <1>1, <1>8 DEF Bidders
<1>10. \A i \in (m + 1)..(m + n) : new[i].player = f[i - m] /\ new[i].player \in U
  BY <1>3, <1>6, <1>8
<1>11. OneEach(new)
  <2> SUFFICES ASSUME NEW i \in 1..(m + n), NEW j \in 1..(m + n),
                      new[i].player = new[j].player
               PROVE  i = j
    BY <1>8 DEF OneEach
  <2>1. CASE i \in 1..m /\ j \in 1..m
    BY <1>8, <2>1 DEF OneEach
  <2>2. CASE i \in (m + 1)..(m + n) /\ j \in (m + 1)..(m + n)
    <3>1. f[i - m] = f[j - m] /\ i - m \in 1..n /\ j - m \in 1..n
      BY <1>8, <1>10, <2>2
    <3>2. i - m = j - m
      BY <1>4, <3>1
    <3> QED BY <1>8, <2>2, <3>2
  <2>3. i \in 1..m <=> j \in 1..m
    BY <1>2, <1>8, <1>9, <1>10
  <2> QED BY <1>2, <1>8, <2>1, <2>2, <2>3
<1>12. Bidders(new) = Bidders(reqs) \cup U
  <2>1. ASSUME NEW p \in Bidders(new) PROVE p \in Bidders(reqs) \cup U
    <3>1. PICK i \in 1..(m + n) : p = new[i].player
      BY <1>8, <2>1 DEF Bidders
    <3>2. CASE i \in 1..m
      BY <1>2, <1>8, <3>1, <3>2 DEF Bidders
    <3>3. CASE i \in (m + 1)..(m + n)
      BY <1>10, <3>1, <3>3
    <3>4. i \in 1..m \/ i \in (m + 1)..(m + n)
      BY <1>2, <1>8
    <3> QED BY <3>2, <3>3, <3>4
  <2>2. ASSUME NEW p \in Bidders(reqs) PROVE p \in Bidders(new)
    <3>1. PICK i \in 1..m : p = new[i].player
      BY <1>8, <2>2 DEF Bidders
    <3>2. i \in DOMAIN new
      BY <1>2, <1>8
    <3> QED BY <3>1, <3>2 DEF Bidders
  <2>3. ASSUME NEW p \in U PROVE p \in Bidders(new)
    <3>1. PICK i \in 1..n : f[i] = p
      BY <1>5, <2>3
    <3>2. i + m \in (m + 1)..(m + n) /\ (i + m) - m = i
      BY <1>2, <1>8
    <3>3. new[i + m].player = p
      BY <1>10, <3>1, <3>2
    <3>4. i + m \in DOMAIN new
      BY <1>2, <1>8, <3>2
    <3> QED BY <3>3, <3>4 DEF Bidders
  <2> QED BY <2>1, <2>2, <2>3
<1>13. Bidders(reqs) \cup U = Bidders(reqs) \cup Present
  BY <1>1
<1> QED BY <1>8, <1>11, <1>12, <1>13

\* A list with each of its bidders once is as long as they are many.
LEMMA BiddersCounted ==
    ASSUME NEW reqs \in Seq(Request), OneEach(reqs)
    PROVE  Bidders(reqs) \in SUBSET Players /\ Cardinality(Bidders(reqs)) = Len(reqs)
<1> DEFINE n == Len(reqs)
           f == [i \in 1..n |-> reqs[i].player]
<1>1. n \in Nat /\ DOMAIN reqs = 1..n
  OBVIOUS
<1>2. \A i \in 1..n : reqs[i].player \in Players
  <2>1. \A i \in 1..n : reqs[i] \in Request
    BY <1>1
  <2> QED BY <2>1 DEF Request
<1>3. Bidders(reqs) \in SUBSET Players
  BY <1>1, <1>2 DEF Bidders
<1> HIDE DEF n
<1>4. f \in [1..n -> Bidders(reqs)]
  BY <1>1 DEF Bidders
<1>5. f \in Injection(1..n, Bidders(reqs))
  BY <1>1, <1>4 DEF OneEach, Injection, IsInjective
<1>6. f \in Surjection(1..n, Bidders(reqs))
  BY <1>1, <1>4 DEF Surjection, Bidders
<1> HIDE DEF f
<1>7. Cardinality(1..n) = Cardinality(Bidders(reqs))
  BY <1>3, <1>5, <1>6, PlayersFinite, FS_Injection
<1>8. Cardinality(1..n) = n
  BY <1>1, FS_Interval
<1> QED BY <1>3, <1>7, <1>8 DEF n

-----------------------------------------------------------------------------
(* Requests and bids.                                                      *)

LEMMA AskedFacts ==
    ASSUME TypeOK, NEW k \in Kinds
    PROVE  /\ requests[k] \in Seq(Request) /\ granted[k] \in [Players -> Nat]
           /\ \A a \in Asked(k) :
                  /\ a \in Request /\ a.player \in Players
                  /\ a.amount \in Nat /\ a.price \in Nat
                  /\ granted[k][a.player] \in Nat
<1>1. requests[k] \in Seq(Request) /\ granted[k] \in [Players -> Nat]
  BY DEF TypeOK, TradeType, Amounts
<1>2. \A a \in Asked(k) : a \in Request
  BY <1>1 DEF Asked
<1>3. \A a \in Request : a.player \in Players /\ a.amount \in Nat /\ a.price \in Nat
  BY DEF Request
<1> QED BY <1>1, <1>2, <1>3

LEMMA SameAsker ==
    ASSUME Bids, NEW k \in Kinds, NEW a \in Asked(k), NEW b \in Asked(k), a.player = b.player
    PROVE  a = b
BY DEF Bids, OneRequestEach, OneEach, Asked

\* Who outranks whom is a matter of prices.
LEMMA OutranksOrder ==
    ASSUME NEW k, NEW a \in Request, NEW b \in Request, NEW c \in Request
    PROVE  /\ ~Outranks(k, a, a)
           /\ Outranks(k, a, b) => ~Outranks(k, b, a)
           /\ Outranks(k, a, b) /\ Outranks(k, b, c) => Outranks(k, a, c)
<1>1. a.price \in Nat /\ b.price \in Nat /\ c.price \in Nat
  BY DEF Request
<1> QED BY <1>1 DEF Outranks

\* The first bid and those after it.
LEMMA FirstBid ==
    ASSUME TypeOK, bids # <<>>
    PROVE  /\ Len(bids) \in Nat \ {0} /\ DOMAIN bids = 1..Len(bids) /\ Head(bids) = bids[1]
           /\ DOMAIN Tail(bids) = 1..(Len(bids) - 1)
           /\ \A i \in 1..(Len(bids) - 1) : Tail(bids)[i] = bids[i + 1] /\ i + 1 \in DOMAIN bids
           /\ Head(bids) \in Pending
           /\ \A c \in Pending :
                  c = Head(bids) \/ \E i \in 1..(Len(bids) - 1) : c = Tail(bids)[i]
<1>1. bids \in Seq(Request)
  BY DEF TypeOK, TradeType
<1>2. Len(bids) \in Nat \ {0} /\ DOMAIN bids = 1..Len(bids) /\ Head(bids) = bids[1]
  BY <1>1
<1>3. DOMAIN Tail(bids) = 1..(Len(bids) - 1)
      /\ \A i \in 1..(Len(bids) - 1) : Tail(bids)[i] = bids[i + 1] /\ i + 1 \in DOMAIN bids
  BY <1>1, <1>2
<1>4. Head(bids) \in Pending
  BY <1>2 DEF Pending
<1>5. ASSUME NEW c \in Pending
      PROVE  c = Head(bids) \/ \E i \in 1..(Len(bids) - 1) : c = Tail(bids)[i]
  <2>1. PICK j \in 1..Len(bids) : c = bids[j]
    BY <1>2 DEF Pending
  <2>2. CASE j # 1
    <3>1. j - 1 \in 1..(Len(bids) - 1) /\ (j - 1) + 1 = j
      BY <1>2, <2>2
    <3> QED BY <1>3, <2>1, <3>1
  <2> QED BY <1>2, <2>1, <2>2
<1> QED BY <1>2, <1>3, <1>4, <1>5

-----------------------------------------------------------------------------
(* Nobody is twice in a list, and there are bids during auctions only.     *)

LEMMA BidsFrame ==
    ASSUME Bids, UNCHANGED <<requests, bids>>,
           phase \notin {"grantSource", "grantProduct", "stopped", "undefined"}
               \/ phase' \in {"grantSource", "grantProduct", "stopped", "undefined"}
    PROVE  Bids'
BY DEF Bids, OneRequestEach, OneEach, BidsInAuctions

LEMMA SendBids ==
    ASSUME TypeOK, Bids, NEW k \in Kinds, NEW p \in Players, NEW b, SendRequest(k, p, b)
    PROVE  Bids'
<1>1. /\ phase' = phase /\ bids' = bids
      /\ \A m \in Kinds :
             requests'[m] = IF m = k THEN Insert(requests[k], p, b) ELSE requests[m]
  BY DEF SendRequest, TypeOK, TradeType
<1>2. OneEach(Insert(requests[k], p, b))
  BY AskedFacts, InsertOneEach DEF Bids, OneRequestEach
<1>3. OneRequestEach'
  BY <1>1, <1>2 DEF Bids, OneRequestEach, OneEach
<1> QED BY <1>1, <1>3 DEF Bids, BidsInAuctions

\* What OpenAuction makes of the requests and of the bids.
LEMMA Opened ==
    ASSUME TypeOK, Bids, NEW k \in Kinds, OpenAuction(k)
    PROVE  /\ requests'[k] \in Seq(Request) /\ OneEach(requests'[k])
           /\ Bidders(requests'[k]) = Bidders(requests[k]) \cup Present
           /\ SortDefined(k, requests'[k]) /\ bids' \in Sorted(k, requests'[k])
           /\ \A m \in Kinds \ {k} : requests'[m] = requests[m]
<1>1. PICK reqs \in WithEmptyRequests(requests[k]) :
         /\ SortDefined(k, reqs)
         /\ requests' = [requests EXCEPT ![k] = reqs]
         /\ bids' \in Sorted(k, reqs)
  BY DEF OpenAuction
<1>2. requests'[k] = reqs /\ \A m \in Kinds \ {k} : requests'[m] = requests[m]
  BY <1>1 DEF TypeOK, TradeType
<1>3. OneEach(reqs) /\ Bidders(reqs) = Bidders(requests[k]) \cup Present
  BY <1>1, AskedFacts, EmptyRequestsComplete DEF Bids, OneRequestEach
<1>4. reqs \in Seq(Request)
  BY <1>1, AskedFacts, EmptyRequestsType
<1> QED BY <1>1, <1>2, <1>3, <1>4

LEMMA BidsStep ==
    ASSUME TypeOK, Bids, [Next]_vars
    PROVE  Bids'
<1>1. CASE UNCHANGED vars
  BY <1>1, BidsFrame DEF vars, trade
<1>2. ASSUME NEW p \in Players, Command(p) \/ Disconnect(p)
      PROVE  Bids'
  <2>1. CASE Prod(p) \/ Build(p) \/ BuildOverflow(p) \/ Turn(p) \/ Disconnect(p)
    <3>1. UNCHANGED trade
      BY <2>1 DEF Prod, Build, BuildOverflow, Turn, Disconnect
    <3>2. phase = "play"
      BY <2>1 DEF Prod, Build, BuildOverflow, Turn, Disconnect, MayCommand
    <3> QED BY <3>1, <3>2, BidsFrame DEF trade
  <2>2. CASE (\E b \in BuyBids : Buy(p, b)) \/ (\E b \in SellBids : Sell(p, b))
    BY <2>2, SendBids DEF Buy, Sell, Kinds
  <2> QED BY <1>2, <2>1, <2>2 DEF Command
<1>3. CASE NextPass \/ ConnectionError \/ CloseMonth
  <2>1. UNCHANGED <<requests, bids>>
    BY <1>3 DEF NextPass, ConnectionError, CloseMonth, trade
  <2>2. phase \notin {"grantSource", "grantProduct", "stopped", "undefined"}
    BY <1>3 DEF NextPass, ConnectionError, CloseMonth
  <2> QED BY <2>1, <2>2, BidsFrame
<1>4. ASSUME NEW k \in Kinds, Auction(k)
      PROVE  Bids'
  <2>1. CASE SkipAuction(k) \/ SortOverrun(k) \/ MissingBidder(k)
    <3>1. UNCHANGED <<requests, bids>>
      BY <2>1 DEF SkipAuction, SortOverrun, MissingBidder, trade
    <3>2. phase \in {"openSource", "openProduct"} \/ phase' = "undefined"
      BY <2>1 DEF SkipAuction, SortOverrun, MissingBidder, OpenPhase
    <3> QED BY <3>1, <3>2, BidsFrame
  <2>2. CASE OpenAuction(k)
    <3>1. phase' \in {"grantSource", "grantProduct"}
      BY <2>2 DEF OpenAuction, GrantPhase
    <3>2. \A m \in Kinds : OneEach(requests'[m])
      BY <2>2, Opened DEF Bids, OneRequestEach
    <3>3. OneRequestEach'
      BY <3>2 DEF OneRequestEach, OneEach
    <3> QED BY <3>1, <3>3 DEF Bids, BidsInAuctions
  <2>3. CASE PassOver(k) \/ Trade(k)
    <3>1. phase' \in {"grantSource", "grantProduct"} /\ requests' = requests
      BY <2>3 DEF PassOver, Trade, NextBid, GrantPhase
    <3>2. OneRequestEach'
      BY <3>1 DEF Bids, OneRequestEach, OneEach
    <3> QED BY <3>1, <3>2 DEF Bids, BidsInAuctions
  <2>4. CASE CloseAuction(k)
    <3>1. UNCHANGED <<requests, bids>> /\ bids = <<>>
      BY <2>4 DEF CloseAuction, trade
    <3> QED BY <3>1 DEF Bids, OneRequestEach, OneEach, BidsInAuctions
  <2> QED BY <1>4, <2>1, <2>2, <2>3, <2>4 DEF Auction
<1>5. CASE Oversold
  BY <1>5, BidsFrame DEF Oversold, trade
<1>6. CASE CheckBuilds \/ PayCharges \/ QuitBankrots \/ PrepareNewTurn
  <2>1. UNCHANGED <<requests, bids>>
    BY <1>6 DEF CheckBuilds, Age, PaySecondHalf, CannotPayHalf, Complete, LeavePlayer, EndWalk,
                PayCharges, QuitBankrots, PrepareNewTurn, trade
  <2>2. phase \in {"builds", "charges", "bankrots", "newTurn"}
    BY <1>6 DEF CheckBuilds, Age, PaySecondHalf, CannotPayHalf, Complete, LeavePlayer, EndWalk,
                Walking, PayCharges, QuitBankrots, PrepareNewTurn
  <2> QED BY <2>1, <2>2, BidsFrame
<1> QED BY <1>1, <1>2, <1>3, <1>4, <1>5, <1>6 DEF Next, MonthEnd

-----------------------------------------------------------------------------
(* An auction sells its supply in the order of the prices: the steps that  *)
(* do not see the auction k.                                               *)

AuctionInv(k) == Supplied(k) /\ Ranked(k)

\* A step that keeps the requests, what they got and the supply, and neither begins
\* the auction nor, without having been in it, ends it.
LEMMA AuctionFrame ==
    ASSUME TypeOK, NEW k \in Kinds, AuctionInv(k),
           requests'[k] = requests[k], granted'[k] = granted[k], market' = market,
           phase' \in Ahead(k) => phase \in Ahead(k),
           phase' = GrantPhase(k) => phase = GrantPhase(k) /\ UNCHANGED <<bids, offered>>,
           AuctionDone(k)' => AuctionDone(k) \/ phase = GrantPhase(k)
    PROVE  AuctionInv(k)'
<1>1. Supply(k)' = Supply(k) /\ Units(granted[k])' = Units(granted[k])
      /\ NothingGranted(k)' = NothingGranted(k) /\ Asked(k)' = Asked(k)
  BY DEF Supply, Units, NothingGranted, Asked
<1>2. Supplied(k)'
  <2>1. Cardinality(Units(granted[k])) \in Nat /\ offered \in Nat /\ Supply(k) \in Nat
    BY AskedFacts, UnitsFinite DEF TypeOK, TradeType, SessionType, Supply
  <2> QED BY <1>1, <2>1 DEF AuctionInv, Supplied
<1>3. Ranked(k)'
  <2>1. Priority(k)' = Priority(k)
    BY <1>1 DEF Priority
  <2>2. bids' = bids /\ offered' = offered =>
            InOrder(k)' = InOrder(k) /\ Accounted(k)' = Accounted(k)
    BY <1>1 DEF InOrder, Accounted, Pending
  <2> QED BY <2>1, <2>2 DEF AuctionInv, Ranked
<1> QED BY <1>2, <1>3 DEF AuctionInv

\* Outside the month end the invariant says nothing.
LEMMA NoAuction ==
    ASSUME NEW k \in Kinds, phase' \in {"play", "stopped", "undefined"}
    PROVE  AuctionInv(k)'
BY DEF AuctionInv, Supplied, Ranked, Ahead, GrantPhase, AuctionDone, Kinds

LEMMA CloseMonthAuction ==
    ASSUME NEW k \in Kinds, CloseMonth
    PROVE  AuctionInv(k)'
<1>1. phase' = "openSource" /\ NothingGranted(k)'
  BY DEF CloseMonth, NothingGranted, Everybody
<1> QED BY <1>1 DEF AuctionInv, Supplied, Ranked, Ahead, GrantPhase, AuctionDone, Kinds

LEMMA SkipAuctionDone ==
    ASSUME TypeOK, NEW k \in Kinds, AuctionInv(k), SkipAuction(k)
    PROVE  AuctionInv(k)'
<1>1. /\ phase = OpenPhase(k) /\ phase' = AfterAuction(k) /\ requests'[k] = <<>>
      /\ granted' = granted /\ market' = market
  BY DEF SkipAuction, trade, session
<1>2. NothingGranted(k)
  BY <1>1 DEF AuctionInv, Supplied, Ahead, OpenPhase, Kinds
<1>3. Cardinality(Units(granted[k])) = 0
  BY <1>2, AskedFacts, NoUnits DEF NothingGranted
<1>4. Cardinality(Units(granted[k]))' <= Supply(k)'
  <2>1. Units(granted[k])' = Units(granted[k]) /\ Supply(k)' = Supply(k) /\ Supply(k) \in Nat
    BY <1>1 DEF Units, Supply, TypeOK, SessionType
  <2> QED BY <1>3, <2>1
<1>5. Priority(k)'
  BY <1>1 DEF Priority, Asked
<1>6. ~(phase' \in Ahead(k)) /\ phase' # GrantPhase(k)
  BY <1>1 DEF AfterAuction, Ahead, GrantPhase, Kinds
<1> QED BY <1>4, <1>5, <1>6 DEF AuctionInv, Supplied, Ranked

LEMMA CloseAuctionDone ==
    ASSUME TypeOK, NEW k \in Kinds, AuctionInv(k), CloseAuction(k)
    PROVE  AuctionInv(k)'
<1>1. /\ phase = GrantPhase(k) /\ phase' = AfterAuction(k) /\ requests'[k] = requests[k]
      /\ granted'[k] = granted[k] /\ market' = market
  BY DEF CloseAuction, trade, session
<1>2. ~(phase' \in Ahead(k)) /\ phase' # GrantPhase(k)
  BY <1>1 DEF AfterAuction, Ahead, GrantPhase, Kinds
<1> QED BY <1>1, <1>2, AuctionFrame

-----------------------------------------------------------------------------
(* The auction is opened: the bids are the requests found, in order.       *)

LEMMA OpenAuctionSupplied ==
    ASSUME TypeOK, NEW k \in Kinds, Supplied(k), OpenAuction(k)
    PROVE  Supplied(k)' /\ NothingGranted(k)'
<1>1. /\ phase = OpenPhase(k) /\ phase' = GrantPhase(k) /\ granted' = granted
      /\ market' = market /\ offered' = Supply(k)
  BY DEF OpenAuction, session, Supply
<1>2. NothingGranted(k)
  BY <1>1 DEF Supplied, Ahead, OpenPhase, Kinds
<1>3. Cardinality(Units(granted[k])) = 0
  BY <1>2, AskedFacts, NoUnits DEF NothingGranted
<1>4. Cardinality(Units(granted[k]))' + offered' = Supply(k)'
  <2>1. Units(granted[k])' = Units(granted[k]) /\ Supply(k)' = Supply(k) /\ Supply(k) \in Nat
    BY <1>1 DEF Units, Supply, TypeOK, SessionType
  <2> QED BY <1>1, <1>3, <2>1
<1>5. ~(phase' \in Ahead(k)) /\ ~AuctionDone(k)'
  BY <1>1 DEF GrantPhase, Ahead, AuctionDone, Kinds
<1>6. NothingGranted(k)'
  BY <1>1, <1>2 DEF NothingGranted
<1> QED BY <1>4, <1>5, <1>6 DEF Supplied

\* SortRequestsByPrice: each request found has one place in the sorted list, nobody
\* has two, none is before one that outranks it; and who is left out outranks
\* nobody who is found.
LEMMA SortedList ==
    ASSUME NEW k \in Kinds, NEW reqs \in Seq(Request), reqs # <<>>, OneEach(reqs),
           NEW s \in Sorted(k, reqs)
    PROVE  /\ \A i \in DOMAIN s : \E x \in Found(k, reqs) : s[i] = reqs[x]
           /\ \A x \in Found(k, reqs) : \E i \in DOMAIN s : s[i] = reqs[x]
           /\ \A i, j \in DOMAIN s : i < j =>
                  s[i].player # s[j].player /\ ~Outranks(k, s[j], s[i])
           /\ \A x \in DOMAIN reqs \ Found(k, reqs) : \A y \in Found(k, reqs) :
                  ~Outranks(k, reqs[x], reqs[y])
<1> DEFINE S == Found(k, reqs)
           n == Cardinality(S)
<1>1. S \in SUBSET (DOMAIN reqs) /\ DOMAIN reqs = 1..Len(reqs) /\ Len(reqs) \in Nat \ {0}
  BY DEF Found
<1>2. IsFiniteSet(S) /\ n \in Nat /\ n = Cardinality(S)
  <2>1. IsFiniteSet(DOMAIN reqs)
    BY <1>1, FS_Interval
  <2> QED BY <1>1, <2>1, FS_Subset, FS_CardinalityType
<1>3. \A x \in DOMAIN reqs : reqs[x] \in Request /\ reqs[x].price \in Nat /\ x \in Nat
  <2>1. \A x \in DOMAIN reqs : reqs[x] \in Request
    BY <1>1
  <2> QED BY <1>1, <2>1 DEF Request
<1>4. PICK f \in [1..n -> S] :
         /\ \A i, j \in 1..n : i < j => Before(k, reqs, f[i], f[j])
         /\ s = [i \in DOMAIN f |-> reqs[f[i]]]
  BY DEF Sorted, Listings
<1>5. DOMAIN s = 1..n /\ \A i \in 1..n : s[i] = reqs[f[i]] /\ f[i] \in S
  BY <1>4
<1> HIDE DEF S, n
<1>6. \A i, j \in 1..n : i < j => f[i] # f[j] /\ ~Outranks(k, reqs[f[j]], reqs[f[i]])
  <2> SUFFICES ASSUME NEW i \in 1..n, NEW j \in 1..n, i < j
               PROVE  f[i] # f[j] /\ ~Outranks(k, reqs[f[j]], reqs[f[i]])
    OBVIOUS
  <2>1. Before(k, reqs, f[i], f[j])
    BY <1>4
  <2>2. f[i] \in DOMAIN reqs /\ f[j] \in DOMAIN reqs
    BY <1>1, <1>5
  <2>3. /\ reqs[f[i]].price \in Nat /\ reqs[f[j]].price \in Nat
        /\ f[i] \in Nat /\ f[j] \in Nat
    BY <1>3, <2>2
  <2> QED BY <2>1, <2>3 DEF Before, Outranks
<1>7. \A i, j \in 1..n : f[i] = f[j] => i = j
  BY <1>2, <1>6
<1>8. \A x \in S : \E i \in 1..n : f[i] = x
  <2>1. f \in [1..n -> S]
    BY <1>4
  <2> QED BY <1>2, <1>7, <2>1, EachHasAPlace, SMTT(30)
<1>9. \A i, j \in DOMAIN s : i < j => s[i].player # s[j].player /\ ~Outranks(k, s[j], s[i])
  <2>1. \A i, j \in 1..n : f[i] # f[j] => reqs[f[i]].player # reqs[f[j]].player
    BY <1>1, <1>5 DEF OneEach
  <2> QED BY <1>5, <1>6, <2>1
<1>10. ASSUME NEW x \in DOMAIN reqs \ S, NEW y \in S
       PROVE  ~Outranks(k, reqs[x], reqs[y])
  <2>1. ~FirstGoesFirst(k, reqs) /\ y \in DOMAIN reqs /\ 1 \in DOMAIN reqs
    BY <1>1, <1>10 DEF Found, S
  <2>2. ~Outranks(k, reqs[1], reqs[y]) /\ (x = 1 \/ Outranks(k, reqs[1], reqs[x]))
    BY <1>10, <2>1 DEF Found, S
  <2>3. reqs[1] \in Request /\ reqs[x] \in Request /\ reqs[y] \in Request
    BY <1>3, <2>1
  <2> QED BY <2>2, <2>3, OutranksOrder
<1>11. \A i \in DOMAIN s : \E x \in S : s[i] = reqs[x]
  BY <1>5
<1>12. \A x \in S : \E i \in DOMAIN s : s[i] = reqs[x]
  BY <1>5, <1>8
<1> QED BY <1>9, <1>10, <1>11, <1>12 DEF S

LEMMA OpenAuctionRanked ==
    ASSUME TypeOK, Bids, NEW k \in Kinds, Supplied(k), OpenAuction(k)
    PROVE  Ranked(k)'
<1> DEFINE reqs == requests'[k]
<1>1. reqs \in Seq(Request) /\ OneEach(reqs) /\ bids' \in Sorted(k, reqs)
      /\ Bidders(reqs) = Bidders(requests[k]) \cup Present
  BY Opened
<1>2. reqs # <<>>
  <2>1. requests[k] # <<>> /\ requests[k] \in Seq(Request)
    BY AskedFacts DEF OpenAuction
  <2>2. 1 \in DOMAIN requests[k]
    BY <2>1
  <2>3. requests[k][1].player \in Bidders(requests[k])
    BY <2>2 DEF Bidders
  <2>4. DOMAIN reqs # {}
    BY <1>1, <2>3 DEF Bidders
  <2> QED BY <2>4
<1>3. /\ \A i \in DOMAIN bids' : \E x \in Found(k, reqs) : bids'[i] = reqs[x]
      /\ \A x \in Found(k, reqs) : \E i \in DOMAIN bids' : bids'[i] = reqs[x]
      /\ \A i, j \in DOMAIN bids' : i < j =>
             bids'[i].player # bids'[j].player /\ ~Outranks(k, bids'[j], bids'[i])
      /\ \A x \in DOMAIN reqs \ Found(k, reqs) : \A y \in Found(k, reqs) :
             ~Outranks(k, reqs[x], reqs[y])
  BY <1>1, <1>2, SortedList
<1>4. Found(k, reqs) \subseteq DOMAIN reqs
  BY DEF Found
<1>5. \A a \in Asked(k)' : granted'[k][a.player] = 0
  <2>1. \A a \in Asked(k)' : a.player \in Players
    <3>1. \A i \in DOMAIN reqs : reqs[i] \in Request
      BY <1>1
    <3> QED BY <3>1 DEF Asked, Request
  <2> QED BY <2>1, OpenAuctionSupplied DEF NothingGranted
<1>6. Pending' \subseteq Asked(k)'
  BY <1>3, <1>4 DEF Pending, Asked
<1>7. InOrder(k)'
  BY <1>3, <1>5, <1>6 DEF InOrder
<1>8. ASSUME NEW a \in Asked(k)', a \notin Pending', NEW b \in Pending'
      PROVE  ~Outranks(k, a, b)
  <2>1. PICK x \in DOMAIN reqs : a = reqs[x]
    BY DEF Asked
  <2>2. x \notin Found(k, reqs)
    BY <1>3, <1>8, <2>1 DEF Pending
  <2>3. PICK y \in Found(k, reqs) : b = reqs[y]
    BY <1>3, <1>8 DEF Pending
  <2> QED BY <1>3, <2>1, <2>2, <2>3
<1>9. Accounted(k)'
  <2>1. \A b \in Asked(k)' : ~(granted'[k][b.player] > 0)
    BY <1>5
  <2> QED BY <1>8, <2>1 DEF Accounted
<1>10. Priority(k)'
  BY <1>5 DEF Priority
<1>11. phase' = GrantPhase(k)
  BY DEF OpenAuction
<1> QED BY <1>7, <1>9, <1>10 DEF Ranked

-----------------------------------------------------------------------------
(* A bid is passed over.                                                   *)

LEMMA PassOverSupplied ==
    ASSUME TypeOK, NEW k \in Kinds, Supplied(k), PassOver(k)
    PROVE  Supplied(k)'
<1>1. phase' = GrantPhase(k) /\ phase = GrantPhase(k) /\ UNCHANGED <<granted, offered, market>>
  BY DEF PassOver, NextBid, session
<1>2. Units(granted[k])' = Units(granted[k]) /\ Supply(k)' = Supply(k)
  BY <1>1 DEF Units, Supply
<1>3. ~(phase' \in Ahead(k)) /\ ~AuctionDone(k)'
  BY <1>1 DEF GrantPhase, Ahead, AuctionDone, Kinds
<1> QED BY <1>1, <1>2, <1>3 DEF Supplied

\* The bids that are left are in order as before.
LEMMA RestInOrder ==
    ASSUME TypeOK, NEW k \in Kinds, bids # <<>>, InOrder(k), bids' = Tail(bids)
    PROVE  /\ Pending' \subseteq Pending
           /\ \A c \in Pending : c = Head(bids) \/ c \in Pending'
           /\ \A c \in Pending' :
                  c.player # Head(bids).player /\ ~Outranks(k, c, Head(bids))
           /\ \A i, j \in DOMAIN bids' : i < j =>
                  /\ bids'[i].player # bids'[j].player
                  /\ ~Outranks(k, bids'[j], bids'[i])
<1> DEFINE n == Len(bids)
<1>1. /\ n \in Nat \ {0} /\ DOMAIN bids = 1..n /\ Head(bids) = bids[1]
      /\ DOMAIN bids' = 1..(n - 1)
      /\ \A i \in 1..(n - 1) : bids'[i] = bids[i + 1] /\ i + 1 \in DOMAIN bids
      /\ \A c \in Pending : c = Head(bids) \/ \E i \in 1..(n - 1) : c = bids'[i]
  BY FirstBid
<1> HIDE DEF n
<1>2. \A i, j \in DOMAIN bids : i < j =>
          bids[i].player # bids[j].player /\ ~Outranks(k, bids[j], bids[i])
  BY DEF InOrder
<1>3. Pending' \subseteq Pending
  BY <1>1 DEF Pending
<1>4. \A c \in Pending : c = Head(bids) \/ c \in Pending'
  BY <1>1 DEF Pending
<1>5. ASSUME NEW c \in Pending'
      PROVE  c.player # Head(bids).player /\ ~Outranks(k, c, Head(bids))
  <2>1. PICK i \in 1..(n - 1) : c = bids[i + 1]
    BY <1>1, <1>5 DEF Pending
  <2>2. 1 \in DOMAIN bids /\ i + 1 \in DOMAIN bids /\ 1 < i + 1
    BY <1>1
  <2>3. bids[1].player # bids[i + 1].player /\ ~Outranks(k, bids[i + 1], bids[1])
    BY <1>2, <2>2
  <2> QED BY <1>1, <2>1, <2>3
<1>6. ASSUME NEW i \in DOMAIN bids', NEW j \in DOMAIN bids', i < j
      PROVE  bids'[i].player # bids'[j].player /\ ~Outranks(k, bids'[j], bids'[i])
  <2>1. /\ i + 1 \in DOMAIN bids /\ j + 1 \in DOMAIN bids /\ i + 1 < j + 1
        /\ bids'[i] = bids[i + 1] /\ bids'[j] = bids[j + 1]
    BY <1>1, <1>6
  <2> QED BY <1>2, <2>1
<1> QED BY <1>3, <1>4, <1>5, <1>6

LEMMA PassOverRanked ==
    ASSUME TypeOK, NEW k \in Kinds, Ranked(k), PassOver(k)
    PROVE  Ranked(k)'
<1> DEFINE h == Head(bids)
<1>1. /\ phase' = GrantPhase(k) /\ phase = GrantPhase(k) /\ bids # <<>> /\ bids' = Tail(bids)
      /\ UNCHANGED <<granted, offered, requests>> /\ 0 = Grant(h)
  BY DEF PassOver, NextBid
<1>2. InOrder(k) /\ Accounted(k) /\ Priority(k)
  BY <1>1 DEF Ranked
<1>3. /\ Pending' \subseteq Pending
      /\ \A c \in Pending : c = h \/ c \in Pending'
      /\ \A i, j \in DOMAIN bids' : i < j =>
             bids'[i].player # bids'[j].player /\ ~Outranks(k, bids'[j], bids'[i])
  BY <1>1, <1>2, RestInOrder
<1>4. Asked(k)' = Asked(k)
  BY <1>1 DEF Asked
<1>5. InOrder(k)'
  BY <1>1, <1>2, <1>3, <1>4 DEF InOrder
<1>6. h.price > 0 => granted[k][h.player] = h.amount \/ offered = 0
  <2>1. h \in Pending /\ h.price \in Nat /\ h.amount \in Nat /\ offered \in Nat
    BY <1>1, FirstBid, HeadRequest DEF TypeOK, TradeType
  <2>2. granted[k][h.player] = 0
    BY <1>2, <2>1 DEF InOrder
  <2>3. h.price > 0 => h.amount = 0 \/ offered = 0
    BY <1>1, <2>1 DEF Grant
  <2> QED BY <2>2, <2>3
<1>7. Accounted(k)'
  <2> SUFFICES ASSUME NEW a \in Asked(k), a.price > 0
               PROVE  \/ a \in Pending' \/ granted[k][a.player] = a.amount \/ offered = 0
                      \/ \A b \in Asked(k) :
                             b \in Pending' \/ granted[k][b.player] > 0 => ~Outranks(k, a, b)
    BY <1>1, <1>4 DEF Accounted
  <2>1. CASE a \in Pending
    BY <1>3, <1>6, <2>1
  <2>2. CASE a \notin Pending
    BY <1>2, <1>3, <2>2 DEF Accounted
  <2> QED BY <2>1, <2>2
<1>8. Priority(k)'
  BY <1>1, <1>2, <1>4 DEF Priority
<1> QED BY <1>1, <1>5, <1>7, <1>8 DEF Ranked

-----------------------------------------------------------------------------
(* A bid is granted what there is for it.                                  *)

\* What a grant changes.
LEMMA TradeFacts ==
    ASSUME TypeOK, Bids, NEW k \in Kinds, InOrder(k), Trade(k), NEW h, h = Head(bids)
    PROVE  /\ phase = GrantPhase(k) /\ phase' = GrantPhase(k) /\ bids # <<>>
           /\ bids' = Tail(bids) /\ requests' = requests /\ market' = market
           /\ h \in Pending /\ h \in Asked(k)
           /\ Grant(h) \in Nat /\ Grant(h) > 0 /\ offered > 0
           /\ offered' = offered - Grant(h) /\ (Grant(h) = h.amount \/ offered' = 0)
           /\ granted'[k] = [granted[k] EXCEPT ![h.player] = @ + Grant(h)]
           /\ granted'[k][h.player] = Grant(h)
<1>1. /\ phase = GrantPhase(k) /\ phase' = GrantPhase(k) /\ bids # <<>>
      /\ bids' = Tail(bids) /\ requests' = requests /\ market' = market
      /\ Grant(h) > 0 /\ offered' = offered - Grant(h)
      /\ granted' = [granted EXCEPT ![k][h.player] = @ + Grant(h)]
  BY DEF Trade, NextBid, session
<1>2. h \in Pending /\ h \in Request /\ h.player \in Players
      /\ h.price \in Nat /\ h.amount \in Nat /\ offered \in Nat
  BY <1>1, FirstBid, HeadRequest DEF TypeOK, TradeType
<1>3. Grant(h) \in Nat /\ offered > 0 /\ (Grant(h) = h.amount \/ offered' = 0)
  BY <1>1, <1>2 DEF Grant
<1>4. h \in Asked(k) /\ granted[k][h.player] = 0
  BY <1>2 DEF InOrder
<1>5. granted'[k] = [granted[k] EXCEPT ![h.player] = @ + Grant(h)]
  BY <1>1, <1>2 DEF TypeOK, TradeType
<1>6. /\ granted'[k][h.player] = granted[k][h.player] + Grant(h)
      /\ \A p \in Players : p # h.player => granted'[k][p] = granted[k][p]
  BY <1>2, <1>5, AskedFacts
<1>7. granted'[k][h.player] = Grant(h)
  BY <1>3, <1>4, <1>6
<1> QED BY <1>1, <1>2, <1>3, <1>4, <1>5, <1>7

\* ... and what it does not.
LEMMA TradeOthers ==
    ASSUME TypeOK, Bids, NEW k \in Kinds, InOrder(k), Trade(k),
           NEW a \in Asked(k), a # Head(bids)
    PROVE  a.player # Head(bids).player /\ granted'[k][a.player] = granted[k][a.player]
<1> DEFINE h == Head(bids)
<1>1. h \in Asked(k) /\ granted'[k] = [granted[k] EXCEPT ![h.player] = @ + Grant(h)]
  BY TradeFacts
<1>2. a.player # h.player /\ a.player \in Players
  BY <1>1, SameAsker, AskedFacts
<1> HIDE DEF h
<1>3. granted'[k][a.player] = granted[k][a.player]
  BY <1>1, <1>2, AskedFacts
<1> QED BY <1>2, <1>3 DEF h

LEMMA TradeSupplied ==
    ASSUME TypeOK, Bids, NEW k \in Kinds, AuctionInv(k), Trade(k)
    PROVE  Supplied(k)'
<1> DEFINE h == Head(bids)
<1>1. InOrder(k)
  BY DEF AuctionInv, Ranked, Trade, NextBid
<1>2. /\ phase = GrantPhase(k) /\ phase' = GrantPhase(k) /\ market' = market
      /\ bids # <<>> /\ Grant(h) \in Nat /\ offered' = offered - Grant(h)
      /\ granted'[k] = [granted[k] EXCEPT ![h.player] = @ + Grant(h)]
  BY <1>1, TradeFacts
<1>3. h.player \in Players /\ granted[k] \in [Players -> Nat] /\ offered \in Nat
  BY <1>2, HeadRequest, AskedFacts DEF TypeOK, TradeType
<1> HIDE DEF h
<1>4. Cardinality(Units([granted[k] EXCEPT ![h.player] = @ + Grant(h)]))
          = Cardinality(Units(granted[k])) + Grant(h)
  BY <1>2, <1>3, UnitsGrow
<1>5. Cardinality(Units(granted[k])) + offered = Supply(k)
      /\ Cardinality(Units(granted[k])) \in Nat
  BY <1>2, <1>3, UnitsFinite DEF AuctionInv, Supplied
<1>6. Cardinality(Units(granted[k]))' = Cardinality(Units(granted[k])) + Grant(h)
  <2>1. Units(granted[k])' = Units([granted[k] EXCEPT ![h.player] = @ + Grant(h)])
    BY <1>2 DEF Units
  <2> QED BY <1>4, <2>1
<1>7. Supply(k)' = Supply(k)
  BY <1>2 DEF Supply
<1>8. Cardinality(Units(granted[k]))' + offered' = Supply(k)'
  BY <1>2, <1>3, <1>5, <1>6, <1>7
<1>9. ~(phase' \in Ahead(k)) /\ ~AuctionDone(k)'
  BY <1>2 DEF GrantPhase, Ahead, AuctionDone, Kinds
<1> QED BY <1>8, <1>9 DEF Supplied

LEMMA TradeRanked ==
    ASSUME TypeOK, Bids, NEW k \in Kinds, AuctionInv(k), Trade(k)
    PROVE  Ranked(k)'
<1> SUFFICES ASSUME NEW h, h = Head(bids) PROVE Ranked(k)'
  OBVIOUS
<1>1. InOrder(k) /\ Accounted(k) /\ Priority(k)
  BY DEF AuctionInv, Ranked, Trade, NextBid
<1>2. /\ phase' = GrantPhase(k) /\ bids # <<>> /\ bids' = Tail(bids) /\ requests' = requests
      /\ h \in Pending /\ h \in Asked(k) /\ offered > 0
      /\ (Grant(h) = h.amount \/ offered' = 0)
      /\ granted'[k][h.player] = Grant(h)
      /\ \A a \in Asked(k) : a # h =>
             a.player # h.player /\ granted'[k][a.player] = granted[k][a.player]
  <2>1. /\ phase' = GrantPhase(k) /\ bids # <<>> /\ bids' = Tail(bids) /\ requests' = requests
        /\ h \in Pending /\ h \in Asked(k) /\ offered > 0
        /\ (Grant(h) = h.amount \/ offered' = 0)
    BY <1>1, TradeFacts
  <2>2. granted'[k][h.player] = Grant(h)
    BY <1>1, TradeFacts
  <2>3. ASSUME NEW a \in Asked(k), a # h
        PROVE  a.player # h.player /\ granted'[k][a.player] = granted[k][a.player]
    BY <1>1, <2>3, TradeOthers
  <2> QED BY <2>1, <2>2, <2>3
<1>3. /\ Pending' \subseteq Pending
      /\ \A c \in Pending : c = h \/ c \in Pending'
      /\ \A c \in Pending' : c.player # h.player /\ ~Outranks(k, c, h)
      /\ \A i, j \in DOMAIN bids' : i < j =>
             bids'[i].player # bids'[j].player /\ ~Outranks(k, bids'[j], bids'[i])
  BY <1>1, <1>2, RestInOrder
<1>4. Asked(k)' = Asked(k) /\ Pending \subseteq Asked(k)
  BY <1>1, <1>2 DEF Asked, InOrder
<1>5. ~Outranks(k, h, h)
  <2>1. h \in Request
    BY <1>2, AskedFacts
  <2> QED BY <2>1, OutranksOrder
<1>6. \A c \in Pending : granted[k][c.player] = 0 /\ ~Outranks(k, c, h)
  BY <1>1, <1>3, <1>5 DEF InOrder
<1>7. InOrder(k)'
  <2>1. \A c \in Pending' : c # h /\ c \in Asked(k)
    BY <1>3, <1>4
  <2>2. \A c \in Pending' : granted'[k][c.player] = 0
    BY <1>2, <1>3, <1>6, <2>1
  <2>3. \A b \in Asked(k) : granted'[k][b.player] > 0 =>
            \A c \in Pending' : ~Outranks(k, c, b)
    <3> SUFFICES ASSUME NEW b \in Asked(k), granted'[k][b.player] > 0, NEW c \in Pending'
                 PROVE  ~Outranks(k, c, b)
      OBVIOUS
    <3>1. CASE b = h
      BY <1>3, <3>1
    <3>2. CASE b # h
      BY <1>1, <1>2, <1>3, <3>2 DEF InOrder
    <3> QED BY <3>1, <3>2
  <2> QED BY <1>3, <1>4, <2>1, <2>2, <2>3 DEF InOrder
<1>8. Accounted(k)'
  <2> SUFFICES ASSUME NEW a \in Asked(k), a.price > 0
               PROVE  \/ a \in Pending' \/ granted'[k][a.player] = a.amount \/ offered' = 0
                      \/ \A b \in Asked(k) :
                             b \in Pending' \/ granted'[k][b.player] > 0 => ~Outranks(k, a, b)
    BY <1>4 DEF Accounted
  <2>1. CASE a = h
    BY <1>2, <2>1
  <2>2. CASE a \in Pending /\ a # h
    BY <1>3, <2>2
  <2>3. CASE a \notin Pending
    <3>1. a # h
      BY <1>2, <2>3
    <3>2. \/ granted[k][a.player] = a.amount
          \/ \A b \in Asked(k) :
                 b \in Pending \/ granted[k][b.player] > 0 => ~Outranks(k, a, b)
      BY <1>1, <1>2, <2>3 DEF Accounted
    <3>3. \A b \in Asked(k) : b \in Pending' \/ granted'[k][b.player] > 0
                                  => b \in Pending \/ granted[k][b.player] > 0
      BY <1>2, <1>3
    <3> QED BY <1>2, <3>1, <3>2, <3>3
  <2> QED BY <2>1, <2>2, <2>3
<1>9. Priority(k)'
  <2> SUFFICES ASSUME NEW a \in Asked(k), NEW b \in Asked(k), granted'[k][b.player] > 0,
                      a.price > 0, Outranks(k, a, b)
               PROVE  granted'[k][a.player] = a.amount
    BY <1>4 DEF Priority
  <2>1. CASE b = h
    <3>1. a \notin Pending /\ a # h
      BY <1>5, <1>6, <2>1
    <3>2. \/ granted[k][a.player] = a.amount
          \/ \A d \in Asked(k) :
                 d \in Pending \/ granted[k][d.player] > 0 => ~Outranks(k, a, d)
      BY <1>1, <1>2, <3>1 DEF Accounted
    <3>3. granted[k][a.player] = a.amount
      BY <1>2, <2>1, <3>2
    <3> QED BY <1>2, <3>1, <3>3
  <2>2. CASE b # h
    <3>1. granted[k][b.player] > 0
      BY <1>2, <2>2
    <3>2. a # h
      BY <1>1, <1>2, <3>1 DEF InOrder
    <3>3. granted[k][a.player] = a.amount
      BY <1>1, <3>1 DEF Priority
    <3> QED BY <1>2, <3>2, <3>3
  <2> QED BY <2>1, <2>2
<1> QED BY <1>2, <1>7, <1>8, <1>9 DEF Ranked

-----------------------------------------------------------------------------
(* The invariant of the auctions.                                          *)

\* An auction's grants are not seen by the other auction.
LEMMA OtherAuction ==
    ASSUME TypeOK, Bids, NEW k \in Kinds, NEW m \in Kinds \ {k}, AuctionInv(m), Auction(k)
    PROVE  AuctionInv(m)'
<1>1. CASE SortOverrun(k) \/ MissingBidder(k)
  BY <1>1, NoAuction DEF SortOverrun, MissingBidder
<1>2. CASE SkipAuction(k) \/ OpenAuction(k) \/ PassOver(k) \/ Trade(k) \/ CloseAuction(k)
  <2>1. market' = market
    BY <1>2 DEF SkipAuction, OpenAuction, PassOver, Trade, NextBid, CloseAuction, session
  <2>2. requests'[m] = requests[m]
    BY <1>2, Opened DEF SkipAuction, PassOver, Trade, NextBid, CloseAuction, trade
  <2>3. granted'[m] = granted[m]
    <3>1. CASE Trade(k)
      BY <3>1 DEF Trade, TypeOK, TradeType
    <3>2. CASE ~Trade(k)
      BY <1>2, <3>2 DEF SkipAuction, OpenAuction, PassOver, CloseAuction, trade
    <3> QED BY <3>1, <3>2
  <2>4. phase \in {OpenPhase(k), GrantPhase(k)} /\ phase' \in {GrantPhase(k), AfterAuction(k)}
    BY <1>2 DEF SkipAuction, OpenAuction, PassOver, Trade, NextBid, CloseAuction
  <2>5. /\ phase' \in Ahead(m) => phase \in Ahead(m)
        /\ phase' # GrantPhase(m)
        /\ AuctionDone(m)' => AuctionDone(m)
    BY <2>4 DEF OpenPhase, GrantPhase, AfterAuction, Ahead, AuctionDone, Kinds
  <2> QED BY <2>1, <2>2, <2>3, <2>5, AuctionFrame
<1> QED BY <1>1, <1>2 DEF Auction

LEMMA AuctionStep ==
    ASSUME TypeOK, Bids, NEW k \in Kinds, AuctionInv(k), [Next]_vars
    PROVE  AuctionInv(k)'
<1>1. CASE UNCHANGED vars
  BY <1>1, AuctionFrame DEF vars, trade, session, AuctionDone
<1>2. ASSUME NEW p \in Players, Command(p) \/ Disconnect(p)
      PROVE  AuctionInv(k)'
  <2>1. phase' \in {"play", "stopped"}
    BY <1>2 DEF Command, Disconnect, Prod, Build, BuildOverflow, Buy, Sell, SendRequest, Turn,
                MayCommand
  <2> QED BY <2>1, NoAuction
<1>3. CASE NextPass \/ ConnectionError \/ Oversold \/ PrepareNewTurn
  <2>1. phase' \in {"play", "stopped"}
    BY <1>3 DEF NextPass, ConnectionError, Oversold, PrepareNewTurn
  <2> QED BY <2>1, NoAuction
<1>4. CASE CloseMonth
  BY <1>4, CloseMonthAuction
<1>5. ASSUME NEW m \in Kinds, Auction(m)
      PROVE  AuctionInv(k)'
  <2>1. CASE m # k
    BY <1>5, <2>1, OtherAuction
  <2>2. CASE m = k
    <3>1. CASE SkipAuction(k)
      BY <3>1, SkipAuctionDone
    <3>2. CASE OpenAuction(k)
      BY <3>2, OpenAuctionSupplied, OpenAuctionRanked DEF AuctionInv
    <3>3. CASE PassOver(k)
      BY <3>3, PassOverSupplied, PassOverRanked DEF AuctionInv
    <3>4. CASE Trade(k)
      BY <3>4, TradeSupplied, TradeRanked DEF AuctionInv
    <3>5. CASE CloseAuction(k)
      BY <3>5, CloseAuctionDone
    <3>6. CASE SortOverrun(k) \/ MissingBidder(k)
      BY <3>6, NoAuction DEF SortOverrun, MissingBidder
    <3> QED BY <1>5, <2>2, <3>1, <3>2, <3>3, <3>4, <3>5, <3>6 DEF Auction
  <2> QED BY <2>1, <2>2
<1>6. CASE CheckBuilds \/ PayCharges \/ QuitBankrots
  <2>1. UNCHANGED <<requests, granted, bids, offered, market>>
    BY <1>6 DEF CheckBuilds, Age, PaySecondHalf, CannotPayHalf, Complete, LeavePlayer, EndWalk,
                PayCharges, QuitBankrots, trade, session
  <2>2. /\ phase \in {"builds", "charges", "bankrots"}
        /\ phase' \in {"builds", "charges", "bankrots", "newTurn"}
    BY <1>6 DEF CheckBuilds, Age, PaySecondHalf, CannotPayHalf, Complete, LeavePlayer, EndWalk,
                Walking, PayCharges, QuitBankrots
  <2>3. /\ ~(phase' \in Ahead(k)) /\ phase' # GrantPhase(k)
        /\ AuctionDone(k)' => AuctionDone(k)
    BY <2>2 DEF Ahead, GrantPhase, AuctionDone, Kinds
  <2> QED BY <2>1, <2>3, AuctionFrame
<1> QED BY <1>1, <1>2, <1>3, <1>4, <1>5, <1>6 DEF Next, MonthEnd

LEMMA AuctionsInit == ASSUME Init PROVE AInv
<1>1. Bids
  BY DEF Init, Bids, OneRequestEach, OneEach, BidsInAuctions
<1>2. \A k \in Kinds : Supplied(k) /\ Ranked(k)
  BY DEF Init, Supplied, Ranked, Ahead, GrantPhase, AuctionDone, Kinds
<1> QED BY <1>1, <1>2 DEF AInv

LEMMA AuctionsStep == AInv /\ IInv /\ [Next]_vars => AInv'
<1> SUFFICES ASSUME AInv, IInv, [Next]_vars PROVE AInv'
  OBVIOUS
<1>1. TypeOK /\ Bids /\ \A k \in Kinds : AuctionInv(k)
  BY DEF AInv, IInv, AuctionInv
<1>2. \A k \in Kinds : AuctionInv(k)'
  BY <1>1, AuctionStep
<1> QED BY <1>1, <1>2, BidsStep DEF AInv, AuctionInv

\* The two auctions of every month grant what the bank announced, in the order of
\* the prices, to who is in the list once.
THEOREM AuctionsInvariance == Spec => []AInv
BY AuctionsInit, AuctionsStep, Invariance, PTL DEF Spec

\* However many players bid for whatever amounts, and however few units there are,
\* what the loop of StartAuction grants is never more than the bank announced.
THEOREM SupplyKept == Spec => []SupplyRespected
<1>1. IInv /\ AInv => SupplyRespected
  <2> SUFFICES ASSUME IInv, AInv, phase \notin {"play", "stopped", "undefined"}, NEW k \in Kinds
               PROVE  Cardinality(Units(granted[k])) <= Supply(k)
    BY DEF SupplyRespected
  <2>1. /\ TypeOK /\ Supplied(k) /\ Cardinality(Units(granted[k])) \in Nat
        /\ offered \in Nat /\ Supply(k) \in Nat
    BY AskedFacts, UnitsFinite DEF IInv, AInv, TypeOK, TradeType, SessionType, Supply
  <2>2. CASE phase \in Ahead(k)
    <3>1. Cardinality(Units(granted[k])) = 0
      BY <2>1, <2>2, AskedFacts, NoUnits DEF Supplied, NothingGranted
    <3> QED BY <2>1, <3>1
  <2>3. CASE phase = GrantPhase(k) \/ AuctionDone(k)
    BY <2>1, <2>3 DEF Supplied
  <2>4. phase \in Ahead(k) \/ phase = GrantPhase(k) \/ AuctionDone(k)
    BY <2>1 DEF TypeOK, LoopType, Phases, Ahead, GrantPhase, AuctionDone, Kinds
  <2> QED BY <2>2, <2>3, <2>4
<1> QED BY <1>1, AuctionsInvariance, Invariance, PTL

\* With any number of players, any prices and amounts, equal prices, requests lost in
\* the sorting and a supply that runs out: nobody is served before who offered a
\* better price.
THEOREM PriceGoesFirst == Spec => []PricePriority
<1>1. AInv => PricePriority
  BY DEF AInv, Ranked, Priority, Asked, PricePriority
<1> QED BY <1>1, AuctionsInvariance, PTL

-----------------------------------------------------------------------------
(* Nobody who was granted something is gone.                               *)

Exact == alive = Cardinality(Present)

LEMMA ExactInit ==
    ASSUME LostInLobby \subseteq {0}, Init
    PROVE  Exact
<1>1. PICK lobby \in MinPlayers..MaxPlayers : \E joined \in SUBSET (1..lobby) :
         /\ lobby - Cardinality(joined) \in LostInLobby
         /\ alive = lobby /\ free = [p \in Players |-> p \notin joined]
  BY DEF Init
<1>2. PICK joined \in SUBSET (1..lobby) :
         /\ lobby - Cardinality(joined) = 0
         /\ alive = lobby /\ free = [p \in Players |-> p \notin joined]
  BY <1>1
<1>3. lobby \in Nat /\ lobby <= MaxPlayers
  BY SettingsAssumption
<1>4. joined \in SUBSET Players
  BY <1>3, SettingsAssumption DEF Players
<1>5. Present = joined
  BY <1>2, <1>4 DEF Present
<1>6. Cardinality(joined) \in Nat
  BY <1>4, PlayersFinite
<1> QED BY <1>2, <1>3, <1>5, <1>6 DEF Exact

LEMMA ExactStep ==
    ASSUME IInv, Exact, [Next]_vars
    PROVE  Exact'
<1>1. alive \in Int /\ Cardinality(Present) \in Int
  BY Sizes DEF IInv, TypeOK, SessionType
<1>2. Drift = 0
  BY <1>1 DEF Exact, Drift
<1>3. Drift' = 0
  BY <1>2, DriftStep
<1>4. alive' \in Int
  BY TypeStep DEF IInv, TypeOK, SessionType
<1>5. Cardinality(Present)' \in Int
  <2>1. Present' \in SUBSET Players
    BY DEF Present, Players
  <2> QED BY <2>1, PlayersFinite
<1> QED BY <1>3, <1>4, <1>5 DEF Exact, Drift

\* The sort is defined for as many requests as there are ready players: with every
\* bidder once in the list, and everybody present among them, that is nobody else.
LEMMA OpenedForPresent ==
    ASSUME RInv, Bids, Exact, NEW k \in Kinds, OpenAuction(k)
    PROVE  Bidders(requests'[k]) = Present
<1> DEFINE reqs == requests'[k]
           B == Bidders(reqs)
<1>1. TypeOK /\ ready = alive
  BY DEF RInv, IInv, OpenAuction, OpenPhase, EqualWhileClosing, Closing, Auctioning
<1>2. /\ reqs \in Seq(Request) /\ OneEach(reqs) /\ Len(reqs) = ready
      /\ Present \in SUBSET B
  BY <1>1, Opened DEF SortDefined
<1>3. B \in SUBSET Players /\ Cardinality(B) = Len(reqs)
  BY <1>2, BiddersCounted
<1> HIDE DEF B, reqs
<1>4. Cardinality(B \ Present) = Cardinality(B) - Cardinality(Present)
  BY <1>2, <1>3, SubsetSize
<1>5. Cardinality(B \ Present) = 0 /\ B \ Present \in SUBSET Players
  BY <1>1, <1>2, <1>3, <1>4, Sizes DEF Exact
<1>6. B \ Present = {}
  BY <1>5, PlayersFinite, FS_EmptySet
<1>7. B = Present
  BY <1>2, <1>6
<1> QED BY <1>7 DEF B, reqs

LEMMA BiddersStep ==
    ASSUME RInv, Bids, Exact, BiddersArePresent, [Next]_vars
    PROVE  BiddersArePresent'
<1> USE DEF RInv, IInv
<1>1. ASSUME UNCHANGED <<bids, free>>
      PROVE  BiddersArePresent'
  BY <1>1 DEF BiddersArePresent, Present
<1>2. ASSUME bids' = <<>>
      PROVE  BiddersArePresent'
  BY <1>2 DEF BiddersArePresent
<1>3. CASE UNCHANGED vars
  BY <1>1, <1>3 DEF vars, people, trade
<1>4. ASSUME NEW p \in Players, Command(p) \/ Disconnect(p)
      PROVE  BiddersArePresent'
  <2>1. phase = "play" /\ bids' = bids
    BY <1>4 DEF Command, Disconnect, Prod, Build, BuildOverflow, Buy, Sell, SendRequest, Turn,
                MayCommand, trade
  <2> QED BY <1>2, <2>1 DEF Bids, BidsInAuctions
<1>5. CASE NextPass \/ ConnectionError \/ CloseMonth \/ Oversold \/ CheckBuilds \/ PayCharges
           \/ PrepareNewTurn
  BY <1>1, <1>5 DEF NextPass, ConnectionError, CloseMonth, Oversold, CheckBuilds, Age,
                    PaySecondHalf, CannotPayHalf, Complete, LeavePlayer, EndWalk, PayCharges,
                    PrepareNewTurn, trade, people
<1>6. CASE QuitBankrots
  BY <1>2, <1>6 DEF QuitBankrots, trade, Bids, BidsInAuctions
<1>7. ASSUME NEW k \in Kinds, Auction(k)
      PROVE  BiddersArePresent'
  <2>1. CASE SkipAuction(k) \/ SortOverrun(k) \/ MissingBidder(k) \/ CloseAuction(k)
    BY <1>1, <2>1 DEF SkipAuction, SortOverrun, MissingBidder, CloseAuction, people, trade
  <2>2. CASE PassOver(k) \/ Trade(k)
    <3>1. bids # <<>> /\ bids' = Tail(bids) /\ free' = free
      BY <2>2 DEF PassOver, Trade, NextBid, people
    <3>2. DOMAIN bids' = 1..(Len(bids) - 1)
          /\ \A i \in 1..(Len(bids) - 1) : bids'[i] = bids[i + 1] /\ i + 1 \in DOMAIN bids
      BY <3>1, FirstBid
    <3> QED BY <3>1, <3>2 DEF BiddersArePresent, Present
  <2>3. CASE OpenAuction(k)
    <3>1. /\ requests'[k] \in Seq(Request) /\ bids' \in Sorted(k, requests'[k])
          /\ Bidders(requests'[k]) = Present /\ Present' = Present
      BY <2>3, Opened, OpenedForPresent DEF OpenAuction, people, Present
    <3>2. \A i \in DOMAIN bids' : \E x \in DOMAIN requests'[k] : bids'[i] = requests'[k][x]
      <4>1. PICK f \in [1..Cardinality(Found(k, requests'[k])) -> Found(k, requests'[k])] :
               bids' = [i \in DOMAIN f |-> requests'[k][f[i]]]
        BY <3>1 DEF Sorted, Listings
      <4>2. Found(k, requests'[k]) \subseteq DOMAIN requests'[k]
        BY DEF Found
      <4> QED BY <4>1, <4>2
    <3> QED BY <3>1, <3>2 DEF BiddersArePresent, Bidders
  <2> QED BY <1>7, <2>1, <2>2, <2>3 DEF Auction
<1> QED BY <1>3, <1>4, <1>5, <1>6, <1>7 DEF Next, MonthEnd

\* When nobody left the lobby, the number that GetPlayerByUID is asked for is always
\* that of a player, however many play and leave: one request of somebody who has left
\* makes the list longer than the arrays of the sort, which goes wrong before it.
THEOREM BiddersStay ==
    ASSUME LostInLobby \subseteq {0}
    PROVE  Spec => []BiddersArePresent
<1> DEFINE Inv == Exact /\ BiddersArePresent
<1>1. Init => Inv
  BY ExactInit DEF Init, BiddersArePresent
<1>2. Inv /\ RInv /\ AInv /\ [Next]_vars => Inv'
  BY ExactStep, BiddersStep DEF RInv, AInv
<1> QED BY <1>1, <1>2, RInvariance, AuctionsInvariance, PTL DEF Spec


-----------------------------------------------------------------------------
(***************************************************************************)
(* The dispatch of commands.                                               *)
(***************************************************************************)
\* A player who has been heard in a pass is not heard again, whether the line was
\* refused or not: GameSession counts those only whose line was not.
ServedAreHandled == served \subseteq handled

-----------------------------------------------------------------------------
(* One line.                                                               *)

LEMMA QuestionsChangeNothing ==
    ASSUME NEW p, NEW questions, Refused(p, questions)
    PROVE  UNCHANGED vars
BY DEF Refused, AnswerOnly, game, vars

LEMMA QueriesChangeNothing ==
    ASSUME NEW p, NEW args,
           HelpCommand(p) \/ MarketCommand(p) \/ ListCommand(p) \/ QuitCommand(p)
           \/ PlayerCommand(p, args) \/ SitesAreEmpty(p, args)
    PROVE  UNCHANGED vars
BY DEF HelpCommand, MarketCommand, ListCommand, QuitCommand, PlayerCommand, AnswerAbout,
       SitesAreEmpty, AnswerOnly, game, vars

\* Who has sent the line is in the game, and the server is not at a month's end.
Heard(p) == phase = "play" /\ ~free[p] /\ p \notin served

LEMMA StopsAsAConnectionDoes ==
    ASSUME NEW p \in Players, Heard(p), Stops(p)
    PROVE  ConnectionError
BY DEF Heard, Stops, ConnectionError, Present

LEMMA ProdIsAllowed ==
    ASSUME NEW p \in Players, Heard(p), ProdCommand(p)
    PROVE  UNCHANGED vars \/ Command(p)
<1>1. CASE Granted(ProdQuestions(p)) /\ ProdCmdUpdateGameState(p)
  <2>1. /\ Ask(~turned[p], "WAIT_FOR_NEXT_TURN").holds
        /\ Ask(sources[p] >= 1, "PROD_COMMAND_NO_SOURCE").holds
        /\ Ask(money[p] >= ProductCost, "PROD_COMMAND_NO_MONEY").holds
        /\ Ask(wait[p] > 0, "PROD_COMMAND_NO_FACTORIES").holds
    BY <1>1 DEF Granted, ProdQuestions, NotTurned
  <2>2. ~turned[p] /\ sources[p] >= 1 /\ money[p] >= ProductCost /\ wait[p] > 0
    BY <2>1, Zenon DEF Ask
  <2>3. Prod(p)
    BY <1>1, <2>2 DEF Prod, MayCommand, Heard, ProdCmdUpdateGameState
  <2> QED BY <2>3 DEF Command
<1> QED BY <1>1, QuestionsChangeNothing DEF ProdCommand

LEMMA BuildIsAllowed ==
    ASSUME NEW p \in Players, NEW args, Heard(p), BuildCommand(p, args)
    PROVE  UNCHANGED vars \/ Command(p)
<1>1. CASE Granted(BuildQuestions(p, args)) /\ BuildCmdUpdateGameState(p)
  <2>1. /\ Ask(~turned[p], "WAIT_FOR_NEXT_TURN").holds
        /\ Ask(money[p] >= FactoryCost \div 2, "BUILD_COMMAND_NO_MONEY").holds
    BY <1>1 DEF Granted, BuildQuestions, NotTurned
  <2>2. ~turned[p] /\ money[p] >= FactoryCost \div 2
    BY <2>1, Zenon DEF Ask
  <2>3. Build(p)
    BY <1>1, <2>2 DEF Build, MayCommand, Heard, BuildCmdUpdateGameState, Half
  <2> QED BY <2>3 DEF Command
<1> QED BY <1>1, QuestionsChangeNothing, QueriesChangeNothing DEF BuildCommand

LEMMA TurnIsAllowed ==
    ASSUME NEW p \in Players, Heard(p), TurnCommand(p)
    PROVE  UNCHANGED vars \/ Command(p)
<1>1. CASE Granted(<<NotTurned(p)>>) /\ TurnCmdUpdateGameState(p)
  <2>1. Ask(~turned[p], "WAIT_FOR_NEXT_TURN").holds
    BY <1>1 DEF Granted, NotTurned
  <2>2. ~turned[p]
    BY <2>1, Zenon DEF Ask
  <2>3. Turn(p)
    BY <1>1, <2>2 DEF Turn, MayCommand, Heard, TurnCmdUpdateGameState
  <2> QED BY <2>3 DEF Command
<1> QED BY <1>1, QuestionsChangeNothing DEF TurnCommand

LEMMA BuyIsAllowed ==
    ASSUME NEW p \in Players, NEW args, Heard(p), BuyCommand(p, args),
           [amount |-> args[1], price |-> args[2]] \in BuyBids
    PROVE  UNCHANGED vars \/ Command(p)
<1> DEFINE bid == [amount |-> args[1], price |-> args[2]]
           asked == BuyQuestions(p, args[1], args[2])
<1>1. CASE Granted(asked) /\ RequestUpdate("source", p, args[1], args[2])
  <2>1. /\ Ask(~turned[p], "WAIT_FOR_NEXT_TURN").holds
        /\ Ask(~sent["source"][p], "BUY_COMMAND_ALREADY_SENT").holds
        /\ Ask(args[1] > 0 /\ args[1] <= market.sources,
               "BUY_COMMAND_INCORRECT_AMOUNT").holds
        /\ Ask(args[2] >= market.minPrice, "BUY_COMMAND_INCORRECT_PRICE").holds
        /\ Ask(~(money[p] < args[2] * args[1]), "BUY_COMMAND_NO_MONEY").holds
    BY <1>1 DEF Granted, BuyQuestions, NotTurned
  <2>2. /\ ~turned[p] /\ ~sent["source"][p]
        /\ args[1] > 0 /\ args[1] <= market.sources
        /\ args[2] >= market.minPrice
        /\ ~(money[p] < args[2] * args[1])
    BY <2>1, Zenon DEF Ask
  <2>3. SendRequest("source", p, bid)
    BY <1>1, <2>2 DEF SendRequest, RequestUpdate
  <2>4. Buy(p, bid)
    BY <2>2, <2>3 DEF Buy, MayCommand, Heard
  <2> QED BY <2>4 DEF Command
<1> QED BY <1>1, QuestionsChangeNothing DEF BuyCommand

LEMMA SellIsAllowed ==
    ASSUME NEW p \in Players, NEW args, Heard(p), SellCommand(p, args),
           [amount |-> args[1], price |-> args[2]] \in SellBids
    PROVE  UNCHANGED vars \/ Command(p)
<1> DEFINE bid == [amount |-> args[1], price |-> args[2]]
           asked == SellQuestions(p, args[1], args[2])
<1>1. CASE Granted(asked) /\ RequestUpdate("product", p, args[1], args[2])
  <2>1. /\ Ask(~turned[p], "WAIT_FOR_NEXT_TURN").holds
        /\ Ask(~sent["product"][p], "SELL_COMMAND_ALREADY_SENT").holds
        /\ Ask(args[1] > 0 /\ args[1] <= products[p],
               "SELL_COMMAND_INCORRECT_AMOUNT").holds
        /\ Ask(args[2] > 0 /\ args[2] <= market.maxPrice,
               "SELL_COMMAND_INCORRECT_PRICE").holds
    BY <1>1 DEF Granted, SellQuestions, NotTurned
  <2>2. /\ ~turned[p] /\ ~sent["product"][p]
        /\ args[1] > 0 /\ args[1] <= products[p]
        /\ args[2] > 0 /\ args[2] <= market.maxPrice
    BY <2>1, Zenon DEF Ask
  <2>3. SendRequest("product", p, bid)
    BY <1>1, <2>2 DEF SendRequest, RequestUpdate
  <2>4. Sell(p, bid)
    BY <2>2, <2>3 DEF Sell, MayCommand, Heard
  <2> QED BY <2>4 DEF Command
<1> QED BY <1>1, QuestionsChangeNothing DEF SellCommand

\* Whatever the words are, the line is one command of GameSession, a stop or nothing.
LEMMA ProcessedIsAllowed ==
    ASSUME NEW p \in Players, NEW line \in Lines[p], ServedAreHandled,
           ProcessCommand(p, line)
    PROVE  UNCHANGED vars \/ Command(p) \/ ConnectionError
<1> DEFINE args == line.args
           bid  == [amount |-> args[1], price |-> args[2]]
<1>1. Heard(p) /\ MakeCmdTokens(p, line) /\ Execute(p, args)
  BY DEF ProcessCommand, Heard, ServedAreHandled
<1>2. Line(line) /\ (line.word = "" => args = <<>>)
  BY LinesAssumption
<1>3. ASSUME Len(args) >= 2
      PROVE  line.word = word'
  <2>1. line.word # ""
    <3>1. Len(<<>>) = 0
      OBVIOUS
    <3>2. args # <<>>
      BY <1>3, <3>1
    <3> QED BY <1>2, <3>2
  <2> QED BY <1>1, <2>1 DEF MakeCmdTokens
<1>4. CASE word' = "buy" /\ BuyCommand(p, args)
  <2>1. Len(args) >= 2
    BY <1>4 DEF BuyCommand
  <2>2. bid \in BuyBids
    BY <1>3, <1>4, <2>1, RequestsAssumption
  <2> QED BY <1>1, <1>4, <2>2, BuyIsAllowed
<1>5. CASE word' = "sell" /\ SellCommand(p, args)
  <2>1. Len(args) >= 2
    BY <1>5 DEF SellCommand
  <2>2. bid \in SellBids
    BY <1>3, <1>5, <2>1, RequestsAssumption
  <2> QED BY <1>1, <1>5, <2>2, SellIsAllowed
<1>6. CASE HelpCommand(p) \/ MarketCommand(p) \/ ListCommand(p) \/ QuitCommand(p)
           \/ PlayerCommand(p, args)
  BY <1>6, QueriesChangeNothing
<1>7. CASE ProdCommand(p) \/ BuildCommand(p, args) \/ TurnCommand(p)
  BY <1>1, <1>7, ProdIsAllowed, BuildIsAllowed, TurnIsAllowed
<1>8. CASE Unknown(p) \/ TooFewArguments(p, args) \/ NoTarget(p, args)
           \/ SitesAreListed(p, args) \/ TooManySites(p, args)
  <2>1. Stops(p)
    BY <1>8 DEF Unknown, TooFewArguments, NoTarget, SitesAreListed, TooManySites
  <2> QED BY <1>1, <2>1, StopsAsAConnectionDoes
<1> QED BY <1>1, <1>4, <1>5, <1>6, <1>7, <1>8 DEF Execute

-----------------------------------------------------------------------------
(* The other steps, and who has been heard.                                *)

LEMMA LossIsAllowed ==
    ASSUME NEW p \in Players, ServedAreHandled, LosePlayer(p)
    PROVE  Disconnect(p)
BY DEF LosePlayer, ServedAreHandled

LEMMA PassIsAllowed ==
    ASSUME EndPass
    PROVE  UNCHANGED vars \/ NextPass
<1>1. CASE served = {}
  BY <1>1 DEF EndPass, vars
<1>2. CASE served # {}
  BY <1>2 DEF EndPass, NextPass
<1> QED BY <1>1, <1>2

\* A command counts its player at most.
LEMMA CommandServes ==
    ASSUME NEW p \in Players, Command(p)
    PROVE  served' \subseteq served \cup {p}
<1>1. CASE Prod(p)
  BY <1>1 DEF Prod, Handled
<1>2. CASE Build(p)
  BY <1>2 DEF Build, Handled
<1>3. CASE BuildOverflow(p)
  BY <1>3 DEF BuildOverflow
<1>4. CASE \E b \in BuyBids : Buy(p, b)
  BY <1>4 DEF Buy, SendRequest, Handled
<1>5. CASE \E b \in SellBids : Sell(p, b)
  BY <1>5 DEF Sell, SendRequest, Handled
<1>6. CASE Turn(p)
  BY <1>6 DEF Turn, Handled
<1> QED BY <1>1, <1>2, <1>3, <1>4, <1>5, <1>6 DEF Command

\* The month's end hears nobody, and begins the new month with nobody heard.
LEMMA MonthEndServes ==
    ASSUME MonthEnd
    PROVE  served' = {} \/ (served' = served /\ ~(phase = "newTurn" /\ phase' = "play"))
<1>1. CASE \E k \in Kinds : Auction(k)
  <2> SUFFICES ASSUME NEW k \in Kinds, Auction(k)
               PROVE  served' = served /\ phase # "newTurn"
    BY <1>1
  <2>1. OpenPhase(k) # "newTurn" /\ GrantPhase(k) # "newTurn"
    BY DEF OpenPhase, GrantPhase
  <2>2. CASE SkipAuction(k)
    BY <2>1, <2>2 DEF SkipAuction
  <2>3. CASE OpenAuction(k)
    BY <2>1, <2>3 DEF OpenAuction
  <2>4. CASE SortOverrun(k)
    BY <2>1, <2>4 DEF SortOverrun
  <2>5. CASE PassOver(k)
    BY <2>1, <2>5 DEF PassOver, NextBid
  <2>6. CASE Trade(k)
    BY <2>1, <2>6 DEF Trade, NextBid
  <2>7. CASE MissingBidder(k)
    BY <2>1, <2>7 DEF MissingBidder
  <2>8. CASE CloseAuction(k)
    BY <2>1, <2>8 DEF CloseAuction
  <2> QED BY <2>2, <2>3, <2>4, <2>5, <2>6, <2>7, <2>8 DEF Auction
<1>2. CASE Oversold
  BY <1>2 DEF Oversold
<1>3. CASE CheckBuilds
  BY <1>3 DEF CheckBuilds, Age, PaySecondHalf, CannotPayHalf, Complete, LeavePlayer,
              EndWalk, Walking
<1>4. CASE PayCharges
  BY <1>4 DEF PayCharges
<1>5. CASE QuitBankrots
  BY <1>5 DEF QuitBankrots
<1>6. CASE PrepareNewTurn
  BY <1>6 DEF PrepareNewTurn
<1> QED BY <1>1, <1>2, <1>3, <1>4, <1>5, <1>6 DEF MonthEnd

-----------------------------------------------------------------------------
(* The theorems.                                                           *)

LEMMA StepIsAllowed ==
    ASSUME ServedAreHandled, [NextCommands]_<<vars, dispatch>>
    PROVE  [Next]_vars
<1>1. ASSUME NEW p \in Players, NEW line \in Lines[p], ProcessCommand(p, line)
      PROVE  [Next]_vars
  BY <1>1, ProcessedIsAllowed DEF Next
<1>2. ASSUME NEW p \in Players, LosePlayer(p)
      PROVE  [Next]_vars
  BY <1>2, LossIsAllowed DEF Next
<1>3. CASE EndPass
  BY <1>3, PassIsAllowed DEF Next
<1>4. CASE Month
  BY <1>4 DEF Month, Next
<1>5. CASE UNCHANGED <<vars, dispatch>>
  BY <1>5
<1> QED BY <1>1, <1>2, <1>3, <1>4, <1>5 DEF NextCommands

LEMMA StepKeepsServedAreHandled ==
    ASSUME ServedAreHandled, [NextCommands]_<<vars, dispatch>>
    PROVE  ServedAreHandled'
<1>1. ASSUME NEW p \in Players, NEW line \in Lines[p], ProcessCommand(p, line)
      PROVE  ServedAreHandled'
  <2>1. UNCHANGED vars \/ Command(p) \/ ConnectionError
    BY <1>1, ProcessedIsAllowed
  <2>2. served' \subseteq served \cup {p}
    BY <2>1, CommandServes DEF ConnectionError, vars
  <2>3. handled' = handled \cup {p}
    BY <1>1 DEF ProcessCommand
  <2> QED BY <2>2, <2>3 DEF ServedAreHandled
<1>2. ASSUME NEW p \in Players, LosePlayer(p)
      PROVE  ServedAreHandled'
  BY <1>2 DEF LosePlayer, Disconnect, ServedAreHandled
<1>3. CASE EndPass
  BY <1>3 DEF EndPass, ServedAreHandled
<1>4. CASE Month
  <2>1. CASE CloseMonth
    BY <1>4, <2>1 DEF Month, CloseMonth, ServedAreHandled
  <2>2. CASE ConnectionError
    BY <1>4, <2>2 DEF Month, ConnectionError, ServedAreHandled
  <2>3. CASE MonthEnd
    BY <1>4, <2>3, MonthEndServes DEF Month, ServedAreHandled
  <2> QED BY <1>4, <2>1, <2>2, <2>3 DEF Month
<1>5. CASE UNCHANGED <<vars, dispatch>>
  BY <1>5 DEF vars, dispatch, ServedAreHandled
<1> QED BY <1>1, <1>2, <1>3, <1>4, <1>5 DEF NextCommands

\* Who is counted as served by the game has been heard in this pass, however many
\* of the lines are refused: nobody gets a second line of the same pass carried out.
THEOREM ServedWereHeard == SpecCommands => []ServedAreHandled
<1>1. InitCommands => ServedAreHandled
  BY DEF InitCommands, Init, ServedAreHandled
<1>2. ServedAreHandled /\ [NextCommands]_<<vars, dispatch>> => ServedAreHandled'
  BY StepKeepsServedAreHandled
<1> QED BY <1>1, <1>2, PTL DEF SpecCommands

\* The questions a command asks one by one, the words left over from the lines
\* before, the refusals and the stops come, for any lines, any number of players and
\* any settings, to steps that GameSession allows or to none: all that is proved of
\* GameSession holds of the server that reads lines.
THEOREM CommandsImplementSession == SpecCommands => ImplementsSession
<1>1. InitCommands => Init
  BY DEF InitCommands
<1>2. ServedAreHandled /\ [NextCommands]_<<vars, dispatch>> => [Next]_vars
  BY StepIsAllowed
<1> QED BY <1>1, <1>2, ServedWereHeard, PTL DEF SpecCommands, ImplementsSession, Spec

-----------------------------------------------------------------------------
(* The requests that are said to be taken.                                 *)

SaysTaken == {RequestCode(k) : k \in Kinds}

LEMMA AskRefuses ==
    ASSUME NEW condition, NEW refusal
    PROVE  Ask(condition, refusal).refusal = refusal
BY Zenon DEF Ask

LEMMA RefusalsSayNothingTaken ==
    ASSUME NEW p, NEW args, NEW questions,
           questions \in {ProdQuestions(p), BuildQuestions(p, args), <<NotTurned(p)>>,
                          BuyQuestions(p, args[1], args[2]),
                          SellQuestions(p, args[1], args[2])},
           Refused(p, questions)
    PROVE  answer'.code \notin SaysTaken
<1>1. PICK i \in DOMAIN questions : answer'.code = questions[i].refusal
  BY DEF Refused, AnswerOnly, Answer
<1>2. CASE questions = ProdQuestions(p)
  BY <1>1, <1>2, AskRefuses DEF ProdQuestions, NotTurned, SaysTaken, RequestCode, Kinds
<1>3. CASE questions = BuildQuestions(p, args)
  BY <1>1, <1>3, AskRefuses DEF BuildQuestions, NotTurned, SaysTaken, RequestCode, Kinds
<1>4. CASE questions = <<NotTurned(p)>>
  BY <1>1, <1>4, AskRefuses DEF NotTurned, SaysTaken, RequestCode, Kinds
<1>5. CASE questions = BuyQuestions(p, args[1], args[2])
  BY <1>1, <1>5, AskRefuses DEF BuyQuestions, NotTurned, SaysTaken, RequestCode, Kinds
<1>6. CASE questions = SellQuestions(p, args[1], args[2])
  BY <1>1, <1>6, AskRefuses DEF SellQuestions, NotTurned, SaysTaken, RequestCode, Kinds
<1> QED BY <1>2, <1>3, <1>4, <1>5, <1>6

\* Of the request that a granted command inserts, what RequestsAreKept says.
Kept(k) ==
    \/ Listed(requests[k], answer'.to)
    \/ \E i \in DOMAIN requests[k]' :
           requests[k]'[i] = [player |-> answer'.to, amount |-> answer'.params[1],
                              price |-> answer'.params[2]]

LEMMA UpdateKeeps ==
    ASSUME TypeOK, NEW p \in Players, NEW k \in Kinds, NEW amount, NEW price,
           RequestUpdate(k, p, amount, price),
           Answer(p, RequestCode(k), <<amount, price>>)
    PROVE  Kept(k)
<1> DEFINE r == [player |-> p, amount |-> amount, price |-> price]
<1>1. answer'.to = p /\ answer'.params[1] = amount /\ answer'.params[2] = price
  BY DEF Answer
<1>2. requests \in [Kinds -> Seq(Request)]
  BY DEF TypeOK, TradeType
<1>3. ASSUME ~Listed(requests[k], p)
      PROVE  requests'[k] = Append(requests[k], r)
  BY <1>2, <1>3 DEF RequestUpdate, Insert
<1>4. ASSUME ~Listed(requests[k], p)
      PROVE  Len(requests[k]) + 1 \in DOMAIN requests'[k]
             /\ requests'[k][Len(requests[k]) + 1] = r
  BY <1>2, <1>3, <1>4
<1> QED BY <1>1, <1>4 DEF Kept

LEMMA AnsweredIsKept ==
    ASSUME TypeOK, NEW p \in Players, NEW line \in Lines[p], ProcessCommand(p, line),
           NEW k \in Kinds, answer'.code = RequestCode(k)
    PROVE  Kept(k)
<1> DEFINE args == line.args
<1>1. Execute(p, args)
  BY DEF ProcessCommand
<1>2. ASSUME NEW questions,
             questions \in {ProdQuestions(p), BuildQuestions(p, args), <<NotTurned(p)>>,
                            BuyQuestions(p, args[1], args[2]),
                            SellQuestions(p, args[1], args[2])}
      PROVE  ~Refused(p, questions)
  BY <1>2, RefusalsSayNothingTaken DEF SaysTaken
<1>3. CASE BuyCommand(p, args)
  <2>1. RequestUpdate("source", p, args[1], args[2])
        /\ Answer(p, "BUY_COMMAND_SUCCESS", <<args[1], args[2]>>)
    BY <1>2, <1>3 DEF BuyCommand
  <2>2. k = "source"
    BY <2>1 DEF Answer, RequestCode, Kinds
  <2> QED BY <2>1, <2>2, UpdateKeeps DEF RequestCode
<1>4. CASE SellCommand(p, args)
  <2>1. RequestUpdate("product", p, args[1], args[2])
        /\ Answer(p, "SELL_COMMAND_SUCCESS", <<args[1], args[2]>>)
    BY <1>2, <1>4 DEF SellCommand
  <2>2. k = "product"
    BY <2>1 DEF Answer, RequestCode, Kinds
  <2> QED BY <2>1, <2>2, UpdateKeeps DEF RequestCode
<1>5. ~ProdCommand(p) /\ ~TurnCommand(p) /\ ~BuildCommand(p, args)
  BY <1>2 DEF ProdCommand, TurnCommand, BuildCommand, SitesAreEmpty, AnswerOnly, Answer,
              RequestCode, Kinds
<1>6. ~HelpCommand(p) /\ ~MarketCommand(p) /\ ~ListCommand(p) /\ ~QuitCommand(p)
  BY DEF HelpCommand, MarketCommand, ListCommand, QuitCommand, AnswerOnly, Answer,
         RequestCode, Kinds
<1>7. ~PlayerCommand(p, args)
  <2>1. ASSUME NEW t, AnswerAbout(p, t)
        PROVE  FALSE
    BY <2>1 DEF AnswerAbout, Answer, RequestCode, Kinds
  <2> QED BY <2>1 DEF PlayerCommand
<1>8. ~Unknown(p) /\ ~TooFewArguments(p, args) /\ ~NoTarget(p, args)
      /\ ~SitesAreListed(p, args) /\ ~TooManySites(p, args)
  BY DEF Unknown, TooFewArguments, NoTarget, SitesAreListed, TooManySites, Stops, Nothing,
         RequestCode, Kinds
<1> QED BY <1>1, <1>3, <1>4, <1>5, <1>6, <1>7, <1>8 DEF Execute

LEMMA StepKeepsRequests ==
    ASSUME TypeOK, NextCommands, NEW k \in Kinds, answer'.code = RequestCode(k)
    PROVE  Kept(k)
<1>1. ~EndPass /\ ~Month /\ \A p \in Players : ~LosePlayer(p)
  BY DEF EndPass, Month, LosePlayer, Silent, Nothing, RequestCode, Kinds
<1> QED BY <1>1, AnsweredIsKept DEF NextCommands

\* Who is told that a request was taken has it in the list, or an older one of
\* the same kind, for any lines of any number of players.
THEOREM TakenIsKept == SpecCommands => RequestsAreKept
<1>1. TypeOK /\ [NextCommands]_<<vars, dispatch>> =>
          [\A k \in Kinds : answer'.code = RequestCode(k) =>
              \/ Listed(requests[k], answer'.to)
              \/ \E i \in DOMAIN requests[k]' :
                     requests[k]'[i] = [player |-> answer'.to, amount |-> answer'.params[1],
                                        price |-> answer'.params[2]]]_<<vars, dispatch>>
  BY StepKeepsRequests DEF Kept
<1> QED
  BY <1>1, CommandsImplementSession, TypeCorrect, PTL
  DEF SpecCommands, ImplementsSession, RequestsAreKept

-----------------------------------------------------------------------------
(* The answers and their readers.                                          *)

\* The codes that are sent alone.
Alone == (Refusals \ {"WAIT_FOR_NEXT_TURN"})
         \cup {"PROD_COMMAND_SUCCESS", "BUILD_COMMAND_SUCCESS", "QUIT_COMMAND_SUCCESS"}

LEMMA NothingTakenOfAlone ==
    ASSUME NEW code \in Alone, NEW bot \in BOOLEAN
    PROVE  Fits(code, <<>>, bot)
<1>1. TakenBy(bot, code) = 0
  BY DEF TakenBy, Alone, Refusals, Queries, News, BotTakesOfOrder, ClientTakesOfOrder
<1>2. code \notin ReadToTheEnd /\ code # "AUCTION_RESULTS"
  BY DEF ReadToTheEnd, Alone, Refusals
<1> QED BY <1>1, <1>2 DEF Fits

\* Numbers that come with an order that was carried out.
LEMMA OrderFits ==
    ASSUME NEW bot \in BOOLEAN, NEW params, Len(params) \in Nat,
           NEW code \in {"BUY_COMMAND_SUCCESS", "SELL_COMMAND_SUCCESS", "TURN_COMMAND_SUCCESS"},
           Len(params) >= IF code = "TURN_COMMAND_SUCCESS" THEN 1 ELSE 2
    PROVE  Fits(code, params, bot)
<1>1. TakenBy(bot, code) = IF code = "TURN_COMMAND_SUCCESS" THEN 1 ELSE 2
  BY DEF TakenBy, Queries, News, BotTakesOfOrder, ClientTakesOfOrder
<1> QED BY <1>1 DEF Fits, ReadToTheEnd

\* A query's answer, as long as it is told.
LEMMA QueryFits ==
    ASSUME NEW bot \in BOOLEAN, NEW params, NEW code \in Queries,
           Len(params) = CASE code = "HELP_COMMAND" -> 10
                           [] code = "MARKET_COMMAND" -> 4
                           [] code = "LIST_COMMAND" -> 1
                           [] code = "PLAYER_COMMAND" -> IF bot THEN 9 ELSE 8
    PROVE  Fits(code, params, bot)
<1>1. Len(params) >= TakenBy(bot, code) /\ Len(params) \in {1, 4, 8, 9, 10}
  <2>1. TakenBy(bot, code) = IF bot THEN BotTakesOfQuery(code) ELSE ClientTakesOfQuery(code)
    BY DEF TakenBy, Queries, News
  <2>2. BotTakesOfQuery(code) = IF code = "PLAYER_COMMAND" THEN 9 ELSE 0
    BY DEF BotTakesOfQuery
  <2>3. ClientTakesOfQuery(code) = IF code = "PLAYER_COMMAND" THEN 8
                                   ELSE IF code = "LIST_COMMAND" THEN 1 ELSE 0
    BY DEF ClientTakesOfQuery
  <2>4. CASE bot
    BY <2>1, <2>2, <2>4 DEF Queries
  <2>5. CASE ~bot
    BY <2>1, <2>3, <2>5 DEF Queries
  <2> QED BY <2>4, <2>5
<1>2. code # "AUCTION_RESULTS"
  BY DEF Queries
<1>3. code \in ReadToTheEnd => Len(params) <= Texts(code)
  BY DEF Queries, ReadToTheEnd, Texts
<1> QED BY <1>1, <1>2, <1>3 DEF Fits

\* What the last step said fits, or is the exception.
AnswerFits ==
    answer'.code # "WAIT_FOR_NEXT_TURN" => Fits(answer'.code, answer'.params, answer'.to \in Bots)

LEMMA BothFit ==
    ASSUME \A bot \in BOOLEAN : Fits(answer'.code, answer'.params, bot)
    PROVE  AnswerFits
<1>1. (answer'.to \in Bots) \in BOOLEAN
  OBVIOUS
<1> QED BY <1>1 DEF AnswerFits

LEMMA AloneFits ==
    ASSUME NEW p, NEW code, AnswerOnly(p, code) \/ Answer(p, code, <<>>),
           code \in Alone \cup {"WAIT_FOR_NEXT_TURN"}
    PROVE  AnswerFits
<1>1. answer' = [to |-> p, code |-> code, params |-> <<>>]
  BY DEF AnswerOnly, Answer
<1>2. answer'.code = code /\ answer'.params = <<>>
  BY <1>1
<1>3. code \in Alone => \A bot \in BOOLEAN : Fits(code, <<>>, bot)
  BY NothingTakenOfAlone
<1>4. CASE code \in Alone
  <2>1. \A bot \in BOOLEAN : Fits(answer'.code, answer'.params, bot)
    BY <1>2, <1>3, <1>4
  <2> QED BY <2>1, BothFit
<1> QED BY <1>2, <1>4 DEF AnswerFits

LEMMA RefusalsFit ==
    ASSUME NEW p, NEW args, NEW questions,
           questions \in {ProdQuestions(p), BuildQuestions(p, args), <<NotTurned(p)>>,
                          BuyQuestions(p, args[1], args[2]),
                          SellQuestions(p, args[1], args[2])},
           Refused(p, questions)
    PROVE  AnswerFits
<1>1. PICK i \in DOMAIN questions : AnswerOnly(p, questions[i].refusal)
  BY DEF Refused
<1>2. questions[i].refusal \in Refusals
  <2>1. CASE questions = ProdQuestions(p)
    BY <1>1, <2>1, AskRefuses DEF ProdQuestions, NotTurned, Refusals
  <2>2. CASE questions = BuildQuestions(p, args)
    BY <1>1, <2>2, AskRefuses DEF BuildQuestions, NotTurned, Refusals
  <2>3. CASE questions = <<NotTurned(p)>>
    BY <1>1, <2>3, AskRefuses DEF NotTurned, Refusals
  <2>4. CASE questions = BuyQuestions(p, args[1], args[2])
    BY <1>1, <2>4, AskRefuses DEF BuyQuestions, NotTurned, Refusals
  <2>5. CASE questions = SellQuestions(p, args[1], args[2])
    BY <1>1, <2>5, AskRefuses DEF SellQuestions, NotTurned, Refusals
  <2> QED BY <2>1, <2>2, <2>3, <2>4, <2>5
<1> QED BY <1>1, <1>2, AloneFits DEF Alone

LEMMA QueriesFit ==
    ASSUME NEW p, NEW args,
           HelpCommand(p) \/ MarketCommand(p) \/ ListCommand(p) \/ PlayerCommand(p, args)
    PROVE  AnswerFits
<1>1. CASE HelpCommand(p)
  <2> DEFINE names == [i \in 1..10 |-> i]
  <2>1. answer'.code = "HELP_COMMAND" /\ answer'.params = names
    BY <1>1 DEF HelpCommand, Answer
  <2>2. Len(names) = 10
    OBVIOUS
  <2> HIDE DEF names
  <2>3. \A bot \in BOOLEAN : Fits("HELP_COMMAND", names, bot)
    BY <2>2, QueryFits DEF Queries
  <2>4. \A bot \in BOOLEAN : Fits(answer'.code, answer'.params, bot)
    BY <2>1, <2>3
  <2> QED BY <2>4, BothFit
<1>2. CASE MarketCommand(p)
  <2>1. answer'.code = "MARKET_COMMAND" /\ answer'.params = MarketFacts
    BY <1>2 DEF MarketCommand, Answer
  <2>2. Len(MarketFacts) = 4
    BY DEF MarketFacts
  <2>3. \A bot \in BOOLEAN : Fits("MARKET_COMMAND", MarketFacts, bot)
    BY <2>2, QueryFits DEF Queries
  <2>4. \A bot \in BOOLEAN : Fits(answer'.code, answer'.params, bot)
    BY <2>1, <2>3
  <2> QED BY <2>4, BothFit
<1>3. CASE ListCommand(p)
  <2>1. answer'.code = "LIST_COMMAND" /\ answer'.params = <<alive>>
    BY <1>3 DEF ListCommand, Answer
  <2>2. Len(<<alive>>) = 1
    OBVIOUS
  <2>3. \A bot \in BOOLEAN : Fits("LIST_COMMAND", <<alive>>, bot)
    BY <2>2, QueryFits DEF Queries
  <2>4. \A bot \in BOOLEAN : Fits(answer'.code, answer'.params, bot)
    BY <2>1, <2>3
  <2> QED BY <2>4, BothFit
<1>4. ASSUME NEW t, AnswerAbout(p, t)
      PROVE  AnswerFits
  <2>1. CASE t \notin Players
    <3>1. Answer(p, "PLAYER_COMMAND_INCORRECT_ID", <<>>)
      BY <1>4, <2>1 DEF AnswerAbout, Present
    <3> QED BY <3>1, AloneFits DEF Alone, Refusals
  <2>2. CASE t \in Players /\ free[t]
    <3>1. Answer(p, "PLAYER_COMMAND_NOT_FOUND", <<>>)
      BY <1>4, <2>2 DEF AnswerAbout, Present
    <3> QED BY <3>1, AloneFits DEF Alone, Refusals
  <2>3. CASE t \in Players /\ ~free[t]
    <3>1. Answer(p, "PLAYER_COMMAND", PlayerFacts(p, t))
      BY <1>4, <2>3 DEF AnswerAbout, Present
    <3>2. answer'.to = p /\ answer'.code = "PLAYER_COMMAND" /\ answer'.params = PlayerFacts(p, t)
      BY <3>1 DEF Answer
    <3>3. Len(PlayerFacts(p, t)) = IF p \in Bots THEN 9 ELSE 8
      BY DEF PlayerFacts, ProducedFact
    <3>4. CASE p \in Bots
      <4>1. Fits("PLAYER_COMMAND", PlayerFacts(p, t), TRUE)
        BY <3>3, <3>4, QueryFits DEF Queries
      <4> QED BY <3>2, <3>4, <4>1 DEF AnswerFits
    <3>5. CASE p \notin Bots
      <4>1. Fits("PLAYER_COMMAND", PlayerFacts(p, t), FALSE)
        BY <3>3, <3>5, QueryFits DEF Queries
      <4>2. (answer'.to \in Bots) = FALSE
        BY <3>2, <3>5
      <4>3. Fits(answer'.code, answer'.params, FALSE)
        BY <3>2, <4>1
      <4> QED BY <4>2, <4>3, Zenon DEF AnswerFits
    <3> QED BY <3>4, <3>5
  <2> QED BY <2>1, <2>2, <2>3
<1>5. CASE PlayerCommand(p, args)
  BY <1>4, <1>5 DEF PlayerCommand
<1> QED BY <1>1, <1>2, <1>3, <1>5

LEMMA ExecutedFits ==
    ASSUME NEW p, NEW args, Execute(p, args), answer'.to # NoPlayer
    PROVE  AnswerFits
<1>1. ASSUME NEW code \in {"BUY_COMMAND_SUCCESS", "SELL_COMMAND_SUCCESS"}, NEW a, NEW b,
             Answer(p, code, <<a, b>>)
      PROVE  AnswerFits
  <2>1. answer'.to = p /\ answer'.code = code /\ answer'.params = <<a, b>>
    BY <1>1 DEF Answer
  <2>2. \A bot \in BOOLEAN : Fits(code, <<a, b>>, bot)
    <3>1. Len(<<a, b>>) = 2
      OBVIOUS
    <3> QED BY <1>1, <3>1, OrderFits
  <2>3. \A bot \in BOOLEAN : Fits(answer'.code, answer'.params, bot)
    BY <2>1, <2>2
  <2> QED BY <2>3, BothFit
<1>2. CASE ProdCommand(p)
  <2>1. CASE Refused(p, ProdQuestions(p))
    BY <2>1, RefusalsFit
  <2>2. CASE Answer(p, "PROD_COMMAND_SUCCESS", <<>>)
    BY <2>2, AloneFits DEF Alone
  <2> QED BY <1>2, <2>1, <2>2 DEF ProdCommand
<1>3. CASE BuildCommand(p, args)
  <2>1. CASE Refused(p, BuildQuestions(p, args))
    BY <2>1, RefusalsFit
  <2>2. CASE SitesAreEmpty(p, args)
    BY <2>2, AloneFits DEF SitesAreEmpty, Alone, Refusals
  <2>3. CASE Answer(p, "BUILD_COMMAND_SUCCESS", <<>>)
    BY <2>3, AloneFits DEF Alone
  <2> QED BY <1>3, <2>1, <2>2, <2>3 DEF BuildCommand
<1>4. CASE BuyCommand(p, args)
  <2>1. CASE Refused(p, BuyQuestions(p, args[1], args[2]))
    BY <2>1, RefusalsFit
  <2> QED BY <1>1, <1>4, <2>1 DEF BuyCommand
<1>5. CASE SellCommand(p, args)
  <2>1. CASE Refused(p, SellQuestions(p, args[1], args[2]))
    BY <2>1, RefusalsFit
  <2> QED BY <1>1, <1>5, <2>1 DEF SellCommand
<1>6. CASE TurnCommand(p)
  <2>1. CASE Refused(p, <<NotTurned(p)>>)
    BY <2>1, RefusalsFit
  <2>2. CASE Answer(p, "TURN_COMMAND_SUCCESS", <<alive - ready'>>)
    <3>1. answer'.code = "TURN_COMMAND_SUCCESS" /\ answer'.params = <<alive - ready'>>
      BY <2>2 DEF Answer
    <3>2. \A bot \in BOOLEAN : Fits("TURN_COMMAND_SUCCESS", <<alive - ready'>>, bot)
      <4>1. Len(<<alive - ready'>>) = 1
        OBVIOUS
      <4> QED BY <4>1, OrderFits
    <3>3. \A bot \in BOOLEAN : Fits(answer'.code, answer'.params, bot)
      BY <3>1, <3>2
    <3> QED BY <3>3, BothFit
  <2> QED BY <1>6, <2>1, <2>2 DEF TurnCommand
<1>7. CASE QuitCommand(p)
  BY <1>7, AloneFits DEF QuitCommand, Alone
<1>8. ~Stops(p)
  BY DEF Stops, Nothing
<1> QED
  BY <1>2, <1>3, <1>4, <1>5, <1>6, <1>7, <1>8, QueriesFit
  DEF Execute, Unknown, TooFewArguments, NoTarget, SitesAreListed, TooManySites

\* Whatever lines are sent, in words or blank, to a human or a bot: the reader of an
\* answer takes by position no parameter that is not in it, and the client has a text
\* for each it walks over (the answers of the broker messages, check_server_response
\* of client.c, bot_check_server_response).
THEOREM AnswersFitTheirReaders == SpecCommands => AnswersFit
<1>1. [NextCommands]_<<vars, dispatch>> =>
          [answer'.to # NoPlayer /\ answer'.code # "WAIT_FOR_NEXT_TURN" =>
               Fits(answer'.code, answer'.params, answer'.to \in Bots)]_<<vars, dispatch>>
  <2> SUFFICES ASSUME NextCommands, answer'.to # NoPlayer
               PROVE  AnswerFits
    BY DEF AnswerFits
  <2>1. ~EndPass /\ ~Month /\ \A p \in Players : ~LosePlayer(p)
    BY DEF EndPass, Month, LosePlayer, Silent, Nothing
  <2> QED BY <2>1, ExecutedFits DEF NextCommands, ProcessCommand
<1> QED BY <1>1, PTL DEF SpecCommands, AnswersFit

=============================================================================
