--------------------------- MODULE MCGameSession ---------------------------
(***************************************************************************)
(* Sets of requests for the runs of GameSession.  Prices are those of the  *)
(* bank's table: 500 is the lowest source price at level 3, 800 the lowest *)
(* one at every level, 4500 the highest product price at every level.      *)
(***************************************************************************)
EXTENDS GameSessionProperties

Config == INSTANCE Settings

Bid(a, p) == [amount |-> a, price |-> p]

NoBids == {}

\* A cheap and a dear request for different amounts.
SourceBids == {Bid(1, 800), Bid(3, 900)}
ProductBids == {Bid(1, 4500), Bid(2, 4000)}

OneSourceBid == {Bid(2, 800)}
OneProductBid == {Bid(1, 4500)}

-----------------------------------------------------------------------------
\* A file can give these settings.
ASSUME SettingsCanBeLoaded ==
    Config!CanBeLoaded(
        [min_players_to_start |-> MinPlayers, max_players |-> MaxPlayers,
         time_to_start |-> Config!GameSettings.time_to_start,
         start_market_level |-> StartLevel, start_money |-> StartMoney,
         start_sources |-> StartSources, start_products |-> StartProducts,
         start_factories |-> StartFactories, source_unit_charge |-> SourceCharge,
         product_unit_charge |-> ProductCharge, factory_unit_charge |-> FactoryCharge,
         new_factory_unit_cost |-> FactoryCost, production_product_cost |-> ProductCost,
         turns_to_build_factory |-> TurnsToBuild])
=============================================================================
