----------------------------- MODULE MCCommands -----------------------------
(***************************************************************************)
(* The lines that players send in the run of Commands: every command, with *)
(* and without its numbers, numbers that are refused, a line of blanks and *)
(* a word that is no command.  With them TLC evaluates what is said of     *)
(* the settings, and the loop that sorts requests against its outcome.     *)
(***************************************************************************)
EXTENDS CommandsProperties, Settings

Literal == INSTANCE Requests

Numbered(w, args) == [word |-> w, args |-> args]
Plain(w) == Numbered(w, <<>>)

HumanLines ==
    {Plain(w) : w \in {"", "help", "market", "list", "prod", "build", "turn", "quit",
                       "player", "buy", "hello"}}
    \cup {Numbered("build", <<0>>), Numbered("build", <<ListNumber>>),
          Numbered("player", <<2>>), Numbered("player", <<9>>)}
    \cup {Numbered("buy", <<2, 800>>), Numbered("buy", <<1, 10>>)}
    \cup {Numbered("sell", <<1, 9000>>), Numbered("sell", <<1, 4500>>)}

BotLines == {Plain(""), Plain("turn"), Numbered("player", <<1>>)}

MCLines == <<HumanLines, BotLines>>

Bids(w) ==
    { [amount |-> line.args[1], price |-> line.args[2]] :
        line \in {l \in HumanLines : l.word = w /\ Len(l.args) = 2} }

MCBuyBids == Bids("buy")
MCSellBids == Bids("sell")
MCBots == {2}

-----------------------------------------------------------------------------
\* The requests of ready players at max seats: SortRequestsByPrice as it runs ends
\* within its arrays exactly where SortDefined says so, and with what Sorted says.
ASSUME SortsAsItRuns ==
    \A k \in {"source", "product"}, max \in 1..4 : \A n \in 1..max :
        \A prices \in [1..n -> 0..2] :
            LET reqs == [i \in 1..n |-> [player |-> i, amount |-> i, price |-> prices[i]]]
                run  == Literal!SortRequestsByPrice(reqs, k, max)
            IN  /\ run.is = "sorted" <=> FirstGoesFirst(k, reqs) \/ n = max
                /\ run.is = "sorted" => Sorted(k, reqs) = {run.reqs}

\* A file can give these settings.
ASSUME SettingsCanBeLoaded ==
    CanBeLoaded(
        [min_players_to_start |-> MinPlayers, max_players |-> MaxPlayers,
         time_to_start |-> GameSettings.time_to_start,
         start_market_level |-> StartLevel, start_money |-> StartMoney,
         start_sources |-> StartSources, start_products |-> StartProducts,
         start_factories |-> StartFactories, source_unit_charge |-> SourceCharge,
         product_unit_charge |-> ProductCharge, factory_unit_charge |-> FactoryCharge,
         new_factory_unit_cost |-> FactoryCost, production_product_cost |-> ProductCost,
         turns_to_build_factory |-> TurnsToBuild])
=============================================================================
