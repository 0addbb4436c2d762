------------------------------- MODULE Market -------------------------------
(***************************************************************************)
(* The bank's market: the tables of Banker.cpp and the way a market state  *)
(* is computed from a market level and the number of players alive.  The   *)
(* module has no state of its own; GameSession extends it.                 *)
(***************************************************************************)
EXTENDS Integers

Levels == 1..5                                   \* MARKET_LEVEL_NUMBER

Dice == 1..12

(***************************************************************************)
(* amount_multiplier_table holds halves (1.0, 1.5, ...).  The entries here *)
(* are doubled, so that the truncating conversion of a product with alive  *)
(* to int is an integer division by two.                                   *)
(***************************************************************************)
amount_multiplier_doubled ==
    << <<2, 6>>, <<3, 5>>, <<4, 4>>, <<5, 5>>, <<6, 2>> >>

price_table ==
    << <<800, 6500>>, <<650, 6000>>, <<500, 5500>>, <<400, 5000>>, <<300, 4500>> >>

states_market_chance ==
    << <<4, 4, 2, 1, 1>>,
       <<3, 4, 3, 1, 1>>,
       <<1, 3, 4, 3, 1>>,
       <<1, 1, 3, 4, 3>>,
       <<1, 1, 2, 4, 4>> >>

\* The market the bank announces at a level, for so many players alive.
MarketAt(level, alive) ==
    [ sources  |-> (amount_multiplier_doubled[level][1] * alive) \div 2,
      minPrice |-> price_table[level][1],
      products |-> (amount_multiplier_doubled[level][2] * alive) \div 2,
      maxPrice |-> price_table[level][2] ]

\* The chances of the levels 1..i after level, added up.
ChanceUpTo(level) ==
    LET sum[i \in 0..5] ==
            IF i = 0 THEN 0 ELSE sum[i - 1] + states_market_chance[level][i]
    IN  sum

\* ChangeMarketState's loop stops at the first level whose sum reaches the dice.
LevelAfter(level, r) ==
    { i \in Levels : ChanceUpTo(level)[i - 1] < r /\ r <= ChanceUpTo(level)[i] }

=============================================================================
