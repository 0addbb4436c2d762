----------------------------- MODULE MCBrokers -----------------------------
(***************************************************************************)
(* Two sessions of three seats, each with bots and humans.  With them TLC  *)
(* evaluates what is said of the records the brokers tell of.              *)
(***************************************************************************)
EXTENDS BrokersProperties, Records

MCSessions == 1..2
MCPlayers == 1..3
MCBots == {<<1, 2>>, <<2, 1>>, <<2, 3>>}
=============================================================================
