------------------------------ MODULE Messages ------------------------------
(***************************************************************************)
(* The messages of the server and what their readers make of them.  A      *)
(* message is a code of MGProto.cpp, then parameters, all separated by a   *)
(* bar.  The readers, client and bot, look at the code and then take       *)
(* parameters by their position; one that is not there is a null pointer,  *)
(* which they give to atoi, and where they walk to the end of the message  *)
(* they have a text for so many parameters only.                           *)
(*                                                                         *)
(* Taken as working: client and bot look for the codes HELP_COMMAND,       *)
(* MARKET_COMMAND, PLAYER_COMMAND and LIST_COMMAND, to which MGProto.cpp   *)
(* adds _SUCCESS.                                                          *)
(***************************************************************************)
EXTENDS Integers, Sequences

\* The commands that are refused, by what the answer says of them.
Refusals ==
    {"WAIT_FOR_NEXT_TURN", "PLAYER_COMMAND_NOT_FOUND", "PLAYER_COMMAND_INCORRECT_ID",
     "PROD_COMMAND_NO_FACTORIES", "PROD_COMMAND_NO_MONEY", "PROD_COMMAND_NO_SOURCE",
     "BUILD_COMMAND_INCORRECT_ARG", "BUILD_COMMAND_NO_MONEY",
     "BUILDING_FACTORIES_LIST_EMPTY",
     "BUY_COMMAND_ALREADY_SENT", "BUY_COMMAND_NO_MONEY",
     "BUY_COMMAND_INCORRECT_PRICE", "BUY_COMMAND_INCORRECT_AMOUNT",
     "SELL_COMMAND_ALREADY_SENT", "SELL_COMMAND_INCORRECT_PRICE",
     "SELL_COMMAND_INCORRECT_AMOUNT"}

Queries == {"HELP_COMMAND", "MARKET_COMMAND", "PLAYER_COMMAND", "LIST_COMMAND"}

\* What a command that was carried out is answered with.
Successes == {"PROD_COMMAND_SUCCESS", "BUILD_COMMAND_SUCCESS", "BUY_COMMAND_SUCCESS",
              "SELL_COMMAND_SUCCESS", "TURN_COMMAND_SUCCESS"}

\* What the server says of itself, in the lobby and in the game.
News == {"AUCTION_RESULTS", "SUCCESS_CHARGES_PAY", "PLAYER_BANKROT",
         "LOST_ALIVE_PLAYER", "PRODUCED", "STARTINSECONDS", "GAME_STARTED",
         "STARTING_GAME_INFORMATION", "STARTCANCELLED", "PAY_FACTORY_SUCCESS",
         "FACTORY_BUILT", "VICTORY_MESSAGE", "NEW_PLAYER_CONNECT",
         "GAME_NOT_STARTED", "NEW_TURN"}

Codes == Refusals \cup Queries \cup Successes \cup News \cup {"QUIT_COMMAND_SUCCESS"}

-----------------------------------------------------------------------------
\* check_server_response of the client takes that many parameters by their position
\* and looks at each without a test that it is there: of a player his number, money,
\* the change of it, sources, products and three numbers of factories.
ClientTakesOfQuery(code) ==
    CASE code = "PLAYER_COMMAND" -> 8
      [] code = "LIST_COMMAND" -> 1
      [] OTHER -> 0

ClientTakesOfOrder(code) ==
    CASE code \in {"BUY_COMMAND_SUCCESS", "SELL_COMMAND_SUCCESS"} -> 2
      [] code \in {"TURN_COMMAND_SUCCESS", "WAIT_FOR_NEXT_TURN"} -> 1
      [] OTHER -> 0

ClientTakesOfNews(code) ==
    CASE code = "NEW_PLAYER_CONNECT" -> 2
      [] code \in {"STARTINSECONDS", "PRODUCED", "SUCCESS_CHARGES_PAY", "PLAYER_BANKROT",
                   "LOST_ALIVE_PLAYER", "NEW_TURN", "STARTING_GAME_INFORMATION"} -> 1
      [] OTHER -> 0

\* bot_check_server_response: of a player what he has produced, too; the month and
\* the market; who left; of the start everything the bot begins with.
BotTakesOfQuery(code) == IF code = "PLAYER_COMMAND" THEN 9 ELSE 0

BotTakesOfOrder(code) ==
    CASE code \in {"BUY_COMMAND_SUCCESS", "SELL_COMMAND_SUCCESS"} -> 2
      [] code \in {"TURN_COMMAND_SUCCESS", "WAIT_FOR_NEXT_TURN"} -> 1
      [] OTHER -> 0

BotTakesOfNews(code) ==
    CASE code = "STARTING_GAME_INFORMATION" -> 13
      [] code = "NEW_TURN" -> 5
      [] code \in {"NEW_PLAYER_CONNECT", "LOST_ALIVE_PLAYER"} -> 2
      [] code \in {"STARTINSECONDS", "PRODUCED", "SUCCESS_CHARGES_PAY", "PLAYER_BANKROT"} -> 1
      [] OTHER -> 0

TakenBy(bot, code) ==
    CASE code \in Queries -> IF bot THEN BotTakesOfQuery(code) ELSE ClientTakesOfQuery(code)
      [] code \in News -> IF bot THEN BotTakesOfNews(code) ELSE ClientTakesOfNews(code)
      [] OTHER -> IF bot THEN BotTakesOfOrder(code) ELSE ClientTakesOfOrder(code)

\* How many parameters the client has a text for, where it walks to the end.
Texts(code) ==
    CASE code = "HELP_COMMAND" -> 10
      [] code = "MARKET_COMMAND" -> 4
      [] code = "STARTING_GAME_INFORMATION" -> 9

ReadToTheEnd == {"HELP_COMMAND", "MARKET_COMMAND", "STARTING_GAME_INFORMATION"}

\* The reader finds every parameter it takes and has a text for each it prints;
\* of the results it takes six parameters at a time, until there is no more.
Fits(code, params, bot) ==
    /\ code = "AUCTION_RESULTS" => Len(params) % 6 = 0
    /\ Len(params) >= TakenBy(bot, code)
    /\ ~bot /\ code \in ReadToTheEnd => Len(params) <= Texts(code)
=============================================================================
