------------------------------ MODULE Commands ------------------------------
(***************************************************************************)
(* From a line of a player to the answer: PlayerEventHandle, the executor  *)
(* that cuts the line into words and finds the command, the ten commands   *)
(* with their questions to the game, and the answers.  The game's own      *)
(* variables are those of GameSession, which this module implements: there *)
(* an accepted command is one step and a refused one none.                 *)
(*                                                                         *)
(* The executor and the commands are objects of the whole server and keep  *)
(* from one line to the next what no line has replaced: the words, which   *)
(* point into the buffer of the player who sent them, and the parameters   *)
(* of build and player, which point to a variable that is gone.            *)
(***************************************************************************)
EXTENDS GameSession, Messages

CONSTANTS
    Lines,       \* the lines each player may send; see Line
    Bots         \* the players who identified themselves as bots

\* A line is its first word, "" for a line of blanks, and what atoi makes of the
\* words that follow.
Line(line) == line.word \in STRING /\ line.args \in Seq(Int)

ASSUME LinesAssumption ==
    /\ \A p \in Players : \A line \in Lines[p] :
           Line(line) /\ (line.word = "" => line.args = <<>>)
    /\ Bots \subseteq Players

\* What buy and sell may ask for: the requests of GameSession are those.
ASSUME RequestsAssumption ==
    \A p \in Players : \A line \in Lines[p] : Len(line.args) >= 2 =>
        LET bid == [amount |-> line.args[1], price |-> line.args[2]]
        IN  /\ line.word = "buy" => bid \in BuyBids
            /\ line.word = "sell" => bid \in SellBids

NoPlayer == 0

VARIABLES
    handled,     \* players whose line this pass has handled, refused ones too
    owner,       \* the player whose buffer cmd_tokens[0] points into
    word,        \* the word that is there
    kept,        \* commands whose parameter an earlier line has set
    answer       \* history: what the last step sent

dispatch == <<handled, owner, word, kept, answer>>
game == <<phase, served, people, accounts, stock, plants, trade, session, loops>>

Nothing == [to |-> NoPlayer, code |-> "nothing", params |-> <<>>]

InitCommands ==
    /\ Init
    /\ handled = {} /\ owner = NoPlayer /\ word = "" /\ kept = {}
    /\ answer = Nothing

-----------------------------------------------------------------------------
(* Answers.                                                                *)

Answer(p, code, params) == answer' = [to |-> p, code |-> code, params |-> params]

\* SetMsgTokensCount: all but the queries that tell something of the game and the
\* commands that repeat their numbers send the code alone.
AnswerOnly(p, code) == Answer(p, code, <<>>) /\ UNCHANGED game

(***************************************************************************)
(* A command asks the game one question after the other.  The first that   *)
(* has the wrong answer is told; if none has, the game is updated.         *)
(***************************************************************************)
Ask(condition, refusal) == [holds |-> condition, refusal |-> refusal]

FirstRefusal(questions, i) ==
    /\ ~questions[i].holds
    /\ \A j \in 1..(i - 1) : questions[j].holds

Refused(p, questions) ==
    \E i \in DOMAIN questions :
        FirstRefusal(questions, i) /\ AnswerOnly(p, questions[i].refusal)

Granted(questions) == \A i \in DOMAIN questions : questions[i].holds

\* Mutant: the turn is not asked about.
NotTurned_Unasked(p) == Ask(TRUE, "WAIT_FOR_NEXT_TURN")

NotTurned(p) == Ask(~turned[p], "WAIT_FOR_NEXT_TURN")

-----------------------------------------------------------------------------
(* Queries.                                                                *)

HelpCommand(p) == Answer(p, "HELP_COMMAND", [i \in 1..10 |-> i]) /\ UNCHANGED game

MarketFacts == <<market.sources, market.minPrice, market.products, market.maxPrice>>

MarketCommand(p) == Answer(p, "MARKET_COMMAND", MarketFacts) /\ UNCHANGED game

ListCommand(p) == Answer(p, "LIST_COMMAND", <<alive>>) /\ UNCHANGED game

\* Mutant: the bot is asked for instead of the human.
PlayerFacts_Swapped(p, t) ==
    <<t, money[t], income[t], sources[t], products[t], wait[t], work[t], built[t]>>
    \o IF p \notin Bots THEN <<produced[t]>> ELSE <<>>

\* What was produced is told to bots only.
ProducedFact(p, t) == IF p \in Bots THEN <<produced[t]>> ELSE <<>>

\* What p is told of player t.
PlayerFacts(p, t) ==
    <<t, money[t], income[t], sources[t], products[t], wait[t], work[t], built[t]>>
    \o ProducedFact(p, t)

AnswerAbout(p, t) ==
    /\ UNCHANGED game
    /\ Answer(p, CASE t \notin Players -> "PLAYER_COMMAND_INCORRECT_ID"
                   [] t \in Players /\ free[t] -> "PLAYER_COMMAND_NOT_FOUND"
                   [] OTHER -> "PLAYER_COMMAND",
                 IF t \in Present THEN PlayerFacts(p, t) ELSE <<>>)

(***************************************************************************)
(* The parameter is kept as a pointer to a variable of the call that set   *)
(* it.  With a word of its own a line sets it anew and the number is still *)
(* there when it is read; without one the place is that of a call that has *)
(* ended, and anything may be there.                                       *)
(***************************************************************************)
PlayerCommand(p, args) ==
    \/ args # <<>> /\ AnswerAbout(p, args[1])
    \/ /\ args = <<>> /\ "player" \in kept
       /\ \E t \in 0..MaxPlayers : AnswerAbout(p, t)

-----------------------------------------------------------------------------
(* Commands that change the game.                                          *)

ProdQuestions(p) ==
    << NotTurned(p),
       Ask(sources[p] >= 1, "PROD_COMMAND_NO_SOURCE"),
       Ask(money[p] >= ProductCost, "PROD_COMMAND_NO_MONEY"),
       Ask(wait[p] > 0, "PROD_COMMAND_NO_FACTORIES") >>

ProdCmdUpdateGameState(p) ==
    /\ wait' = [wait EXCEPT ![p] = @ - 1]
    /\ work' = [work EXCEPT ![p] = @ + 1]
    /\ sources' = [sources EXCEPT ![p] = @ - 1]
    /\ money' = [money EXCEPT ![p] = @ - ProductCost]
    /\ Handled(p)
    /\ UNCHANGED <<phase, people, oldMoney, income, products, produced,
                   built, builds, trade, session, loops>>

ProdCommand(p) ==
    \/ Refused(p, ProdQuestions(p))
    \/ /\ Granted(ProdQuestions(p))
       /\ ProdCmdUpdateGameState(p)
       /\ Answer(p, "PROD_COMMAND_SUCCESS", <<>>)

\* Once a build has had an argument, this one and all later ones find a parameter.
\* It is compared with the text "list" as if it were one, and is a number.
BuildQuestions(p, args) ==
    << NotTurned(p),
       Ask(args = <<>> /\ "build" \notin kept, "BUILD_COMMAND_INCORRECT_ARG"),
       Ask(money[p] >= FactoryCost \div 2, "BUILD_COMMAND_NO_MONEY") >>

BuildCmdUpdateGameState(p) ==
    /\ \E n \in 0..(MaxPlayers - 1) :
           /\ IsMaxNum(p, n)
           /\ builds' = [builds EXCEPT ![p] =
                  Append(@, [num |-> n + 1, left |-> TurnsToBuild, since |-> turn])]
    /\ money' = [money EXCEPT ![p] = @ - FactoryCost \div 2]
    /\ built' = [built EXCEPT ![p] = @ + 1]
    /\ Handled(p)
    /\ UNCHANGED <<phase, people, oldMoney, income, stock, wait, work,
                   trade, session, loops>>

\* The bytes of this number spell "list".  What is behind it decides whether it is
\* that text, and so does what a parameter points to that an earlier line has set.
ListNumber == 1953720684

MaySpellList(args) == IF args = <<>> THEN "build" \in kept ELSE args[1] = ListNumber

SitesAreEmpty(p, args) ==
    /\ ~turned[p] /\ MaySpellList(args) /\ builds[p] = <<>>
    /\ AnswerOnly(p, "BUILDING_FACTORIES_LIST_EMPTY")

BuildCommand(p, args) ==
    \/ Refused(p, BuildQuestions(p, args))
    \/ SitesAreEmpty(p, args)
    \/ /\ Granted(BuildQuestions(p, args))
       /\ BuildCmdUpdateGameState(p)
       /\ Answer(p, "BUILD_COMMAND_SUCCESS", <<>>)

BuyQuestions(p, amount, price) ==
    << NotTurned(p),
       Ask(~sent["source"][p], "BUY_COMMAND_ALREADY_SENT"),
       Ask(amount > 0 /\ amount <= market.sources, "BUY_COMMAND_INCORRECT_AMOUNT"),
       Ask(price >= market.minPrice, "BUY_COMMAND_INCORRECT_PRICE"),
       Ask(~(money[p] < price * amount), "BUY_COMMAND_NO_MONEY") >>

SellQuestions(p, amount, price) ==
    << NotTurned(p),
       Ask(~sent["product"][p], "SELL_COMMAND_ALREADY_SENT"),
       Ask(amount > 0 /\ amount <= products[p], "SELL_COMMAND_INCORRECT_AMOUNT"),
       Ask(price > 0 /\ price <= market.maxPrice, "SELL_COMMAND_INCORRECT_PRICE") >>

\* Mutant: the request is answered before it is inserted, and is not.
RequestUpdate_Forgotten(k, p, amount, price) ==
    /\ sent' = [sent EXCEPT ![k][p] = TRUE]
    /\ Handled(p)
    /\ UNCHANGED <<phase, people, accounts, stock, plants, requests, report, granted,
                   bids, offered, session, loops>>

\* BuyCmdUpdateGameState and SellCmdUpdateGameState.
RequestUpdate(k, p, amount, price) ==
    /\ requests' = [requests EXCEPT ![k] =
           Insert(@, p, [amount |-> amount, price |-> price])]
    /\ sent' = [sent EXCEPT ![k][p] = TRUE]
    /\ Handled(p)
    /\ UNCHANGED <<phase, people, accounts, stock, plants, report, granted,
                   bids, offered, session, loops>>

BuyCommand(p, args) ==
    /\ Len(args) >= 2
    /\ \/ Refused(p, BuyQuestions(p, args[1], args[2]))
       \/ /\ Granted(BuyQuestions(p, args[1], args[2]))
          /\ RequestUpdate("source", p, args[1], args[2])
          /\ Answer(p, "BUY_COMMAND_SUCCESS", <<args[1], args[2]>>)

SellCommand(p, args) ==
    /\ Len(args) >= 2
    /\ \/ Refused(p, SellQuestions(p, args[1], args[2]))
       \/ /\ Granted(SellQuestions(p, args[1], args[2]))
          /\ RequestUpdate("product", p, args[1], args[2])
          /\ Answer(p, "SELL_COMMAND_SUCCESS", <<args[1], args[2]>>)

TurnCmdUpdateGameState(p) ==
    /\ turned' = [turned EXCEPT ![p] = TRUE]
    /\ ready' = ready + 1
    /\ Handled(p)
    /\ UNCHANGED <<phase, free, bankrot, accounts, stock, plants, trade,
                   alive, turn, level, market, loops>>

\* The answer counts who is alive and not ready, after the update.
TurnCommand(p) ==
    \/ Refused(p, <<NotTurned(p)>>)
    \/ /\ Granted(<<NotTurned(p)>>)
       /\ TurnCmdUpdateGameState(p)
       /\ Answer(p, "TURN_COMMAND_SUCCESS", <<alive - ready'>>)

\* The word is compared with the answer's text, and the player stays.
QuitCommand(p) == AnswerOnly(p, "QUIT_COMMAND_SUCCESS")

-----------------------------------------------------------------------------
(* The executor.                                                           *)

registered_commands == {"help", "market", "player", "list", "prod", "build",
                        "buy", "sell", "turn", "quit"}

\* strtok keeps the words where they are, in the player's buffer, and the pointers
\* of the line before are kept where the new line has no word.
MakeCmdTokens(p, line) ==
    IF line.word # "" THEN owner' = p /\ word' = line.word
    ELSE owner' = owner /\ word' = IF owner = p THEN "" ELSE word

\* The server stops: an exception that nobody takes, or a null pointer.
Stops(p) ==
    /\ phase' = "stopped"
    /\ answer' = Nothing
    /\ UNCHANGED <<served, people, accounts, stock, plants, trade, session, loops>>

\* A word that is no command: the search runs past the last one, and throws.
Unknown(p) == word' \notin registered_commands /\ Stops(p)

TooFewArguments(p, args) == word' \in {"buy", "sell"} /\ Len(args) < 2 /\ Stops(p)

\* player without a number, before there was one: a null pointer.
NoTarget(p, args) ==
    word' = "player" /\ args = <<>> /\ "player" \notin kept /\ Stops(p)

\* BuildsData refuses the number of a site above max_players.
TooManySites(p, args) ==
    /\ word' = "build" /\ Granted(BuildQuestions(p, args))
    /\ IsMaxNum(p, MaxPlayers)
    /\ Stops(p)

\* To tell the size of a list of sites throws once it is told.
SitesAreListed(p, args) ==
    /\ word' = "build" /\ ~turned[p] /\ MaySpellList(args) /\ builds[p] # <<>>
    /\ Stops(p)

Execute(p, args) ==
    \/ word' = "help"   /\ HelpCommand(p)
    \/ word' = "market" /\ MarketCommand(p)
    \/ word' = "player" /\ PlayerCommand(p, args)
    \/ word' = "list"   /\ ListCommand(p)
    \/ word' = "prod"   /\ ProdCommand(p)
    \/ word' = "build"  /\ BuildCommand(p, args)
    \/ word' = "buy"    /\ BuyCommand(p, args)
    \/ word' = "sell"   /\ SellCommand(p, args)
    \/ word' = "turn"   /\ TurnCommand(p)
    \/ word' = "quit"   /\ QuitCommand(p)
    \/ Unknown(p)
    \/ TooFewArguments(p, args)
    \/ NoTarget(p, args)
    \/ SitesAreListed(p, args)
    \/ TooManySites(p, args)

\* PlayerEventHandle and ProcessCommand: what an empty line leaves of the words
\* before is carried out for the player who sent it.
ProcessCommand(p, line) ==
    /\ phase = "play"
    /\ ~free[p] /\ p \notin handled
    /\ MakeCmdTokens(p, line)
    /\ Execute(p, line.args)
    /\ kept' = IF line.args # <<>> THEN kept \cup ({word'} \cap {"player", "build"})
               ELSE kept
    /\ handled' = handled \cup {p}

-----------------------------------------------------------------------------
(* The rest of the server's loop is that of GameSession.                   *)

Silent == answer' = Nothing /\ UNCHANGED <<owner, word, kept>>

LosePlayer(p) == p \notin handled /\ Disconnect(p) /\ Silent /\ UNCHANGED handled

\* The end of a pass, also of one in which all lines were refused.
EndPass ==
    /\ phase = "play" /\ handled # {}
    /\ ready # alive
    /\ served' = {} /\ handled' = {}
    /\ Silent
    /\ UNCHANGED <<phase, people, accounts, stock, plants, trade, session, loops>>

Month ==
    /\ CloseMonth \/ MonthEnd \/ ConnectionError
    /\ Silent
    /\ handled' = IF phase = "newTurn" /\ phase' = "play" THEN {} ELSE handled

NextCommands ==
    \/ \E p \in Players : \E line \in Lines[p] : ProcessCommand(p, line)
    \/ \E p \in Players : LosePlayer(p)
    \/ EndPass
    \/ Month

SpecCommands == InitCommands /\ [][NextCommands]_<<vars, dispatch>>

=============================================================================
