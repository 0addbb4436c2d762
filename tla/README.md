# Management Game: a formal model

TLA+ modules of the server of the *Management* game: its loop and connections, the
lobby, the dispatch of commands, the game and its month end, the messages it tells;
of the bytes between it and its clients; of the client's line editor; and of the
bot with the lexical analyser, the compiler and the stack machine of its scripts.
TLC checks small instances and TLAPS proves what matters most for all sizes. Every
definition is translated from the C++ sources; `PROJECT.json` gives the lines each
one stands for. Paths below are relative to the repository.

## 1. The system

| component | state | operations | interacts with |
|---|---|---|---|
| **Server loop** (`Server.cpp`, `server.cpp`) | listening socket, descriptor sets, signal flags | `Run`: select; timers, then one accept, then one read of each readable client; `GameEventsHandle`; SIGUSR1 reloads settings, SIGINT stops | calls the sessions planner; any exception it does not know reaches `Stop` |
| **Sessions planner** (`SessionsPlanner.cpp`) | up to 8 sessions, one start timer each with the flags `is_launched`, `is_alarmed`; list of bankrupts to kick | seat a client, lose a client, dispatch a command, `GameEventsHandle` | Banker, Player, broker messages |
| **Banker** (`Banker.cpp`) | `lobby_players`, `alive_players`, `ready_players`, month, market level, the two lists of auction requests, `game_started` | setters with range checks, `Insert` of requests, market tables | read and written by every handler |
| **Player** (`Player.cpp`, `RegisteredPlayers.cpp`) | money, stock, factories, list of building sites, last auction reports, flags | `SetNewPlayer`, `SetFree`, setters with range checks | slots of a session |
| **Broker messages** (`BrokerMessages.cpp`, `Command.cpp`, `CommandExecutor.cpp`, `MessageTokens.cpp`, `MGProto.cpp`) | a token array per broker | the commands of a player, the month end, the texts sent | changes Banker and Player |
| **Sender, Receiver, Utility** | byte counters | `sendall`, `readline`, `heap_sort`, strings | sockets |
| **Config, Logger, exceptions** | settings | load and range-check a JSON file | all |
| **Client** (`client.c`, `clientCore.c`, `Input.cpp`) | line buffer, cursor, history | edit a line, print what the server says | socket, terminal |
| **Bot** (`bot_mg.cpp`, `botCore.cpp`) | the game as told by the server | play by a script | socket, interpreter |
| **Bot language** (`LexemAnalyzer.cpp`, `SyntaxAnalyzer.cpp`, `Poliz*.cpp`, `LabelsList.cpp`, `OperStack.cpp`) | automaton state, operator stack, labels, postfix program, operand stack | lex, parse, run | bot |
| `nlohmann_json.hpp` | – | vendored, not modelled | Config |

### What is hard in it

The server is one thread, so there are no data races. What it has instead:

* **Order within a pass.** `select` reports several connections at once and they
  are handled in descriptor order before the game events. Who ends a turn and
  who leaves in the same pass is decided by that order.
* **Two counters instead of a set.** The month ends when `ready_players ==
  alive_players`. Both are counted up and down by different handlers
  (`Turn`, `QuitPlayer`, `QuitBankrotPlayers`, `PrepareSessionState`,
  `PrepareNewTurn`) and neither is computed from the players.
* **State kept from one month to the next**: request lists that are never
  emptied, auction reports that are never reset, building sites that age, stock
  on which old requests still have a claim.
* **A list changed while it is walked**: `CheckBuildingFactories` deletes the
  site it stands on and starts again.
* **Steps that fail half way**: a setter that throws after others have been
  called, up to the stop of the server.
* **Timers** whose flags are set in one handler and read, as a copy, in another,
  in the same pass.
* **Objects of the whole server that keep what they were given last.** The command
  executor keeps the words and parameters of an earlier line, of another player; the
  three message brokers keep the tokens of an earlier message, of another session.
* **A stream of bytes that may be cut anywhere.** A line comes in parts, or several
  lines come in one read, and both ends look for line feeds and zero bytes.
* **Signals** at any point of the loop: SIGINT ends it, SIGUSR1 changes the settings in
  the middle of a game, `max_players` among them, by which arrays were sized.
* **Letters of one and two bytes** in an editor of bytes, offsets and counters.
* **Lists linked by hand**, one piece of code for each kind of element.
* **Two parties that lag behind each other.** The bot executes its script while
  lines of both directions are on their way, halts and resumes it by what it is
  told, and asks questions it does not wait to be answered.
* **A compiler that tries.** What an operator is, is found by trying one form after
  another on the lexems that follow; operands are put out forwards, backwards or
  turned round twice by code written once for each pair of kinds.

For each component the properties that make it correct are those of its runs in
section 3. The hazards of `PROJECT.json` give the lines where each difficulty bites and
the properties that would show it going wrong.

### Taken as working

The integrated server cannot run as written: the pieces that connect the
handlers are unfinished. The modules model the *handlers* and take the following
as doing what the call sites mean. They are hand-over bugs found by reading, not
by a run:

* `server.cpp:28` makes a `std::string` of a null pointer, which throws what nothing
  catches; `RegisteredPlayers` (`RegisteredPlayers.cpp:9-20`) allocates the players
  and stores them in a local variable.
* `IsPlayerFd` (`SessionsPlanner.cpp:319-341`) does not look at the descriptor and
  returns the first player seated.
* `TakeMessage` (`BrokerMessages.cpp:85-99`) returns the base class's message;
  the `PutMessage` loops (118-132 and others) stop after the first token.
* `CheckMessageCode` (`BrokerMessages.cpp:252-259`) rejects the codes 13..17 of
  its own table.
* `Item<U>(U)` (`List.cpp:7-12`) does not store its argument; the lists of sites and
  requests hold what was inserted.
* The client and the bot compare an answer's first word with `HELP_COMMAND`,
  `MARKET_COMMAND`, `PLAYER_COMMAND`, `LIST_COMMAND`, where `MGProto.cpp` says
  `..._SUCCESS`.
* `concat_tokens` (`Utility.cpp:299-318`) reads every token from the place it has
  reached in its output, so a message is its first token and little else. What it
  literally does is in `Utility` (`OnlyTheFirstIsWhole`); the messages of `Brokers`,
  `Commands` and `Bot` have all their parameters.
* `PlayerEventHandle` (`SessionsPlanner.cpp:573`) compares a command's word with
  the answer's text, so `quit` is answered and does not quit. This one *is*
  in the model: leaving is only the loss of a connection.

## 2. The modules

| module | what it is |
|---|---|
| `Market` | The bank's tables, the market of a level, the levels a dice roll leads to. No state. |
| `Rounds` | Abstract: the months of a game as sets of players and a month end that happens at once. |
| `GameSession` | One session from the start of its game: the commands that change it, loss of a connection, month end. |
| `GameSessionProperties`, `MCGameSession` | Its properties, and the statement of the repository's README it does not keep; the requests players make in its runs. |
| `Requests` | The loop of `SortRequestsByPrice` as it runs, array by array. No state. |
| `Lobby` | All sessions before their games: seats, `lobby_players`, start timers, `CheckStart`. |
| `Connections`, `ConnectionsProperties` | `Server::Run`: select, accept, reads, both signals, reload, bankrupts, and the identity of those who sit at a table. |
| `Messages` | The codes of `MGProto.cpp` and the parameters their readers take by position. No state. |
| `Commands`, `CommandsProperties`, `MCCommands` | From a player's line to the answer; implements `GameSession`. |
| `Brokers`, `BrokersProperties`, `MCBrokers` | How several sessions tell their players through shared brokers. |
| `Wire`, `WireProperties` | The server's messages byte by byte, from `SendMessage` to the reader's lines. |
| `Settings` | `Config::Load`, the start of the server and the reload, and what is said of them. No state. |
| `Records` | Constructors, copies and resets of `Player`, `Banker`, `MarketData`, `BuildsData` and others with their range checks, and what is said of them. No state. |
| `Utility`, `UtilityProperties` | `heap_sort`, `itoa`, `delete_spaces`, `cut_str`, `concat_tokens` as they run. No state. |
| `LineEditor` | Abstract: a line of letters, a cursor, lines entered before. |
| `Input`, `InputProperties`, `MCInput` | The client's line editor on bytes, offsets and counters; implements `LineEditor`. |
| `LexemAnalyzer` | The automaton of the lexical analyser over classes of characters. No state. |
| `Poliz` | The Polish notation between compiler and machine: elements, what the arithmetic ones compute, where a false condition leads. No state. |
| `Lists`, `ListsProperties` | The hand-linked lists: elements, lexems, labels, operands, operators, variables' addresses, sites, requests. No state. |
| `SyntaxAnalyzer` | The compiler of game scripts, from lexems to Polish notation. |
| `ScriptLanguage`, `ScriptProperties` | The reference: scripts as trees, how they are written and what they mean; the example scripts, among them the repository's `game_scripts/example.txt`; that programs compile to what they mean. Recursive; for TLC only. |
| `SyntaxAnalyzerProperties`, `MCSyntaxAnalyzer` | What lexical analyser, compiler and lists have to keep; the scripts they are checked on. |
| `Bot` | The bot's loop and its stack machine, and the server's session as the bot sees it. |
| `BotProperties`, `MCBot` | What the bot has to keep; the compiled programs it is checked with. |
| `GameSession_proofs` (of `Commands` too), `Brokers_proofs`, `Lobby_proofs`, `Connections_proofs`, `Wire_proofs`, `Bot_proofs`, `Input_proofs`, `SyntaxAnalyzer_proofs` | The theorems (section 5). |

How they fit together:

                Rounds  <== implemented by ==  GameSession  <== implemented by == Commands
                  ^                                 ^
                  |                                 | starts as
            Bot's server                          Lobby      Connections, Brokers: the same
                                                             server seen from its loop, and
                                                             from those who are told
                LineEditor <== implemented by == Input

`Lobby` ends where `GameSession` begins: a session enters `started` with
`alive_players` set and some of the first `alive_players` seats taken. `Init` of
`GameSession` allows exactly these states, and `StartsAsGameSession` (checked and
proved in `Lobby`) says that no game starts in another.

A function that keeps nothing between its calls has no behaviours to check. What is
said of such functions (`Settings`, `Records`, `Utility`, `Requests`) is a named
`ASSUME` over small inputs; TLC evaluates it before it starts the run whose module
extends it (`commands`, `brokers`, `line_editor`). The
lists and the lexical analyser are such functions too, but are checked as invariants of
`scripts`, for each script that is compiled.

### Rounds

`present` are the players in the game, `ended` those who have ended the turn. `ghosts` is
how many have left after ending it, which the session goes on counting as ready, and
`missing` how many left the lobby, which it counts as alive. A month ends when
`|ended| + ghosts = |present| + missing`. That `GameSession` implements it says that its
month end, thirty steps and more through auctions, sites, charges and bankrupts, is
to the players one step that takes bankrupts out and nobody else, that no turn is lost
or counted twice on the way, and that the two counters mean what they should. `Bot`'s
server, much shorter, implements the same.

### GameSession

Variables carry the names of the fields they stand for. `free`, `money`,
`sources`, … are functions of the seat number, which is the player's UID;
`builds[p]` is `builds_factories` in list order, `requests[k]` is the session's
list for auction `k`. `since` in a site and `granted` are history: the month a
site was ordered in, and what each player was granted in the last auctions.

`phase` says where the server's thread is. In `play` it handles commands: each
connection at most once a pass (`served`). `NextPass` ends a pass when the
counters differ; `CloseMonth` ends it when they are equal, and then no command is
enabled until `PrepareNewTurn` is done, as the month end is one call:

    openSource -> grantSource -> openProduct -> grantProduct
               -> builds -> charges -> bankrots -> newTurn -> play

Loops whose iterations matter take a step each: one request of an auction
(`PassOver`, `Trade`), one visit to a building site (`Age`, `PaySecondHalf`,
`CannotPayHalf`, `Complete`). `PayCharges` and `QuitBankrots` are one step, as
what they do to one player is independent of the others.

Two phases are ends. `stopped` is `Server::Stop` after an exception: a building
site whose number does not fit (`BuildOverflow`), products taken that are not
there (`Oversold`), a connection that fails (`ConnectionError`). `undefined` is
undefined behaviour: the sort's arrays written or read outside their bounds
(`SortOverrun`), or a null pointer followed (`MissingBidder`). The C++ standard
promises nothing after that and the model has no step from there.

A command that is refused changes nothing of the session, so `GameSession` has no
action for it; `Commands` has, and for `player`, `list`, `market` and `help`.

`SortRequestsByPrice` is modelled by what it yields. The sorted prices are looked
up one after the other; the first search starts at the first request and every
later one at the second. `Found` is the set of requests such a search meets;
`Sorted` puts it in the order of price, then of the list. `Requests` has the loop with
its arrays, and `SortsAsItRuns` (in `MCCommands`) compares the two for up to four
requests of three prices.

### Lobby

`taken[s]` are the seats that are not free, `closed[s]` those whose socket the
server has closed without freeing the seat. `armed` is the kernel's timer,
`launched` and `alarmed` are the flags. `accepted` and `served` keep the order
within a pass: timers come before the listening socket and the socket before the
players. `GameEventsHandle` is the end of a pass for all sessions, with the flags
read once, before a timer may be launched again.

`Leave` frees a seat and changes no counter: `SetAlivePlayers(-1)` throws after
`SetFree`, and the exception is taken by `IncomingEventsHandle`. `JoinOverfull`
is the same in the other direction: the seat is given, then `SetLobbyPlayers`
throws and the socket is closed; the next `select` has a closed descriptor in its
set, fails, and the server stops.

### Connections

One session, the loop of `Run` around it, and clients that are their own descriptors.
`at` is where the thread is: at the head of the loop (`top`), in select (`waiting`), with
reported descriptors (`handling`), in `readline` (`reading`), at the game events. What a
client has sent and the server has not read is a sequence of pieces: a whole line, the
start of one, the rest of one. `Receive` goes to read one player and stays there until a
line is complete or the peer is gone; `Hear` keeps the first line and drops all that came
with it. Signals may come in any state: SIGINT interrupts select and a read and is
obeyed, else it is seen at the head of the loop; SIGUSR1 restarts a read (`SA_RESTART`)
and loads the settings at the head of the loop, and with a file that is no JSON ends the
program (`ReloadFails`).

`max_players` may be loaded with more than was allocated (`undefined`: arrays are read
past their end) or with less: then seats above it are no longer watched, and
`QuitPlayer`, `QuitBankrotPlayers` and `CheckStart` fail on counters that are too great.
The sockets of who leaves the lobby, and of bankrupts, are never closed: `QuitBankrotPlayers`
fills a copy of the list that `KickBankrotsException` is thrown for
(`BrokerMessages.cpp:764`). The flags of a seat, `known` and `bot`, are
kept for the next client; `first` is history: who was heard first there.

### Wire

One direction and one reader: `SendMessage` puts text, `\n` and `\0` into `out`,
`sendall` moves as much as the connection holds, and each read takes any part of what
has come. `readline` goes on until it has a line feed, then takes what it has for a
string, so what is behind the first zero is lost: two messages read together lose the
second (`merged`), and one parted between its line feed and its zero leaves a zero that
the next message is lost behind (`cut`). Where the code reads what was never written,
the reader is `undefined`: a read that begins with the line feed, one that fills the
buffer to the last byte (the zero is put after it), and a tail that is a single bar.

### Messages, Commands

`Messages` gives for every code how many parameters the client and the bot take by
their position, for the queries and the news what a bot is sent and what a human.

A line in `Commands` is its first word and the numbers that follow. `MakeCmdTokens`
keeps the words of the line before when a line is blank: `owner` and `word` say whose
and which. From the sender's own buffer the old word is gone (an unknown command);
from another's it is executed for the sender. `kept` are the commands whose parameter
an earlier line has set: `player` without a number then follows a pointer to a variable
that is gone, and a null pointer before (`NoTarget`). An unknown command is an exception
that stops the server, and so are `buy` and `sell` with less than two numbers. `build X`
is refused, and all later `build`s of anybody with it; only the number whose four bytes
spell `list` is taken, and then `list`'s length is asked of a function that has no
`return` and throws, unless there is none to list (`SitesAreListed`, `SitesAreEmpty`).

Each command asks what the code asks in its order, and each way to be refused has its
answer. What an accepted one does to the session is the action of `GameSession`, which
`ImplementsSession` then says it to be, which is checked and proved: that no refusal changes anything, and nothing
is done to a session that `GameSession` would not allow.

### Brokers

Three brokers, objects of the server, get their parameters as tokens and keep them:
`GameEvents` for a session, `MulticastActionsExec` for its auctions and its players,
`GameMessages` for a message. `broker` holds the tokens, what each of the three took of
them last, and `told`, the messages of the step. Of the sessions there is as much as
messages depend on (who is seated, the counters, the timer), and a month end tells what
its steps tell in the code's order: auctions, results, building sites, charges,
bankrupts, new month; `Due`, `cannot` and `all` choose whose site comes due, who cannot
pay and whether anybody has produced.

Every multicast is a loop over the seats (`EachSeat`), which passes by the seats without a
note. A note is what the loop's body does for one player: it puts a parameter, unless the
field is `NoField`, and sends a message, unless the code is `Silence`; a new month sends
some players two messages, so there is a first note and a next. `QuitEach` is the loop over
bankrupts around the loop over those who are told of them. The run's `VIEW` leaves
`told` out, which is of the last step only and which no step reads.

A parameter is a fact about a session or a player, so that a wrong one is seen. Told
wrongly, and left out of `TellsItsOwn` by name: `NEW_PLAYER_CONNECT` and
`AUCTION_RESULTS` are written without a `PutMessage` of their session, and tell of the
session that was put last; `PLAYER_BANKROT` gives the charges of whoever of the session
paid last. A first client on a fresh server makes `GameMessages` use a session number
that was never set (`Init` chooses it): it may be none, then the exception leaves the seat
taken with a closed socket, and the next select stops the server (`NewClient`). `LOST_LOBBY_PLAYER` is
never told, as `SetAlivePlayers(-1)` throws before; `STARTING_GAME_INFORMATION` is told
before `alive_players` and the month are set. Victory is told to the first seat left
when `alive_players` is at most one.

### Settings, Records, Utility

`Load` takes key after key, passes over a number out of its range, and ends with an
exception at a text where a number is wanted; nothing catches that one, at the start or
in a reload. `ReloadingIsRestarting`: a file loaded into a running server gives what a
start with that file gives, as what the file does not have is the default and not what
was there; except an absent file, which changes nothing. `ALobbyMayNeverStart` is the
pair of keys whose ranges do not look at each other. `SettingsCanBeLoaded` says of the
instances of `GameSession`'s runs that a file could give them.

`Records` has the setters in the order in which constructors, copies and moves call
them: a copy is equal to its source, a default `MarketData` or `BuildsData` and any move
throws, `Reset` makes a seat new but `SetFree`, which is what is called, does not
(`FreedKeepsFlags`). `CleanPlayer` would keep counters and requests right
(`CleaningCounts`); nothing calls it.

`Utility` has the loops of `heap_sort` (whose "ascending" is descending), `itoa` (which
keeps the last digits of a number too long for its buffer, and writes a negative one of
full length past its end), `delete_spaces`, `cut_str` and `concat_tokens`; the
assumptions of `UtilityProperties` say what each computes, the odd cases included.

### LineEditor, Input

`Input` has the buffer as bytes, the end of the line, the cursor as a distance from the
end, two counters of letters that say whether another fits, and the history. A step is
one read of the keyboard. `LineEditor` is what that is to who types; `ImplementsEditor`
maps bytes to letters. What the code does beyond an editor is in both: `Down` at the
bottom puts back the draft made by the first `Up`, so
that what was typed since is lost; before any `Up` there is no draft and the buffer is
used unwritten (`works` is `FALSE`); the draft outlives the line it was made for. A read
of four bytes deletes, whatever it is, since `Input.cpp:813-816` and `834-840` ask
whether a `std::function` holds something and do not call it: two cyrillic letters that
come in one read delete a letter. `END` on an empty line hands over the line before.
The repository's own `client.c` does not use the class.

### LexemAnalyzer, Lists

`LexemAnalyzer` is the automaton of `Run` with its buffer and its list. A symbol is a
character or several of one class; the states' functions are in the code's order.
`ReadsAsWritten` has every script of the run written in characters and read back, with
all blanks between its lexems, with none that may be left out, and with one left out at
each place. What the automaton loses: unknown characters; the number before a `)` and
the colon of `@a :`; a pending word at the end of the file; a variable directly before
`:=`, so that `$x:=5` is not an assignment. `!=` is two lexems.

`Lists` has for each hand-linked list its nodes by address, its insertions and
deletions as the code links them, and says in `ListsProperties` that list for list
they are sequences: whatever is inserted and deleted, forwards, backwards where there
are such links, the length, the first of a name, nothing left after a clear. A
variable's address is its element's number and stays its own after deletions.

### SyntaxAnalyzer

One step per pass of `Run`'s loop, which compiles one operator. `lexems` is the
script; a lexem is its type and its text (a number's value in `n`), as `LexemAnalyzer`
makes it. `operators_list`, `vars_list` and `labels_list` are the code's
lists; `starts` is history: where every operator begins. The three recognisers of an
operand (`VarRValue`, `Arithmetic`, `GameStatement`) are tried in that order
everywhere (`Operand`), and say `yes`, `no` or `undefined`, the last for a null
pointer that is followed. A script that is refused clears the list, as in the code,
and keeps the variables it has declared.

What the compiler does to scripts beyond the forms of `ScriptLanguage`, each found by
`scripts` or by hand and kept in `Careless` so that the runs meet it:

* `1 + 2 + 3`, `buy $x, $y`, `?raw(1)` follow a null pointer: an operation must bind
  tighter than the one before it, and a chain must rise.
* `$x := $x + 1` assigns `$x`: a value that begins with a variable is that variable,
  and the rest up to the semicolon is not looked at. So is `?turn - 1`.
* `$x - 1` in a condition is `$x` and `-1`: two operands where one is taken.
* `@a: prod 2; … if $x then endturn;` compiles to the condition `2`: a labelled order is
  tried as an `if` first, whose word is not compared.
* `buy 1+1, 5`, `print $x`, `( $x )` and a jump forward are refused.
* `sell ?production(?my_id), 5` puts the operands out in the wrong order; `buy -2, 5`
  negates the price.
* `@a: 1 * 2 then endturn;` is accepted: what is behind a label is tried as an `if`, and
  the word that should be `if` is skipped. `buy 1+2; print 3, 2;` is accepted too, as the
  comma of an order is sought in the rest of the script, and so is
  `@a: buy 1 * -2, 2;`, whose minus has been rewritten by the first try.
  The attempt to prove `BalancedOperators` led to these three; `IllFormed` names them
  with the others that leave a wrong number of operands.

### Bot

`toServer` and `toBot` are the lines on their way, in order. With `link = "prompt"` none
is lost; with `merging` a read may lose those that came with another (`Wire`,
`Connections`). One step is one line read, one element evaluated, or one step of the
server. What the bot knows of a player is one number (`raw`) that stands for the
record's fields, and whether the record is there: `freed` is the pointer
`LOST_ALIVE_PLAYER` leaves behind, and following it is `undefined`.

A function of a player is evaluated twice (`Question`, `Answer`): the first sends
`player N` and stays, the second takes the record of the player told of last.
`Answer` needs no answer to have come, as `select` returns at the latest after its
timeout, which is one second in the first pass and, counted down by the kernel,
nothing once it is used up. Orders with a wrong number of operands send nothing
(`Unused`), and `endturn` with any operand left sends nothing and goes on.

The server's side is `GameSession` reduced to what the bot sees: turns, leavings, and
a month end that tells results, bankrupts and the new month in one go. Its counters
are the code's: `Ready` counts who left after ending the turn. `early` is history: a
month has ended without the bot's turn, so lines of the old month may still be on their
way.

## 3. The runs

All bounds are constants of the `.cfg` files. `CHECK_DEADLOCK FALSE` is given in
every run since the system may really stop (`stopped`, `undefined`) and since
`MaxTurn` ends a run's games; a compiler that has read its script is done, and a bot
whose program broke stands still.

### Passing

| run | instance | properties | what it shows |
|---|---|---|---|
| `market` | 2 players, 2 months, two requests of different price and amount for each auction, dice 1 and 12 | `SupplyRespected`, `BiddersArePresent`, `PricePriority`, `SolventInPlay` | the bank never sells or buys more than it announced; no null bidder when nobody was lost in the lobby; a dearer request is never overtaken; nobody starts a month with a debt, though an auction may make one |
| `counters` | 3 slots, 2 months, up to one player lost in the lobby, little money (bankrupts) | `CountersCoverPlayers`, `ImplementsRounds` | the two counters stay in range and cover the players; the session with its walk through the month end is `Rounds` |
| `factories` | 2 players, 4 months, building time 2, low monthly charges and money for a few sites, so that a site can be ordered after another is completed | `BuiltCountsSites`, `BuildsOnSchedule`, `GoodsMoveInAuctionsOnly`, `FactoriesAreOrdered`, `MonthEndFinishes` | each month end takes exactly one month off each site in spite of the restarted walk; numbers of sites are distinct; goods and factories are conserved outside the auctions and the orders; every month end comes to its end |
| `lobby` | 2 sessions of 3 seats, 2 to start | `SeatsWithinLobby`, `CountdownRuns`, `StartsAsGameSession`, `EnoughStart` | newcomers fill gaps, so seats stay among the first `lobby_players`; a session with enough players is never without a countdown and is started; no game starts in a state `GameSession` does not start in |
| `connections` | 2 clients, one of them a bot, 2 seats, 2 lines, 1 SIGUSR1 that sets `max_players` to 1 or 3 | `NobodyUncounted`, `BotByTheFirst`, `ClosedByAFullCounter`, `HeardInTheEnd`, `ExitIsObeyed` | nobody who sits at a table with an open socket is missing from the counters; a seat is a bot's when the first client heard there was; the only closed socket that is watched is that of a client turned away by a full counter; whoever is watched is heard; SIGINT ends the server wherever it comes |
| `commands` | 2 players, a human with 19 lines and a bot with 3, 1 month to its end | `ImplementsSession`, `AnswersFit`, `RequestsAreKept` | the dispatch with what it keeps between lines is `GameSession`; every answer has the parameters its reader takes; who is told that a request was taken has it in the list |
| `brokers` | 2 sessions of 3 seats, 3 clients at once, 2 to start | `TellsItsOwn`, `LeaversAreTold` | whatever was told before to whom, a player is told of himself and of his game, with as many parameters as he reads; each leaving is told once to all who stay |
| `wire` | 4 messages of 1 or 7 bytes, buffers of 8, a connection that holds 6 | `NothingInvented`, `LostOnlyByMerging`, `ServerGoesOn` | a line is a message or its tail, never twice and never overtaken; nothing is lost but what was read together or parted at its zero; `sendall` never waits for ever |
| `line_editor` | a space and one cyrillic letter, lines of 2 letters, 2 lines of history, every key | `NoHalfLetters`, `ImplementsEditor` | line, cursor and history never cut a letter; every read does what its key does to letters |
| `scripts` | 420 scripts: expressions of every operation and every rising pair, every kind of operand in every place, labels, jumps and conditions; and those the compiler mishandles | `ReadsAsWritten`, `CompilesAsWritten`, `LandsOnOperators`, `BalancedOperators`, `ListsAreSequences` | lexems are read as they are written, and which blanks are needed; programs of the supported forms compile to what they say; jumps and skips end at an operator; every operator finds its operands and leaves none; the linked lists are the sequences they are taken for |
| `bot` | 3 players, 2 months, two compiled programs, both links | `RunsClean`, `QuietAfterTurn`, `KnowsWhoPlays`, `MonthsGoOn`, `ImplementsRounds` | a well compiled program never throws and never leaves operands behind, whatever comes in between; nothing is sent between the turn and the new month; with lines read one by one the bot knows how many play, and bot and server never wait for each other; the server is `Rounds` |

`commands` and `brokers` give TLC a `VIEW`: what the last step answered or told, and what
`GameEvents` was given, are not told apart. No step reads them, and the properties look
at them as a step leaves them, which TLC checks of each step before the view is taken.

Each property has a mutant in `PROJECT.json`: a bug of the modelled code under
which the same run finds it violated.

**Why the bounds are enough.** Two players give a first and a second request, an
auction that runs out between them, one player that leaves while the other plays,
and a walk that goes on from one list to the next. The third slot of `counters`
lets one leave or go bankrupt while two differ in having ended the turn. Two months
to their ends and the beginning of a third let a request of the first outlive its
player's next one; four months with a building time of two let sites of different age
be in one list and two of them be completed in one walk. The dice rolls 1 and 12 move
the market in both directions. In `market` and `counters` production and building cost
more than anybody has: they are looked at in `factories`, where in turn there are no
requests. What depends on more players or months than that is what the proofs are for.

In `connections` two clients on two seats are enough for a seat to be given again, for
a counter that is full with a seat free, and for a `max_players` below and above what
was allocated; two lines, for one behind another in the same read and one in parts. In
`commands` one player's words are left for the other, who sends a blank; a month and
the beginning of the next meet parameters and requests of the month before. In
`brokers` two sessions are told of in every order, and three clients let two games run
at different sizes, though not both with two players and more. In `wire` four messages
let one be lost and the next two be read right again; seven bytes are one more than fits
a buffer of eight, the connection holds a message of one byte twice but one of seven
only in parts. In `line_editor` a line of two letters has every place for a cursor and
for a letter of either size; two lines of history one to forget.

The scripts have at most nine operators; every rule of the compiler looks at one
operator, at what is before it (labels, variables) and, when it seeks a `then` or a
comma, at what follows, so each occurs with something before and after it. In `bot` the
third player lets somebody leave, end the turn or go bankrupt while the game goes on;
the first month is told by the line that starts the game and the second by `NEW_TURN`,
and in the months both links and every order of the lines are met. `Cluttered`, the
second program, is the compiler's own result for a careless script: it is what a turn
that is not sent looks like.

### Violations

`early_month` states what the repository says of the program; TLC shows how the code
departs from it. README.md:168: the month ends when all players have ended their turn.
Who ends the turn and leaves stays in `ready_players`, so the month ends without
another player's turn.

Met on the way and not made a run:

* README.md:164 and 168, auctions every month on the requests of that month: the lists
  are never emptied, and a request trades again in later months;
* `Config.hpp:16` with `clientCore.c:275`, the number of players a start needs: who
  leaves the lobby is still counted, and a game starts with one player;
* README.md:78, a comparison gives 1 when it is true: the operand popped first, the right
  one, is compared with the left one, and `3 < 2` is 1;
* README.md:112, `?raw(n)` gives the sources of player `n`: the second evaluation does not
  wait for the answer and takes another player's record;
* README.md:83, no blank is needed around `:=`: `$x:=5` is no assignment;
* README.md:164, the bank tells all the results: `AUCTION_RESULTS` may be another
  session's (`Brokers`), as may `NEW_PLAYER_CONNECT`;
* `WAIT_FOR_NEXT_TURN` is sent without a number, and client and bot give the missing one
  to `atoi`; the client has texts for eight facts of a start and takes nine;
* a blank line executes what another player sent (`Commands`); one `build 1` spoils
  `build` for everybody; an unknown command stops the server, though there is an
  answer for it;
* four bytes of the keyboard delete a letter, whatever they are (`Input`);
* the other side of `early_month`: with a player lost in the lobby or a ready player
  gone, the counters pass each other, everybody has ended the turn and the month goes on
  for ever (what remains true is the theorem `DriftNeverChanges`);
* the search in `SortRequestsByPrice` goes on at the second request (`i = 0`, then
  `++i`), so requests are left out although there is enough for them; `PricePriority`
  says what remains true;
* the results are told of the first `ready_players` slots, whoever has left
  (README.md:164 says everybody's);
* a factory ordered with five months to go works in the sixth (README.md:166 says the
  fifth): due at one and done at zero are told apart in different month ends;
* reports of trades survive months without a trade (README.md:116 says zero);
* `Build` has no limit other than money while a site's number has one, and an old
  product request takes products that have been sold since: the actions
  `BuildOverflow` and `Oversold`.

## 4. Fairness

`GameSession!FairSpec` asks for weak fairness of `NextPass`, `CloseMonth` and
`MonthEnd`: the loop of `Server::Run` goes on by itself (`select` has a timeout of
half a second) and nothing a player does is needed. No command is fair: a player may
never send one. `Lobby!FairSpec` asks for weak fairness of `GameEventsHandle` for the
same reason and for strong fairness of a timer: a pass may begin with a client, so a
timer is not enabled without a break, but timers come first in a pass and a timer
that has run out is not overtaken for ever. Both assume that reads return: `readline`
(`Utility.cpp:261`) goes on reading one connection until it has a whole line, which is
what `Connections` is about.

`Connections!Spec` asks for weak fairness of the server's loop, and that a client who has
sent the start of a line sends its rest or is gone: the repository's clients send a line
in one call. Without the second, one client who sends half a line keeps everybody else
from being heard for ever, and `HeardInTheEnd` fails. Nothing is asked of other lines, of
clients' coming and going, of signals. `Wire!Spec` asks for weak fairness of the reader,
whose loop of select and `readline` goes on by itself, and of `sendall`, where `send`
takes some bytes when there is room. `factories` runs under `GameSession!FairSpec`.

`SyntaxAnalyzer!Spec` asks for weak fairness of the loop of `Run`. `Bot!Spec` asks for
weak fairness of the bot's reading and evaluating, whose loop goes on by itself, and of
the server's reading the bot, ending a pass and ending a month; none of the other
players, who may never end a turn. So `MonthsGoOn` says no more than that it is not the
bot the month waits for.

## 5. The proofs

All theorems hold for every value of the constants that `SettingsAssumption`,
`BoundsAssumption`, `LobbyAssumption`, `ConnectionsAssumption`, `WireAssumption`,
`BrokersAssumption` and
those of `Bot` and `Commands` allow.
They are weaker than the limits of `Config::Load`; TLC evaluates them in every run of
their module. `ProgramsAssumption` of `Bot` is what the compiler gives: elements the machine
knows, an address of a variable that is there, labels that are places of the code.

**GameSession.** `TypeOK` alone is not inductive: that `ready + 1` stays in range
needs to know that who may still end the turn is not yet counted, and that
`built - 1` is a number needs the list to have a site. The inductive invariant is

    IInv == TypeOK /\ CountersCoverPlayers /\ BuiltCountsSites /\ Solvency /\ Schedule

* `CountersCoverPlayers` relates both counters to sets of players. Its proof is
  about cardinalities: a turn moves one player from `Waiting`, a disconnect or
  a bankruptcy takes players from `Present`.
* `Solvency` says in which phases bankrupts and debts exist. It gives
  `SolventInPlay`.
* `Schedule` says of every site how much of its time is left, by phase and by where
  the walk is. The restart of the walk is the hard case: `Complete` moves `node` back
  to 1, which would claim that the sites before it have not been visited. The lemma
  `CompletedIsFirst` resolves it: sites stand in the list in the order of their
  orders (`OldestFirst`), one with nothing left is older than all that have been
  visited, so a completed site is always the first of its list and nothing had been
  visited before it. It gives `BuildsOnSchedule`.

From `IInv` follow the theorems `TypeCorrect`, `CountersCover`, `SitesCounted`,
`Solvent`, `OnTime`, and the action properties `GoodsMove` and `FactoriesOrdered`.

**GameSession implements Rounds.** The mapping (`Session` in `GameSessionProperties`)
takes who is present and not a bankrupt waiting to be taken out for `present`, those of
them who have ended the turn for `ended`, and how far the counters are off for `ghosts`
and `missing`. `SessionImplementsRounds` goes through the actions; besides `IInv` it needs
`EqualWhileClosing`, that the counters are equal from `CloseMonth` until bankrupts are
counted, and `DriftNeverChanges`: how far `alive_players` is from who is present was
decided in the lobby. With it the two promises of `Rounds` are theorems of the session:
`EndsRight`, without ghosts and missing players equal counters mean that everybody has
ended the turn, and `TurnsLast`, a turn is taken back by the month's end only. Both are
about the session's variables, behind the mapping. `ServerImplementsRounds` is the same for `Bot`'s server, with a type
invariant of its session.

**The auctions.** The second half of `GameSession_proofs` says of each auction, for any requests,

    AInv == Bids /\ \A k \in Kinds : Supplied(k) /\ Ranked(k)

* `Bids`: nobody has two requests in a list, as `Insert` drops the second, and nothing is
  pending outside the auctions.
* `Supplied` counts: what is granted, taken as the set of its units, and what is left of
  the supply are together what the bank announced. A trade gives the lesser of
  what is asked and what is left, to one who has got nothing yet, because of `Bids`. It
  gives `SupplyRespected` (`SupplyKept`).
* `Ranked`: who outranks somebody with a grant has all he asked for, and those who are
  still pending are in order, have got nothing and are outranked by all who have. That
  `SortRequestsByPrice` leaves requests out does no harm: `Found` is closed under
  outranking. It gives `PricePriority` (`PriceGoesFirst`).

`BiddersStay` proves `BiddersArePresent` under `LostInLobby \subseteq {0}`, that nobody
was lost in the lobby, without which it is false (the null pointer is the action
`MissingBidder`). Its invariant ties `ready` and `alive` to sets exactly: when a
month ends `ready` is the number of those present, so a request of somebody who has left
is one more than the arrays hold, and the sort fails before the auction asks for him.

**Bot.** `BotTypeCorrect` types the machine: every value on its stack is one it has a case
for, each address and label leads somewhere. `BotKnowsWhoPlays` needs what is on its way:

    KInv: what the bot believes = Alive + the losses among the lines not yet read

where a bot that has not read the line that starts the game believes in `MaxPlayers`. A
month end tells several losses and then only as long as more than one stays, so the lemma
`MonthLosses` counts them in the order in which they are told. `BotQuietAfterTurn` rests
on `InStep`: among the lines to the bot at most one resumes the script, and none while it
runs or while the answer to the turn is on its way; among those to the server the turn
is the last. It holds with merged lines too, until a month ends without the bot.

`BotRunsClean` is about programs that are `Sound`: by the kinds of the elements alone, taken in
the order of the code, each finds what it takes and an operator begins with nothing.
`BotProperties` assumes it of `Faithful` programs and TLC evaluates it on those of the run.
The invariant (`InShape`) is that the kinds on the stack are at every time those the shape of the
code has at `cur_cmd`, also while a question is out and its element is to be evaluated
again, and whatever the server says between. No jump leads into an operator, so what a
jump leaves is the empty stack the next operator begins with.

**Compiler.** `Scripts` is any set of sequences of lexems; no theorem says how long they
are or what is in them. The inductive invariant has three parts:

    Typed /\ LaidOut /\ Settled

* `LaidOut`: each operator ends at its first terminator and the next one begins behind it;
  an address in the code has its variable, and a label leads to an operator that has been compiled. A
  lemma for each operator says so of its code alone (`AssignMakes` to `LabelMakes`), and
  `LaidMore` puts it behind the others. It gives `CompilerLandsOnOperators`, and
  `CompilerMakesExecutable`: what is compiled is what `ProgramsAssumption` asks of the bot's
  programs.
* `Settled`: in a script that is not `IllFormed` the code of every operator leads from an
  empty stack to an empty one. It gives `CompilerBalances`. `Leads(c, a, b)` says that a
  code takes the stack from height `a` to `b`, and what is put together leads on
  (`LeadsOn`). For an expression that is read, `Sane` says that what is put out and
  what waits together will leave one operand: an operation that waits has its first operand put out
  or its second still to come, counted from one open parenthesis to the next (`Waits`).
  `Halfway` says what of it holds between two lexems, where `~IllFormed` is needed for
  each pair of them. Operands that the code takes for one lexem are shown to be one
  (`OneLexem`), by what may follow. Each operator that is accepted is then `Balanced`: the
  orders by what `TurnedRound`, `VariableFirst` and `Backwards` do with the code of the
  two operands, `print` by every item. Behind a label the script is rewritten first;
  what the orders need (`Fit`) survives that (`FitRewritten`), while
  `~IllFormed` itself does not.

**Wire.** What is read of a line, what the connection holds and what is still to be sent
are one sequence, `Pending`. `InOrder` says that it is a run: each byte is the one that
comes behind the one before (`After`), and the last one is the last message's zero. So a
read, however long, can be named by where it begins. `Told` says that a line is the end of
a message and that what is pending is behind it: from the text of a message a run goes to
its line feed (`LineOfRun`), a buffer that is full without one began with a zero left over
(`FullBuffer`), whose line is empty. It gives `NothingInvented` (`NeverInvents`). `Kept`
adds that as long as no read ended behind a line feed but before the zero, or took bytes of
two messages, what is pending begins with the message after those shown; it
gives `LostOnlyByMerging` (`LosesOnlyByMerging`).

**Commands implements GameSession.** `CommandsImplementSession` needs no refinement
mapping, as the variables are `GameSession`'s, and one invariant: `ServedAreHandled`
(`ServedWereHeard`), that who is served has been heard, since `GameSession` counts a
refused line as no step and the dispatch counts it. There is a lemma for each command: the questions that
are asked one by one, when all have the right answer, are the guard of `GameSession`'s
action, and when one has not nothing changes. An exception that a line causes is a
`ConnectionError` of `GameSession`, in what it leaves behind. `RequestsAssumption` ties
the lines to the bids: what `buy` and `sell` may say is what `GameSession` may be asked.
So all theorems about `GameSession`, `EndsRight` and `TurnsLast` among them, hold of the
server that reads lines. `TakenIsKept` proves `RequestsAreKept`: no refusal has the code that says a
request was taken, and an accepted one appends it, unless an older one is there.
`AnswersFitTheirReaders` proves `AnswersFit`, command by command: the refusals have the
parameters of their code, the answers of the queries those of the record or the table.

**Connections.** `IInv == Types /\ Sits /\ Sums`. `Types` has the type of every
variable, what is known of a pass (`Passes`: who is reported has a seat, the one that
is read is no longer reported) and whose socket is open (`Opens`). `Sits`: a client has
one seat, and nothing of one who has not been heard has been taken (`Heard`), which
gives `BotsByTheFirst`. `Sums`: the counters against the seats, before and after the
start, with `max_players` changing, which gives `EverybodyCounted` and `WhyClosed`.

**Input.** The line, the copy the history edits and the history's lines are bytes; the
handlers step over one or two of them and count letters beside. `InputInvariance` proves

    IInv == TypeOK /\ Edits /\ Kept

`Edits` says that the bytes are letters joined, that the cursor is between two of them
and that the counters are how many of each kind there are; `Kept` says so of
the lines of the history. As a letter has at most two bytes and a line at most
`MAX_STR_COUNT` letters, no offset leaves the buffer. The lemmas are about cutting and
joining whole strings (`WholeJoin`, `WholeCut`): every string of letters has as many
leading bytes as continuing ones, each before its own (`HalvesMatch`), so the
byte a handler looks at decides which letter is there (`LetterBefore`, `LetterBehind`).
`LettersStayWhole` is `NoHalfLetters` for every alphabet, line length and history.

`InputImplementsEditor` proves `ImplementsEditor`: to who types, the bytes are letters.
`LettersOf` is a recursive function, so the first thing to show is that there is one
(`ParseIs`). It reads one byte or two at the end of a string (`OneMoreByte`,
`TwoMoreBytes`); what holds of no letters and of one letter more then holds of every
whole string (`ByLetters`): a string has as many letters as are counted
(`LettersAreCounted`), and the letters of two strings joined are those of each
(`LettersOfJoined`). With that `EditorSees` says where the cursor is among the letters, and
`NextParts` where it is after a step that leaves two parts. There is one lemma for each
key (`TypeRefines` to `EnterRefines`). The hardest is the deletion of a word
(`CtrlWRefines`), where the handler looks for bytes that are spaces and the editor for
letters that are. Entering a line needs one more invariant, `Emptied`: the handler asks whether
the first byte of the buffer is zero, and bytes of old letters stay behind the
end of a line, but not in a line without letters.

**Brokers.** What is to be shown is about messages that loops write one after the other,
with tokens that keep what was put before. The invariant is short:

    BInv == BrokersType /\ Seated /\ Introduced /\ Over

`Seated`: a session has no more players than it counts. `Introduced`: when somebody has
a seat and the server runs, the messages have been given a session. `Over`: a server that
has ended is not in the middle of its events. The work is in the steps. `Books` says of
the brokers in the middle of one: what each has taken so far is of the session that is
handled, every message told is `Fine` (it fits its reader and tells of its own), and how
many players have been told so often of a loss (`lost`) and of a victory (`won`).
Each multicast has a lemma that takes `Books` to `Books`, with other counts when it
tells of leavers; `Tales` are books in which nobody has yet said which session it is.

A loop keeps what every pass keeps. The library's induction theorems cannot be used, as
they take an operator; the principle for numbers is here, as for the letters of a line,
the lemma `Least`, that a set of numbers has a least element, which is the library's
`WFMin` at a set, and `LoopGoes` follows: when the pass for seat `p` leads from a state of the set `W[p - 1]` to
one of `W[p]`, the loop leads from `W[0]` to `W[n]`. For most loops all `W[p]` are the same
set; for the loop over the bankrupts `W[p]` has the counts after `p` (`Losses`, `Wins`):
`alive_players` without those who have gone decides between a loss and the victory, so
that `OneMoreQuits` adds one to the right count. `ToldOfTheirOwn` proves `TellsItsOwn`,
`LeaversAreMentioned` proves `LeaversAreTold`.

**Lobby.** The four invariants are inductive with two facts about the timers:
`launched = armed`, and a timer runs only for a session with enough players. The key
lemma is `FirstFreeIsNear`: if the seats taken are among the first `lobby_players`,
the first free seat is at most the next one. Theorems: `TypeCorrect`, `SeatsWithin`,
`AlarmFinds`, `CountdownGoesOn`, `StartsRight`.

**Only model-checked.** Liveness (`MonthEndFinishes`, `EnoughStart`, `MonthsGoOn`,
`HeardInTheEnd`, `ExitIsObeyed`, `ServerGoesOn`) is out of the prover's reach. The
properties `ReadsAsWritten`, `CompilesAsWritten` and `ListsAreSequences` of `scripts`
compare with a recursive reference, or are about lists and readers that are folds with an operator
as their parameter. `BotRunsClean` assumes of `Faithful` programs more than
`CompilerBalances` says, that no address stands where only a number is taken and that no
divisor is zero. That is not so in every script (`if $x then ...` ends in an exception), so it
is no theorem about the compiler.

## 6. Not modelled, and why

* `nlohmann_json.hpp`, 25 526 lines of the repository's 43 800, is a vendored library.
* Texts, colours, the log, the debug report, the terminal's settings: no property is
  about them. Of `MGProto.cpp`'s texts there are the codes.
* Files, sockets and signals are what their calls report; setting up the listening
  socket and connecting a client are input and output.
* Overflow of `int`: settings and money are unbounded integers in the model. A price
  times an amount may overflow for a price that `atoi` can read; no run asks for it.
  `itoa` of the least `int` is left out.
* The client's keyboard: `client.c` calls functions that are not in the repository;
  the class `Input`, which is, is modelled.
* Line numbers of lexems, and the length of the lexical analyser's buffer.
* Empty parentheses, `?f()`: no script here has them.
* Overflow in scripts: numbers of a game are far from the width of an `int`.
* The bot's connecting, its signals, and the lines it only shows; of a player's record
  one number stands for all.
* What a player is told of a lost record: `botCore.cpp:398` keeps the pointer to a record
  it has deleted and follows it later. `Bot` has the deletion and ends at the use
  (`undefined`); no property says that it does not happen, since it does.
* Statistics of sender and receiver; the text of a time.
* `AddSessions`: no code calls it. `CleanPlayer` and `Reset`, which nothing calls in a
  game either, are in `Records`.
* More than one session in `GameSession`, `Commands` and `Connections`: sessions share
  nothing but the server's loop (`Lobby` has several), the brokers (`Brokers`) and
  the executor's words (`Commands`, where two players of one session share them).

## 7. What is left

1. An abstract month with its rules (requests in, goods and money out, in one step) that
   `GameSession` implements; `Rounds` abstracts from goods.
2. The whole server: `Connections` around `Commands` and `Brokers` for several sessions;
   each is checked here against the others' interface.
3. Larger instances: five seats in `counters`, both games of `brokers` with three players.
