-------------------------------- MODULE Bot --------------------------------
(***************************************************************************)
(* The bot that plays by a script: the stack machine that executes the     *)
(* compiled script one element at a time, between two elements taking what *)
(* the server says (main of bot_mg, PolizElem::Evaluate and                *)
(* bot_check_server_response), together with the server as it deals with   *)
(* one connection: a line at a time, the month ending when ready_players   *)
(* equals alive_players.                                                   *)
(*                                                                         *)
(* Both queues hold whole lines.  "terminated" is an exception nobody      *)
(* catches, "undefined" an access to a PlayerInfo that is not there.       *)
(***************************************************************************)
EXTENDS Poliz, FiniteSets, SequencesExt

CONSTANTS
    Programs,      \* what the compiler made: code, starts of operators, variables
    MaxPlayers,    \* how many began the game
    MyId,          \* the number of the bot's player
    MaxMonth,      \* bound: the last month
    Price(_),      \* of a month: the least price of a source
    Stock(_, _)    \* of a player and a month: what "player" answers

Players == 1..MaxPlayers

ASSUME BotAssumption ==
    /\ MaxPlayers \in Nat /\ MyId \in Players /\ MaxMonth \in Nat \ {0}
    /\ \A m \in 1..MaxMonth :
           Price(m) \in Nat /\ \A p \in Players : Stock(p, m) \in Nat

ASSUME ProgramsAssumption == \A g \in Programs : Executable(g)

VARIABLES
    program, cur_cmd, stack, values, ret_to_prev_cmd,   \* the machine
    execute_script, main_info, p_info,                  \* what the bot knows
    status,                                             \* running, terminated or undefined
    toServer, toBot,                                    \* lines on their way
    month, ended, gone, served,                         \* the server's session
    link,                                               \* "prompt" or "merging" reads
    early            \* history: a month ended without the bot

machine == <<program, cur_cmd, stack, values, ret_to_prev_cmd>>
knows   == <<execute_script, main_info, p_info>>
lines   == <<toServer, toBot>>
session == <<month, ended, gone, served, link>>
vars    == <<machine, knows, status, lines, session, early>>

Present == Players \ gone
Ready   == Cardinality(ended)      \* ready_players
Alive   == Cardinality(Present)    \* alive_players

Line(text)    == [type |-> text, n |-> 0, price |-> 0]
LineOf(text, n) == [type |-> text, n |-> n, price |-> 0]
NewTurn(m)    == [type |-> "NEW_TURN", n |-> m, price |-> Price(m)]

\* Everybody is in the game, and the bot is about to be told that it started.
Init ==
    /\ program \in Programs /\ cur_cmd = 1 /\ stack = <<>> /\ ret_to_prev_cmd = FALSE
    /\ values = [k \in 1..Len(program.names) |-> 0]
    /\ execute_script = FALSE /\ status = "running"
    /\ main_info = [turn |-> -1, price |-> -1, total |-> -1, alive |-> -1, last |-> -1]
    /\ p_info = [p \in Players |-> [is |-> "none", raw |-> 0]]
    /\ toServer = <<>>
    /\ toBot = <<[NewTurn(1) EXCEPT !.type = "STARTING_GAME_INFORMATION"]>>
    /\ month = 1 /\ ended = {} /\ gone = {} /\ served = {}
    /\ link \in {"prompt", "merging"}
    /\ early = FALSE

-----------------------------------------------------------------------------
(***************************************************************************)
(* What the server says.  Lines that are only shown are left out.  A read  *)
(* that finds several messages takes the first, up to its zero byte, and   *)
(* the others are lost: Wire shows it.                                     *)
(***************************************************************************)
Receive(type) ==
    /\ status = "running" /\ toBot # <<>> /\ Head(toBot).type = type
    /\ \E k \in 1..Len(toBot) :
          /\ link = "prompt" => k = 1
          /\ toBot' = SubSeq(toBot, k + 1, Len(toBot))
    /\ UNCHANGED <<machine, toServer, session, early>>

Starting ==
    /\ Receive("STARTING_GAME_INFORMATION")
    /\ main_info' = [turn |-> 1, price |-> Head(toBot).price,
                     total |-> MaxPlayers, alive |-> MaxPlayers, last |-> MyId]
    /\ p_info' = [p_info EXCEPT ![MyId] = [is |-> "known", raw |-> Stock(MyId, 1)]]
    /\ execute_script' = TRUE
    /\ UNCHANGED status

\* Mutant: the script is not resumed.
MonthBegins_Halted ==
    /\ Receive("NEW_TURN")
    /\ main_info' = [main_info EXCEPT !.turn = Head(toBot).n, !.price = Head(toBot).price]
    /\ UNCHANGED <<execute_script, p_info, status>>

MonthBegins ==
    /\ Receive("NEW_TURN")
    /\ main_info' = [main_info EXCEPT !.turn = Head(toBot).n, !.price = Head(toBot).price]
    /\ execute_script' = TRUE
    /\ UNCHANGED <<p_info, status>>

\* The answer names its player; the next question read is answered with it.
PlayerCommand ==
    /\ Receive("PLAYER_COMMAND")
    /\ LET num == Head(toBot).n
       IN  /\ main_info' = [main_info EXCEPT !.last = num]
           /\ IF p_info[num].is = "freed"
              THEN status' = "undefined" /\ UNCHANGED p_info
              ELSE /\ p_info' = [p_info EXCEPT ![num] = [is |-> "known", raw |-> Head(toBot).price]]
                   /\ UNCHANGED status
    /\ UNCHANGED execute_script

\* Mutant: who leaves is counted twice.
LostAlivePlayer_Twice ==
    /\ Receive("LOST_ALIVE_PLAYER")
    /\ p_info' = [p_info EXCEPT ![Head(toBot).n].is = IF @ = "none" THEN @ ELSE "freed"]
    /\ main_info' = [main_info EXCEPT !.alive = @ - 2]
    /\ UNCHANGED <<execute_script, status>>

\* The record is deleted, and the pointer to it stays.
LostAlivePlayer ==
    /\ Receive("LOST_ALIVE_PLAYER")
    /\ IF p_info[Head(toBot).n].is = "freed"
       THEN status' = "undefined" /\ UNCHANGED p_info
       ELSE /\ p_info' = [p_info EXCEPT ![Head(toBot).n].is = IF @ = "none" THEN @ ELSE "freed"]
            /\ UNCHANGED status
    /\ main_info' = [main_info EXCEPT !.alive = @ - 1]
    /\ UNCHANGED execute_script

\* The results are put into the records by their position.
AuctionResults ==
    /\ Receive("AUCTION_RESULTS")
    /\ status' = IF \E j \in Players : j <= Head(toBot).n /\ p_info[j].is = "freed"
                 THEN "undefined" ELSE status
    /\ UNCHANGED knows

\* The lines that stop the script and do nothing else.
Stopping == {"TURN_COMMAND_SUCCESS", "WAIT_FOR_NEXT_TURN", "VICTORY_MESSAGE", "PLAYER_BANKROT"}

StopScript ==
    /\ \E type \in Stopping : Receive(type)
    /\ execute_script' = FALSE
    /\ UNCHANGED <<main_info, p_info, status>>

BotReads == Starting \/ MonthBegins \/ PlayerCommand \/ LostAlivePlayer \/ AuctionResults \/ StopScript

-----------------------------------------------------------------------------
(***************************************************************************)
(* The machine: Evaluate of the element at cur_cmd.                        *)
(***************************************************************************)
Evaluating(ops) ==
    /\ status = "running" /\ execute_script
    /\ cur_cmd <= Len(program.code) /\ program.code[cur_cmd].op \in ops
    /\ UNCHANGED <<program, toBot, session, early>>

Here == program.code[cur_cmd]
Quiet == UNCHANGED <<knows, toServer>>

\* The element is done: the stack and the variables it leaves.
Done(s, v) ==
    /\ stack' = s /\ values' = v /\ cur_cmd' = cur_cmd + 1
    /\ UNCHANGED <<ret_to_prev_cmd, status>>

Terminate == status' = "terminated" /\ UNCHANGED <<machine, knows, toServer>>

Number(k) == NumberOf(stack[k], values)

PushConst ==
    /\ Evaluating({"int", "addr", "label", "str"}) /\ Quiet
    /\ Done(<<Here>> \o stack, values)

OpGo ==
    /\ Evaluating({"goto"})
    /\ IF stack # <<>> /\ stack[1].op = "label"
       THEN /\ cur_cmd' = stack[1].n /\ stack' = Tail(stack)
            /\ Quiet /\ UNCHANGED <<values, ret_to_prev_cmd, status>>
       ELSE Terminate

OpIfThen ==
    /\ Evaluating({"ifthen"})
    /\ IF stack # <<>> /\ stack[1].op = "int"
       THEN /\ stack' = Tail(stack)
            /\ cur_cmd' = IF stack[1].n # 0 THEN cur_cmd + 1 ELSE SkipFrom(program.code, cur_cmd)
            /\ Quiet /\ UNCHANGED <<values, ret_to_prev_cmd, status>>
       ELSE Terminate

Assign ==
    /\ Evaluating({"assign"})
    /\ IF Len(stack) >= 2 /\ stack[1].op = "addr" /\ stack[2].op = "int"
       THEN Quiet /\ Done(Tail(Tail(stack)), [values EXCEPT ![stack[1].n] = stack[2].n])
       ELSE Terminate

Arithmetic ==
    /\ Evaluating(Unary \cup Binary)
    /\ IF Throws(Here.op, stack, values) THEN Terminate
       ELSE Quiet /\ Done(Calculated(Here.op, stack, values), values)

Told(f) ==
    CASE f = "?my_id"   -> MyId
      [] f = "?turn"    -> main_info.turn
      [] f = "?players" -> main_info.total
      [] f = "?active_players" -> main_info.alive
      [] f \in {"?raw_price", "?production_price", "?supply", "?demand"} -> main_info.price

SimpleFunction ==
    /\ Evaluating(SimpleGF) /\ Quiet
    /\ Done(<<IntElem(Told(Here.op))>> \o stack, values)

\* The first evaluation of a function of a player asks the server and leaves
\* cur_cmd where it is ...
Question ==
    /\ Evaluating(PlayerGF) /\ ~ret_to_prev_cmd
    /\ IF stack = <<>> THEN Quiet /\ Done(stack, values)
       ELSE IF stack[1].op # "int" THEN Quiet /\ Done(Tail(stack), values)
       ELSE /\ toServer' = Append(toServer, LineOf("player", stack[1].n))
            /\ stack' = Tail(stack) /\ ret_to_prev_cmd' = TRUE
            /\ UNCHANGED <<cur_cmd, values, status, knows>>

\* Mutant: the function is left as soon as it has asked.
Answer_Unanswered ==
    /\ Evaluating(PlayerGF) /\ ret_to_prev_cmd
    /\ ret_to_prev_cmd' = FALSE
    /\ cur_cmd' = cur_cmd + 1
    /\ UNCHANGED <<stack, values, status, knows, toServer>>

\* ... and the second takes what is known of the player last told of, whether or
\* not an answer has come.
Answer ==
    /\ Evaluating(PlayerGF) /\ ret_to_prev_cmd
    /\ ret_to_prev_cmd' = FALSE
    /\ IF p_info[main_info.last].is = "known"
       THEN /\ stack' = <<IntElem(p_info[main_info.last].raw)>> \o stack
            /\ cur_cmd' = cur_cmd + 1
            /\ UNCHANGED <<values, status, knows, toServer>>
       ELSE /\ status' = "undefined"
            /\ UNCHANGED <<stack, cur_cmd, values, knows, toServer>>

PrintStack ==
    /\ Evaluating({"print"}) /\ Quiet
    /\ Done(<<>>, values)

\* buy and sell want exactly two operands, prod and build at most one; without
\* any nothing is done, and with too many they are thrown away.
Offers == {"buy", "sell"}
Works  == {"prod", "build"}

Unused ==
    /\ Evaluating(Offers \cup Works) /\ Quiet
    /\ IF Here.op \in Offers THEN Len(stack) # 2 ELSE Len(stack) # 1
    /\ Done(<<>>, values)

SendOffer ==
    /\ Evaluating(Offers) /\ Len(stack) = 2
    /\ IF HasNumber(stack, 1) /\ HasNumber(stack, 2)
       THEN /\ toServer' = Append(toServer, [type |-> Here.op, n |-> Number(1), price |-> Number(2)])
            /\ Done(<<>>, values) /\ UNCHANGED knows
       ELSE Terminate

SendWork ==
    /\ Evaluating(Works) /\ Len(stack) = 1
    /\ IF HasNumber(stack, 1)
       THEN /\ toServer' = toServer \o [k \in 1..Number(1) |-> Line(Here.op)]
            /\ Done(<<>>, values) /\ UNCHANGED knows
       ELSE Terminate

\* Mutant: the script goes on.
SendTurn_GoesOn ==
    /\ Evaluating({"endturn"})
    /\ Done(<<>>, values)
    /\ toServer' = IF stack = <<>> THEN Append(toServer, Line("turn")) ELSE toServer
    /\ UNCHANGED knows

\* With anything on the stack the turn is not sent.
SendTurn ==
    /\ Evaluating({"endturn"})
    /\ Done(<<>>, values)
    /\ IF stack = <<>>
       THEN toServer' = Append(toServer, Line("turn")) /\ execute_script' = FALSE
       ELSE UNCHANGED <<toServer, execute_script>>
    /\ UNCHANGED <<main_info, p_info>>

Evaluate ==
    \/ PushConst \/ OpGo \/ OpIfThen \/ Assign \/ Arithmetic \/ SimpleFunction
    \/ Question \/ Answer \/ PrintStack \/ Unused \/ SendOffer \/ SendWork \/ SendTurn

-----------------------------------------------------------------------------
(***************************************************************************)
(* The server.                                                             *)
(***************************************************************************)
ServerOnly == UNCHANGED <<machine, knows, status, link>>

\* The answer to a line; who has ended the turn is only told to wait.
Answered(line) ==
    CASE line.type = "player" ->
            IF line.n \in Present
            THEN <<[type |-> "PLAYER_COMMAND", n |-> line.n, price |-> Stock(line.n, month)]>>
            ELSE <<>>
      [] MyId \in ended     -> <<Line("WAIT_FOR_NEXT_TURN")>>
      [] line.type = "turn" -> <<Line("TURN_COMMAND_SUCCESS")>>
      [] OTHER              -> <<>>

\* One read of the bot's connection.  It may find several lines; RecvMessage
\* cuts all but the first.
ServerReads ==
    /\ MyId \in Present \ served /\ toServer # <<>>
    /\ \E k \in 1..Len(toServer) :
          /\ link = "prompt" => k = 1
          /\ toServer' = SubSeq(toServer, k + 1, Len(toServer))
    /\ LET line == Head(toServer)
       IN  /\ toBot' = toBot \o Answered(line)
           /\ ended' = IF line.type = "turn" THEN ended \cup {MyId} ELSE ended
    /\ served' = served \cup {MyId}
    /\ ServerOnly /\ UNCHANGED <<month, gone, early>>

\* What the others do in a pass.
OtherTurns(p) ==
    /\ p \in Present \ (served \cup ended \cup {MyId})
    /\ ended' = ended \cup {p} /\ served' = served \cup {p}
    /\ ServerOnly /\ UNCHANGED <<lines, month, gone, early>>

\* What the bot is told when q has left, alive others being in the game.
Departure(q, alive) ==
    IF alive <= 1 THEN Line("VICTORY_MESSAGE") ELSE LineOf("LOST_ALIVE_PLAYER", q)

OtherLeaves(p) ==
    /\ p \in Present \ (served \cup {MyId})
    /\ gone' = gone \cup {p} /\ served' = served \cup {p}
    /\ toBot' = IF MyId \in gone THEN toBot ELSE Append(toBot, Departure(p, Alive - 1))
    /\ ServerOnly /\ UNCHANGED <<toServer, month, ended, early>>

NextPass ==
    /\ Ready # Alive /\ served # {}
    /\ served' = {}
    /\ ServerOnly /\ UNCHANGED <<lines, month, ended, gone, early>>

\* Mutant: the turns ended are not taken back for the new month.
EndMonth_TurnsKept ==
    /\ Ready = Alive /\ month < MaxMonth
    /\ month' = month + 1 /\ served' = {}
    /\ toBot' = IF MyId \in gone THEN toBot ELSE Append(toBot, NewTurn(month + 1))
    /\ early' = (early \/ MyId \in Present \ ended)
    /\ ServerOnly /\ UNCHANGED <<toServer, ended, gone>>

\* Players in the order of their numbers.
Ascending(S) ==
    {f \in [1..Cardinality(S) -> S] :
        \A i, j \in 1..Cardinality(S) : i < j => f[i] < f[j]}

\* The month ends: results, bankrupts in the order of their numbers, new month.
EndMonth ==
    /\ Ready = Alive /\ month < MaxMonth
    /\ \E bankrots \in SUBSET Present : \E quits \in Ascending(bankrots) :
          /\ gone' = gone \cup bankrots
          /\ toBot' =
               IF MyId \in gone THEN toBot
               ELSE toBot \o <<LineOf("AUCTION_RESULTS", Ready)>>
                    \o (IF MyId \in bankrots THEN <<Line("PLAYER_BANKROT")>>
                        ELSE [k \in DOMAIN quits |-> Departure(quits[k], Alive - k)]
                               \o <<NewTurn(month + 1)>>)
    /\ early' = (early \/ MyId \in Present \ ended)
    /\ month' = month + 1 /\ ended' = {} /\ served' = {}
    /\ ServerOnly /\ UNCHANGED <<toServer>>

Server ==
    \/ ServerReads \/ NextPass \/ EndMonth
    \/ \E p \in Players : OtherTurns(p) \/ OtherLeaves(p)

Next == BotReads \/ Evaluate \/ Server

Fairness ==
    /\ WF_vars(BotReads) /\ WF_vars(Evaluate)
    /\ WF_vars(ServerReads) /\ WF_vars(NextPass) /\ WF_vars(EndMonth)

Spec == Init /\ [][Next]_vars /\ Fairness
=============================================================================
