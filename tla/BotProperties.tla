--------------------------- MODULE BotProperties ---------------------------
(***************************************************************************)
(* What the bot keeps while it plays, and a statement of README.md it does *)
(* not keep.                                                               *)
(***************************************************************************)
EXTENDS Bot

CONSTANT Faithful      \* the programs that do what their scripts say

-----------------------------------------------------------------------------
(***************************************************************************)
(* What can be told of a program before it is run.  The kind of an element *)
(* on the stack is its class, or "nonzero" for a number that is not 0; the *)
(* kinds on the stack before the element k are those the elements before   *)
(* it leave when they are taken in the order of the code.                  *)
(***************************************************************************)
Kind(elem) == IF elem.op = "int" /\ elem.n # 0 THEN "nonzero" ELSE elem.op

Integral == {"int", "nonzero"}            \* the kinds of numbers
Readable == Integral \cup {"addr"}        \* ... and of what stands for one

\* An element finds on the stack what it takes, and those that end an operator
\* find nothing else.
Takes(kinds, op) ==
    /\ op = "goto"     => kinds = <<"label">>
    /\ op = "ifthen"   => Len(kinds) = 1 /\ kinds[1] \in Integral
    /\ op = "assign"   => Len(kinds) = 2 /\ kinds[1] = "addr" /\ kinds[2] \in Integral
    /\ op \in Offers   => Len(kinds) = 2 /\ kinds[1] \in Readable /\ kinds[2] \in Readable
    /\ op \in Works    => Len(kinds) = 1 /\ kinds[1] \in Readable
    /\ op = "endturn"  => kinds = <<>>
    /\ op \in PlayerGF => Len(kinds) >= 1 /\ kinds[1] \in Integral
    /\ op \in Unary    => Len(kinds) >= 1 /\ kinds[1] \in Readable
    /\ op \in Binary   => Len(kinds) >= 2 /\ kinds[1] \in Readable /\ kinds[2] \in Readable
    /\ op \in Dividing => kinds[2] = "nonzero"

Pushing == {"int", "addr", "label", "str"}

\* The kinds behind it.
Behind(kinds, elem) ==
    CASE elem.op \in Pushing           -> <<Kind(elem)>> \o kinds
      [] elem.op \in SimpleGF          -> <<"int">> \o kinds
      [] elem.op \in PlayerGF \cup Unary -> <<"int">> \o Tail(kinds)
      [] elem.op \in Binary            -> <<"int">> \o Tail(Tail(kinds))
      [] OTHER -> <<>>

Shape(code) ==
    LET shape[k \in 1..(Len(code) + 1)] ==
            IF k = 1 THEN <<>> ELSE Behind(shape[k - 1], code[k - 1])
    IN  shape

\* Every element finds what it takes, an operator begins and the program ends with
\* an empty stack, and no jump and no condition leads into an operator.
Sound(g) ==
    LET end   == Len(g.code) + 1
        exits == ToSet(g.starts) \cup {end}
    IN  /\ exits \subseteq 1..end
        /\ \A k \in exits : Shape(g.code)[k] = <<>>
        /\ \A k \in DOMAIN g.code :
               /\ Takes(Shape(g.code)[k], g.code[k].op)
               /\ g.code[k].op = "label"  => g.code[k].n \in ToSet(g.starts)
               /\ g.code[k].op = "ifthen" => SkipFrom(g.code, k) \in exits

ASSUME FaithfulAssumption == \A g \in Faithful : Sound(g)

-----------------------------------------------------------------------------
\* A program that does what its script says never ends in an exception, and
\* whatever the server says in between, every operator begins on an empty stack,
\* so each sends what it is to send (PolizFunction::Evaluate with
\* ret_to_prev_cmd, and the size checks of the orders).
RunsClean ==
    program \in Faithful =>
    /\ status # "terminated"
    /\ cur_cmd \in ToSet(program.starts) => stack = <<>>

\* Once its turn is counted, no line of the bot is on its way to the server and
\* none will get WAIT_FOR_NEXT_TURN: execute_script keeps the machine still until
\* the new month (PolizEndturn, TURN_COMMAND_SUCCESS, NEW_TURN).  A month that
\* ends without the bot's turn is excepted.
QuietAfterTurn == ~early /\ MyId \in ended => toServer = <<>>

\* Once everything the server said has been read message by message, ?active_players
\* is the number of those who play: everyone's leaving is told to the bot once, in
\* the month or at its end.  The last leaving is told as the bot's victory.
KnowsWhoPlays ==
    link = "prompt" /\ toBot = <<>> /\ status = "running" /\ MyId \in Present /\ Alive > 1 =>
        main_info.alive = Alive

\* Who wins or loses the bot's game, or breaks it.
Over == MyId \in gone \/ Alive <= 1 \/ status = "undefined"

\* When the server reads the bot's lines one by one, the bot ends every month
\* that does not end without it: no order of lines and answers leaves it waiting
\* for a new month that waits for the bot's turn.
MonthsGoOn ==
    \A m \in 1..MaxMonth :
        (link = "prompt" /\ month = m) ~> (MyId \in ended \/ Ready = Alive \/ Over)

Session == INSTANCE Rounds WITH
    Players <- Players, running <- TRUE, month <- month,
    present <- Present, ended <- ended \ gone,
    ghosts  <- Cardinality(ended \cap gone), missing <- 0

\* The server the bot plays against is the one of GameSession as its players see
\* it, from which nobody has left the lobby: both implement Rounds.
ImplementsRounds == Session!Spec
=============================================================================
