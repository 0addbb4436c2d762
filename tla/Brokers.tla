------------------------------- MODULE Brokers -------------------------------
(***************************************************************************)
(* How the server tells players of what happens.  Three brokers work for   *)
(* all sessions: GameEvents and MulticastActionsExec carry out what a      *)
(* session is due, GameMessages writes the messages.  A broker is given    *)
(* its parameters through one array of tokens that all share, which it     *)
(* takes with PutMessage and keeps until it is given others; then it is    *)
(* told by TakeMessage what to do.  A token is a different parameter to    *)
(* each broker: the second one is the kind of auction to one and a player  *)
(* who left to another.                                                    *)
(*                                                                         *)
(* A parameter is a fact: a number and the session or player whose it is.  *)
(* The sessions are here only as far as messages depend on them: GameSession *)
(* and Lobby say how they change.                                          *)
(*                                                                         *)
(* Taken as working: PutMessage, whose loop ends at the first token;       *)
(* TakeMessage, which returns another broker's text; CheckMessageCode,     *)
(* which refuses the last codes; a player's end of connection is his own.  *)
(***************************************************************************)
EXTENDS Messages, FiniteSetsExt, Functions

CONSTANTS
    Sessions,    \* the sessions, 1..n
    Players,     \* the seats of each, 1..max_players
    MinPlayers,  \* min_players_to_start
    MaxClients,  \* a bound: how many are connected at once
    Bots         \* the seats, as <<session, player>>, of bots

ASSUME BrokersAssumption ==
    /\ Cardinality(Sessions) \in Nat /\ Sessions = 1..Cardinality(Sessions)
    /\ Cardinality(Players) \in Nat /\ Players = 1..Cardinality(Players)
    /\ MinPlayers \in Players /\ MaxClients \in Nat
    /\ Bots \subseteq Sessions \X Players

VARIABLES
    up,          \* the server runs
    at,          \* the session GameEventsHandle looks at; 0 while clients are heard
    taken,       \* the seats that are taken in each session
    lobby,       \* lobby_players
    alive,       \* alive_players, 0 before the game
    started,     \* IsGameStarted
    timer,       \* of the start: "idle", "running" or "alarmed"
    broker       \* the tokens, what each broker took of them and, a history, the
                 \* messages of the last step in their order

vars == <<up, at, taken, lobby, alive, started, timer, broker>>

-----------------------------------------------------------------------------
(* Facts and tokens.                                                       *)

Fact(of, is) == [of |-> of, is |-> is]
Whose(fact) == fact.of

Everybody == <<>>
OfSession(s) == <<s>>
OfPlayer(s, p) == <<s, p>>

\* An empty token and a field of zero; what a field that the constructor forgets
\* holds is a number of a session or none.
None == Fact(Everybody, 0)

\* MulticastActionsExec: SESSION_ID, AUCTION_TYPE, LEFT_PLAYER_ID.
Session == 1
AuctionType == 2
LeftPlayer == 3
\* GameMessages: SESSION_ID, LEFT_PLAYER_ID, TIME_TO_START, SENDER_ID,
\* PRODUCED_AMOUNT, TOTAL_CHARGES.
Leaver == 2
TimeToStart == 3
SenderId == 4
Produced == 5
TotalCharges == 6

Write(b, token, fact) == [b EXCEPT !.tokens[token] = fact]

\* The first count tokens, but for empty ones.
PutMessage(b, who, count) ==
    [b EXCEPT ![who] = [i \in DOMAIN @ |->
        IF i <= count /\ b.tokens[i] # None THEN b.tokens[i] ELSE @[i]]]

Give(b, who, token, fact) == PutMessage(Write(b, token, fact), who, token)

-----------------------------------------------------------------------------
(* GameMessages: what a message tells.                                     *)

SessionOf(b) == b.messages[Session].is
Sender(b) == OfPlayer(SessionOf(b), b.messages[SenderId].is)

Several(n, of) == [i \in 1..n |-> of]

\* Six numbers for every one of the first ready_players seats, taken or not.
AuctionResultsMessage(b) ==
    LET numbers == [i \in 1..6 * alive[SessionOf(b)] |->
                        IF i % 6 = 1 THEN OfSession(SessionOf(b))
                        ELSE OfPlayer(SessionOf(b), (i + 5) \div 6)]
    IN <<>> \o numbers  \* TLC keeps a tuple

\* The player's own numbers, and the market's for bots; in the middle how many
\* are alive and the month.
StartGameInfoMessage(b) ==
    Several(1, Sender(b)) \o Several(2, OfSession(SessionOf(b))) \o Several(6, Sender(b))
    \o IF Sender(b) \in Bots THEN Several(4, OfSession(SessionOf(b))) ELSE <<>>

\* Mutant: the market is told to humans.
NewTurnMessage_Swapped(b) ==
    <<OfSession(SessionOf(b))>>
    \o IF Sender(b) \in Bots THEN <<>> ELSE Several(4, OfSession(SessionOf(b)))

NewTurnMessage(b) ==
    <<OfSession(SessionOf(b))>>
    \o IF Sender(b) \in Bots THEN Several(4, OfSession(SessionOf(b))) ELSE <<>>

LostAlivePlayerMessage(b) ==
    <<OfSession(SessionOf(b)), Whose(b.messages[Leaver])>>

NewPlayerConnectMessage(b) == <<OfSession(SessionOf(b)), Everybody>>

Text(b, code) ==
    CASE code = "NEW_PLAYER_CONNECT" -> NewPlayerConnectMessage(b)
      [] code = "LOST_ALIVE_PLAYER" -> LostAlivePlayerMessage(b)
      [] code = "STARTING_GAME_INFORMATION" -> StartGameInfoMessage(b)
      [] code = "NEW_TURN" -> NewTurnMessage(b)
      [] code = "AUCTION_RESULTS" -> AuctionResultsMessage(b)
      [] code = "STARTINSECONDS" -> <<Whose(b.messages[TimeToStart])>>
      [] code = "PRODUCED" -> <<Whose(b.messages[Produced])>>
      [] code \in {"SUCCESS_CHARGES_PAY", "PLAYER_BANKROT"} ->
             <<Whose(b.messages[TotalCharges])>>
      [] OTHER -> <<>>

\* TakeMessage of GameMessages, and the message is sent to player p of session s.
Send(b, s, p, code) ==
    [b EXCEPT !.told = Append(@, [to |-> OfPlayer(s, p), code |-> code,
                                  params |-> Text(b, code)])]

\* What a broker does for one seat: it puts a parameter, unless the field is NoField,
\* and sends a message, unless the code is Silence.
NoField == 0
Silence == "SILENCE"

Note(field, fact, code) == [field |-> field, fact |-> fact, code |-> code]
Say(code) == Note(NoField, None, code)

Obey(b, s, p, note) ==
    LET put == IF note.field = NoField THEN b ELSE Give(b, "messages", note.field, note.fact)
    IN IF note.code = Silence THEN put ELSE Send(put, s, p, note.code)

Follow(b, s, p, notes) == IF p \in DOMAIN notes THEN Obey(b, s, p, notes[p]) ELSE b

\* The loop over all seats, of which those without a note are passed by; nextly is
\* what a seat is told right after what it is told at first.
EachSeat(b, s, firstly, nextly) ==
    LET told[p \in 0..Cardinality(Players)] ==
            IF p = 0 THEN b
            ELSE Follow(Follow(told[p - 1], s, p, firstly), s, p, nextly)
    IN told[Cardinality(Players)]

Nobody == <<>>

\* One of the multicasts that tell every seat of a set the same.
Tell(b, s, seats, code) == EachSeat(b, s, [p \in seats |-> Say(code)], Nobody)

-----------------------------------------------------------------------------
(* MulticastActionsExec: it works for the session put last.                *)

ForSession(b, s) == Give(b, "multicast", Session, Fact(OfSession(s), s))

SendNewPlayerConnect(b, s, seats) == Tell(b, s, seats, "NEW_PLAYER_CONNECT")

SendStartTime(b, s, seats) ==
    EachSeat(b, s, [p \in seats |-> Note(TimeToStart, Fact(Everybody, 1),
                                        "STARTINSECONDS")], Nobody)

SendStartCancelled(b, s, seats) == Tell(b, s, seats, "STARTCANCELLED")
SendGameStarted(b, s, seats) == Tell(b, s, seats, "GAME_STARTED")

\* Mutant: the messages are not told whose numbers to write.
PreparePlayersState_NotPut(b, s, seats) == Tell(b, s, seats, "STARTING_GAME_INFORMATION")

PreparePlayersState(b, s, seats) ==
    EachSeat(b, s, [p \in seats |-> Note(SenderId, Fact(OfPlayer(s, p), p),
                                        "STARTING_GAME_INFORMATION")], Nobody)

\* StartAuction tells nothing; its kind is a token.
StartAuction(b, kind) == Give(b, "multicast", AuctionType, Fact(Everybody, kind))

SendAuctionsResults(b, s, seats) == Tell(b, s, seats, "AUCTION_RESULTS")

Charge(s, p, code) == Note(TotalCharges, Fact(OfPlayer(s, p), p), code)

\* due: what happens to the building sites of each seat.
CheckBuildingFactories(b, s, seats, due) ==
    EachSeat(b, s, [p \in {q \in seats : due[q] # "nothing"} |->
                       CASE due[p] = "paid" -> Charge(s, p, "PAY_FACTORY_SUCCESS")
                         [] due[p] = "unpaid" -> Charge(s, p, Silence)
                         [] due[p] = "ready" -> Say("FACTORY_BUILT")],
             Nobody)

PayCharges(b, s, seats, cannot) ==
    EachSeat(b, s, [p \in seats |->
                       Charge(s, p, IF p \in cannot THEN Silence ELSE "SUCCESS_CHARGES_PAY")],
             Nobody)

SendPlayersBankrot(b, s, bankrots) == Tell(b, s, bankrots, "PLAYER_BANKROT")

\* seats: who is left, without bankrupts; the one who has won is told and no other.
TellOfLeaver(b, s, seats, left) ==
    IF left <= 1
    THEN Tell(b, s, IF seats = {} THEN {} ELSE {Min(seats)}, "VICTORY_MESSAGE")
    ELSE EachSeat(b, s, [p \in seats |-> Note(Leaver, b.multicast[LeftPlayer],
                                             "LOST_ALIVE_PLAYER")], Nobody)

LeftIs(b, s, p) == [b EXCEPT !.multicast[LeftPlayer] = Fact(OfPlayer(s, p), p)]

\* QuitPlayer for every bankrupt, while the bankrupts after him still have seats;
\* left: how many are alive without him.
QuitEach(b, s, seats, left) ==
    LET told[p \in 0..Cardinality(Players)] ==
            IF p = 0 THEN b
            ELSE IF p \in DOMAIN left
                 THEN TellOfLeaver(LeftIs(told[p - 1], s, p), s, seats, left[p])
                 ELSE told[p - 1]
    IN told[Cardinality(Players)]

\* Mutant: alive_players is lowered when all have gone.
QuitBankrotPlayers_LowersLate(b, s, seats, bankrots, count) ==
    QuitEach(b, s, seats, [p \in bankrots |-> count])

QuitBankrotPlayers(b, s, seats, bankrots, count) ==
    QuitEach(b, s, seats,
             [p \in bankrots |-> count - Cardinality({q \in bankrots : q <= p})])

\* seats: who is not bankrupt; produced: who of them has.
PrepareNewTurn(b, s, seats, produced) ==
    EachSeat(b, s, [p \in seats |-> Note(SenderId, Fact(OfPlayer(s, p), p), "NEW_TURN")],
             [p \in produced |-> Note(Produced, Fact(OfPlayer(s, p), p), "PRODUCED")])

-----------------------------------------------------------------------------
(* What clients do.                                                        *)

fresh == [broker EXCEPT !.told = <<>>]

Init ==
    /\ up = TRUE /\ at = 0
    /\ taken = [s \in Sessions |-> {}] /\ lobby = [s \in Sessions |-> 0]
    /\ alive = [s \in Sessions |-> 0] /\ started = [s \in Sessions |-> FALSE]
    /\ timer = [s \in Sessions |-> "idle"]
    /\ \E n \in Sessions \cup {0} :
           broker = [tokens |-> [i \in 1..6 |-> None],
                     multicast |-> [i \in 1..3 |-> None],
                     events |-> <<None>>,
                     messages |-> [i \in 1..6 |-> IF i = Session
                                       THEN Fact(IF n = 0 THEN Everybody ELSE OfSession(n), n)
                                       ELSE None],
                     told |-> <<>>]

\* More clients may be heard before the events are handled.
Heard == at' \in {0, 1}

Listening == up /\ at = 0

OpenTo(s) == ~started[s] /\ taken[s] # Players
FirstOpen(s) == OpenTo(s) /\ \A t \in Sessions : t < s => ~OpenTo(t)

\* AddNewClientToSession.  Where the messages have no session yet, the exception
\* leaves the seat taken and its descriptor closed, and select ends the server.
NewClient(s) ==
    /\ Listening /\ FirstOpen(s)
    /\ Cardinality({c \in Sessions \X Players : c[2] \in taken[c[1]]}) < MaxClients
    /\ lobby[s] < Cardinality(Players)
    /\ LET p == Min(Players \ taken[s]) IN
       /\ taken' = [taken EXCEPT ![s] = @ \cup {p}]
       /\ lobby' = [lobby EXCEPT ![s] = @ + 1]
       /\ IF SessionOf(broker) \in Sessions
          THEN /\ broker' = SendNewPlayerConnect(ForSession(fresh, s), s, taken'[s])
               /\ UNCHANGED up /\ Heard
          ELSE broker' = ForSession(fresh, s) /\ up' = FALSE /\ at' = at
    /\ UNCHANGED <<alive, started, timer>>

\* QuitPlayer in the lobby: the seat is free, then SetAlivePlayers throws.
LeaveLobby(s, p) ==
    /\ Listening /\ ~started[s] /\ p \in taken[s]
    /\ taken' = [taken EXCEPT ![s] = @ \ {p}]
    /\ broker' = PutMessage(Write(Write(fresh, Session, Fact(OfSession(s), s)),
                                   LeftPlayer, Fact(OfPlayer(s, p), p)),
                             "multicast", LeftPlayer)
    /\ Heard
    /\ UNCHANGED <<up, lobby, alive, started, timer>>

LeaveGame(s, p) ==
    /\ Listening /\ started[s] /\ p \in taken[s]
    /\ taken' = [taken EXCEPT ![s] = @ \ {p}]
    /\ alive' = [alive EXCEPT ![s] = @ - 1]
    /\ broker' = TellOfLeaver(PutMessage(
                      Write(Write(fresh, Session, Fact(OfSession(s), s)),
                            LeftPlayer, Fact(OfPlayer(s, p), p)), "multicast", LeftPlayer),
                      s, taken'[s], alive'[s])
    /\ Heard
    /\ UNCHANGED <<up, lobby, started, timer>>

\* A line before the game, after the one that says who the client is.
TooEarly(s, p) ==
    /\ Listening /\ ~started[s] /\ p \in taken[s]
    /\ broker' = Send(ForSession(fresh, s), s, p, "GAME_NOT_STARTED")
    /\ Heard
    /\ UNCHANGED <<up, taken, lobby, alive, started, timer>>

\* A client for whom no session has a seat: what the last session lacks is told.
Refuse ==
    /\ Listening /\ \A s \in Sessions : ~OpenTo(s)
    /\ broker' = [fresh EXCEPT !.told = <<[to |-> Everybody, params |-> <<>>,
           code |-> IF started[Cardinality(Sessions)] THEN "GAME_ALREADY_STARTED"
                    ELSE "SERVER_FULL"]>>]
    /\ Heard
    /\ UNCHANGED <<up, taken, lobby, alive, started, timer>>

\* The timer of the start runs out; that of a game that runs is not looked at.
Alarm(s) ==
    /\ Listening /\ timer[s] = "running" /\ ~started[s]
    /\ timer' = [timer EXCEPT ![s] = "alarmed"]
    /\ broker' = fresh
    /\ Heard
    /\ UNCHANGED <<up, taken, lobby, alive, started>>

-----------------------------------------------------------------------------
(* GameEventsHandle, one session after the other.                          *)

NextSession == at' = IF at = Cardinality(Sessions) THEN 0 ELSE at + 1

Enough(s) == lobby[s] >= MinPlayers
Launches(s) == Enough(s) /\ timer[s] # "running"

\* GameEvents is given the session, and gives it on.
Event(b, s) == ForSession(Give(b, "events", Session, Fact(OfSession(s), s)), s)

StartTime(b, s) ==
    IF Launches(s) THEN SendStartTime(Event(b, s), s, taken[s]) ELSE b

Countdown(s) ==
    /\ at = s /\ ~started[s] /\ timer[s] # "alarmed"
    /\ broker' = StartTime(fresh, s)
    /\ timer' = IF Launches(s) THEN [timer EXCEPT ![s] = "running"] ELSE timer
    /\ NextSession
    /\ UNCHANGED <<up, taken, lobby, alive, started>>

CheckStart(s) ==
    /\ at = s /\ ~started[s] /\ timer[s] = "alarmed"
    /\ LET b == Event(StartTime(fresh, s), s) IN
       IF Enough(s)
       THEN /\ broker' = PreparePlayersState(SendGameStarted(b, s, taken[s]), s, taken[s])
            /\ started' = [started EXCEPT ![s] = TRUE]
            /\ alive' = [alive EXCEPT ![s] = lobby[s]]
            /\ lobby' = [lobby EXCEPT ![s] = 0]
            /\ timer' = [timer EXCEPT ![s] = "running"]
       ELSE /\ broker' = SendStartCancelled(b, s, taken[s])
            /\ timer' = [timer EXCEPT ![s] = "idle"]
            /\ UNCHANGED <<started, alive, lobby>>
    /\ NextSession
    /\ UNCHANGED <<up, taken>>

Playing(s) == at = s /\ started[s]

NotAllReady(s) ==
    /\ Playing(s)
    /\ broker' = fresh
    /\ NextSession
    /\ UNCHANGED <<up, taken, lobby, alive, started, timer>>

SOURCE_AUCTION == 0
PRODUCTION_AUCTION == 1

\* What the sites of a session come to in a month: one site, at most.
Due == {[p \in Players |-> "nothing"]} \cup
       {[[q \in Players |-> "nothing"] EXCEPT ![p] = w] :
            p \in Players, w \in {"paid", "unpaid", "ready"}}

\* All who are alive have ended their month, in the other sessions, too: whose
\* results are told does not depend on it, only how many.
\* cannot: who cannot pay the charges; all: whether those who can have produced.
EndGameTurn(s, due, cannot, all) ==
    LET late == {p \in taken[s] : due[p] = "unpaid"}
        bankrots == late \cup cannot
        left == taken[s] \ bankrots
        auctions == StartAuction(StartAuction(Event(fresh, s), SOURCE_AUCTION),
                                 PRODUCTION_AUCTION)
        results == SendAuctionsResults(auctions, s, taken[s])
        built == CheckBuildingFactories(results, s, taken[s], due)
        paid == PayCharges(built, s, taken[s] \ late, cannot)
        quit == QuitBankrotPlayers(SendPlayersBankrot(paid, s, bankrots),
                                   s, left, bankrots, alive[s])
    IN /\ Playing(s)
       /\ \A p \in Players \ taken[s] : due[p] = "nothing"
       /\ cannot \subseteq taken[s] \ late
       /\ broker' = PrepareNewTurn(ForSession(quit, s), s, left, IF all THEN left ELSE {})
       /\ taken' = [taken EXCEPT ![s] = left]
       /\ alive' = [alive EXCEPT ![s] = @ - Cardinality(bankrots)]
       /\ NextSession
       /\ UNCHANGED <<up, lobby, started, timer>>

NextBrokers ==
    \/ Refuse
    \/ \E s \in Sessions :
           \/ NewClient(s) \/ Alarm(s)
           \/ Countdown(s) \/ CheckStart(s) \/ NotAllReady(s)
           \/ \E p \in Players : LeaveLobby(s, p) \/ LeaveGame(s, p) \/ TooEarly(s, p)
           \/ \E due \in Due, cannot \in SUBSET Players, all \in BOOLEAN :
                  EndGameTurn(s, due, cannot, all)

SpecBrokers == Init /\ [][NextBrokers]_vars
=============================================================================
