---------------------------- MODULE Connections ----------------------------
(***************************************************************************)
(* The server's loop and its connections: what select reports and in which *)
(* order it is handled, lines that come in parts or several at once, the   *)
(* two signals, and settings that are loaded again while clients sit on    *)
(* the seats they change.  One session; of its game there is only who      *)
(* plays.                                                                  *)
(*                                                                         *)
(* A client is its own descriptor.  What it has sent and the server has    *)
(* not read is a sequence of pieces, each with the number of its line: a   *)
(* whole line, the start of one without its end, and the rest of one.      *)
(***************************************************************************)
EXTENDS Integers, FiniteSets, FiniteSetsExt, SequencesExt

CONSTANTS
    Clients, Bots,    \* all that will ever connect; those that identify as bots
    None,
    Allocated,        \* max_players when the session's players were allocated
    MaxChoices,       \* the values of max_players a configuration file may have
    MinPlayers,       \* min_players_to_start
    MaxLines,         \* bound: the lines all clients send
    MaxSignals        \* bound: how often SIGUSR1 is sent

ASSUME ConnectionsAssumption ==
    /\ Bots \subseteq Clients /\ None \notin Clients
    /\ Allocated \in Nat \ {0} /\ MinPlayers \in Nat \ {0}
    /\ MaxChoices \subseteq Nat \ {0}
    /\ MaxLines \in Nat /\ MaxSignals \in Nat

VARIABLES
    at,               \* where the server's thread is
    ready,            \* what select has reported and is not handled: seats, 0 the listening socket
    reading,          \* the seat whose message is being received
    interrupted,      \* a signal has interrupted the call that blocks
    exit_flag, reload_cfg_flag, sig_number,
    signals,          \* how often SIGUSR1 has been sent
    max_players,
    seat,             \* for every player allocated its client, or None when free
    known, bot,       \* is_ident_message_recv and is_bot of every player
    first,            \* history: the client that was heard first on every seat
    lobby, alive,     \* lobby_players and alive_players
    game_started,
    open,             \* the clients whose sockets the server keeps open
    queue,            \* the clients waiting to be accepted
    peer,             \* every client: "away", "here" or "gone"
    half,             \* the clients in the middle of a line
    incoming,         \* what the server has not read of every client
    sent              \* the number of lines every client has begun

loop    == <<at, ready, reading, interrupted>>
flags   == <<exit_flag, reload_cfg_flag, sig_number, signals>>
players == <<seat, known, bot, first>>
counts  == <<lobby, alive, game_started>>
lines   == <<half, incoming, sent>>
net     == <<queue, peer, lines>>
server  == <<max_players, players, counts, open>>
vars    == <<loop, flags, server, net>>

Seats == 1..Allocated
Ended == {"stopped", "undefined"}

Init ==
    /\ at = "top" /\ ready = {} /\ reading = 0 /\ interrupted = FALSE
    /\ exit_flag = FALSE /\ reload_cfg_flag = FALSE /\ sig_number = "none" /\ signals = 0
    /\ max_players = Allocated
    /\ seat = [p \in Seats |-> None] /\ first = [p \in Seats |-> None]
    /\ known = [p \in Seats |-> FALSE] /\ bot = [p \in Seats |-> FALSE]
    /\ lobby = 0 /\ alive = 0 /\ game_started = FALSE
    /\ open = {} /\ queue = <<>> /\ peer = [c \in Clients |-> "away"] /\ half = {}
    /\ incoming = [c \in Clients |-> <<>>] /\ sent = [c \in Clients |-> 0]

-----------------------------------------------------------------------------
\* A line's end has come, and readline returns with all there is.
HasLine(c) == \E k \in DOMAIN incoming[c] : incoming[c][k].piece # "start"

\* readline gets no more from the peer: it returns 0, whatever it has read.
AtEnd(c) == ~HasLine(c) /\ peer[c] = "gone"

Blocked ==
    \/ at = "waiting"
    \/ at = "reading" /\ ~HasLine(seat[reading]) /\ ~AtEnd(seat[reading])

(***************************************************************************)
(* The clients.  They act while the server waits for them: what they do at *)
(* other times is first looked at when it waits again, or is the same as   *)
(* if it had been done before select returned.                             *)
(***************************************************************************)
Connect(c) ==
    /\ Blocked /\ peer[c] = "away"
    /\ peer' = [peer EXCEPT ![c] = "here"] /\ queue' = Append(queue, c)
    /\ UNCHANGED <<loop, flags, server, lines>>

Sends(c, piece, n) ==
    /\ Blocked /\ peer[c] = "here"
    /\ incoming' = [incoming EXCEPT ![c] = Append(@, [piece |-> piece, n |-> n])]
    /\ UNCHANGED <<loop, flags, server, queue, peer>>

MayBegin(c) == c \notin half /\ MapThenSumSet(LAMBDA d : sent[d], Clients) < MaxLines

Say(c) ==
    /\ MayBegin(c)
    /\ Sends(c, "line", sent[c] + 1)
    /\ sent' = [sent EXCEPT ![c] = @ + 1] /\ UNCHANGED half

SayHalf(c) ==
    /\ MayBegin(c)
    /\ Sends(c, "start", sent[c] + 1)
    /\ sent' = [sent EXCEPT ![c] = @ + 1] /\ half' = half \cup {c}

SayRest(c) ==
    /\ c \in half
    /\ Sends(c, "rest", sent[c])
    /\ half' = half \ {c} /\ UNCHANGED sent

Hang(c) ==
    /\ Blocked /\ peer[c] = "here"
    /\ peer' = [peer EXCEPT ![c] = "gone"]
    /\ UNCHANGED <<loop, flags, server, queue, lines>>

-----------------------------------------------------------------------------
\* SIGINT is taken without SA_RESTART: it interrupts a read as well as select.
exit_handler ==
    /\ at \notin Ended /\ ~exit_flag
    /\ exit_flag' = TRUE /\ sig_number' = "SIGINT"
    /\ interrupted' = (interrupted \/ Blocked)
    /\ UNCHANGED <<at, ready, reading, reload_cfg_flag, signals, server, net>>

\* Mutant: one number of a signal instead of two flags.
g_cfg_handler_Overwrites ==
    /\ at \notin Ended /\ signals < MaxSignals
    /\ reload_cfg_flag' = TRUE /\ exit_flag' = FALSE /\ sig_number' = "SIGUSR1"
    /\ signals' = signals + 1
    /\ interrupted' = (interrupted \/ at = "waiting")
    /\ UNCHANGED <<at, ready, reading, server, net>>

\* SIGUSR1 is taken with SA_RESTART, which select does not heed.
g_cfg_handler ==
    /\ at \notin Ended /\ signals < MaxSignals
    /\ reload_cfg_flag' = TRUE /\ sig_number' = "SIGUSR1"
    /\ signals' = signals + 1
    /\ interrupted' = (interrupted \/ at = "waiting")
    /\ UNCHANGED <<at, ready, reading, exit_flag, server, net>>

-----------------------------------------------------------------------------
(***************************************************************************)
(* The head of the loop of Run.                                            *)
(***************************************************************************)
Exit ==
    /\ at = "top" /\ exit_flag
    /\ at' = "stopped" /\ exit_flag' = FALSE
    /\ UNCHANGED <<ready, reading, interrupted, reload_cfg_flag, sig_number, signals, server, net>>

\* The settings of the file are given to as many players as it says there are.
ApplySettings(m) ==
    /\ at' = IF m > Allocated THEN "undefined" ELSE "top"
    /\ max_players' = IF m > Allocated THEN max_players ELSE m

\* ReloadGameConfig.
Reload(m) ==
    /\ at = "top" /\ ~exit_flag /\ reload_cfg_flag
    /\ reload_cfg_flag' = FALSE
    /\ ApplySettings(m)
    /\ UNCHANGED <<ready, reading, interrupted, exit_flag, sig_number, signals,
                   players, counts, open, net>>

\* A file that is no JSON ends the program.
ReloadFails ==
    /\ at = "top" /\ ~exit_flag /\ reload_cfg_flag
    /\ at' = "stopped" /\ reload_cfg_flag' = FALSE
    /\ UNCHANGED <<ready, reading, interrupted, exit_flag, sig_number, signals, server, net>>

\* Mutant: the last seat is left out.
Watched_OffByOne == {p \in Seats : p < max_players /\ seat[p] # None}

\* GetValidFdsList: the seats that are not free, as far as max_players goes.
Watched == {p \in Seats : p <= max_players /\ seat[p] # None}

\* RefillReadfds and the call of select, which refuses a closed descriptor.
Select ==
    /\ at = "top" /\ ~exit_flag /\ ~reload_cfg_flag
    /\ at' = IF \E p \in Watched : seat[p] \notin open THEN "stopped" ELSE "waiting"
    /\ UNCHANGED <<ready, reading, interrupted, flags, server, net>>

\* select returns with what there is to read, or with nothing after half a second.
Selected ==
    /\ at = "waiting" /\ ~interrupted
    /\ ready' = {p \in Watched : incoming[seat[p]] # <<>> \/ peer[seat[p]] = "gone"}
                   \cup (IF queue = <<>> THEN {} ELSE {0})
    /\ at' = IF ready' = {} THEN "events" ELSE "handling"
    /\ UNCHANGED <<reading, interrupted, flags, server, net>>

\* EINTR: what the signal was, is asked of the number of the last one.
SelectInterrupted ==
    /\ at = "waiting" /\ interrupted
    /\ at' = IF sig_number = "SIGINT" THEN "stopped" ELSE "events"
    /\ interrupted' = FALSE
    /\ UNCHANGED <<ready, reading, flags, server, net>>

-----------------------------------------------------------------------------
(***************************************************************************)
(* IncomingEventsHandle: the listening socket, then the players.           *)
(***************************************************************************)
GetFree(p) ==
    /\ p <= max_players /\ seat[p] = None
    /\ \A q \in Seats : q < p => seat[q] # None

\* NewClientHandle with AddNewClientToSession and SetNewPlayer, which leaves the
\* flags of the seat as they are.  A client is turned away when the game has
\* started or no seat is free; and when lobby_players cannot go up any more, in
\* which case it keeps the seat it has been given before.
Accept ==
    /\ at = "handling" /\ 0 \in ready
    /\ ready' = ready \ {0} /\ queue' = Tail(queue)
    /\ LET c == Head(queue)
           found  == {p \in Seats : ~game_started /\ GetFree(p)}
           seated == found # {} /\ lobby < max_players
       IN  /\ seat' = [p \in Seats |-> IF p \in found THEN c ELSE seat[p]]
           /\ lobby' = IF seated THEN lobby + 1 ELSE lobby
           /\ open' = IF seated THEN open \cup {c} ELSE open
           /\ peer' = IF seated THEN peer ELSE [peer EXCEPT ![c] = "gone"]
    /\ UNCHANGED <<at, reading, interrupted, flags, max_players, known, bot, first,
                   alive, game_started, lines>>

\* PlayerEventHandle goes to read, whatever else has been asked of the server.
Receive(p) ==
    /\ at = "handling" /\ 0 \notin ready /\ p \in ready
    /\ at' = "reading" /\ reading' = p /\ ready' = ready \ {p}
    /\ UNCHANGED <<interrupted, flags, server, net>>

\* A read that is interrupted is an error, and an error stops the server.
ReadInterrupted ==
    /\ at = "reading" /\ interrupted
    /\ at' = "stopped"
    /\ UNCHANGED <<ready, reading, interrupted, flags, server, net>>

\* Mutant: the last of the lines that have come is taken.
Message_Last(c) == Last(incoming[c])

\* RecvMessage keeps the first line of what has come; this is its first piece.
Message(c) == Head(incoming[c])

\* IsCorrectIdentityMsg: a bot's first line, from its beginning.
IsIdentity(c, piece) == c \in Bots /\ piece.n = 1 /\ piece.piece # "rest"

\* A line is there.  In the lobby the first one on a seat tells a bot, and later
\* ones are answered; in the game it is a command.  All that has come with it is lost.
Hear ==
    /\ at = "reading" /\ ~interrupted
    /\ LET p == reading
           c == seat[p]
       IN  /\ HasLine(c)
           /\ incoming' = [incoming EXCEPT ![c] = <<>>]
           /\ IF game_started \/ known[p] THEN UNCHANGED <<known, bot, first>>
              ELSE /\ known' = [known EXCEPT ![p] = TRUE]
                   /\ bot' = [bot EXCEPT ![p] = IsIdentity(c, Message(c))]
                   /\ first' = [first EXCEPT ![p] = c]
    /\ at' = "handling" /\ reading' = 0
    /\ UNCHANGED <<ready, interrupted, flags, max_players, seat, counts, open, queue, peer, half, sent>>

\* Mutant: the seat is not freed.
Lost_KeepsSeat ==
    /\ at = "reading" /\ ~interrupted /\ AtEnd(seat[reading])
    /\ alive' = IF game_started THEN alive - 1 ELSE alive
    /\ open' = IF game_started THEN open \ {seat[reading]} ELSE open
    /\ at' = "handling" /\ reading' = 0
    /\ UNCHANGED <<ready, interrupted, flags, max_players, players, lobby, game_started, net>>

\* The connection is lost: QuitPlayer frees the seat and counts alive_players down.
\* It cannot in the lobby, where it is 0, nor when fewer players are allowed
\* since; then the socket is never closed.
Lost ==
    /\ at = "reading" /\ ~interrupted /\ AtEnd(seat[reading])
    /\ LET counted == game_started /\ alive - 1 <= max_players
       IN  /\ alive' = IF counted THEN alive - 1 ELSE alive
           /\ open' = IF counted THEN open \ {seat[reading]} ELSE open
    /\ seat' = [seat EXCEPT ![reading] = None]
    /\ at' = "handling" /\ reading' = 0
    /\ UNCHANGED <<ready, interrupted, flags, max_players, known, bot, first, lobby, game_started, net>>

AllHandled ==
    /\ at = "handling" /\ ready = {}
    /\ at' = "events"
    /\ UNCHANGED <<ready, reading, interrupted, flags, server, net>>

-----------------------------------------------------------------------------
(***************************************************************************)
(* GameEventsHandle, the end of a pass.                                    *)
(***************************************************************************)
NoEvent ==
    /\ at = "events"
    /\ at' = "top"
    /\ UNCHANGED <<ready, reading, interrupted, flags, server, net>>

\* Mutant: as many are alive as the start needs.
GameStarts_Fewest ==
    /\ at = "events" /\ ~game_started /\ lobby >= MinPlayers
    /\ IF lobby > max_players
       THEN at' = "stopped" /\ UNCHANGED counts
       ELSE at' = "top" /\ game_started' = TRUE /\ alive' = MinPlayers /\ lobby' = 0
    /\ UNCHANGED <<ready, reading, interrupted, flags, max_players, players, open, net>>

\* The countdown is over and CheckStart counts enough players.  More of them than
\* are allowed since is an error.
GameStarts ==
    /\ at = "events" /\ ~game_started /\ lobby >= MinPlayers
    /\ IF lobby > max_players
       THEN at' = "stopped" /\ UNCHANGED counts
       ELSE at' = "top" /\ game_started' = TRUE /\ alive' = lobby /\ lobby' = 0
    /\ UNCHANGED <<ready, reading, interrupted, flags, max_players, players, open, net>>

\* A month's end finds a player bankrupt: QuitBankrotPlayers.  The list of the
\* sockets to close is a copy, so they are kept.
Bankrupt(p) ==
    /\ at = "events" /\ game_started /\ p \in Watched
    /\ seat' = [seat EXCEPT ![p] = None]
    /\ IF alive - 1 > max_players
       THEN at' = "stopped" /\ UNCHANGED alive
       ELSE at' = "top" /\ alive' = alive - 1
    /\ UNCHANGED <<ready, reading, interrupted, flags, max_players, known, bot, first,
                   lobby, game_started, open, net>>

-----------------------------------------------------------------------------
Server ==
    \/ Exit \/ ReloadFails \/ \E m \in MaxChoices : Reload(m)
    \/ Select \/ Selected \/ SelectInterrupted
    \/ Accept \/ \E p \in Seats : Receive(p)
    \/ ReadInterrupted \/ Hear \/ Lost \/ AllHandled
    \/ NoEvent \/ GameStarts \/ \E p \in Seats : Bankrupt(p)

Next ==
    \/ Server \/ exit_handler \/ g_cfg_handler
    \/ \E c \in Clients : Connect(c) \/ Say(c) \/ SayHalf(c) \/ SayRest(c) \/ Hang(c)

\* The loop goes on by itself.  A client that has sent the start of a line sends
\* its rest, or is gone; the repository's clients send a line in one call.
Spec == Init /\ [][Next]_vars /\ WF_vars(Server) /\ \A c \in Clients : WF_vars(SayRest(c) \/ Hang(c))
=============================================================================
