------------------------------- MODULE Lobby -------------------------------
(***************************************************************************)
(* The server before the games: clients are given seats in the sessions,   *)
(* leave again, and a countdown starts every session that has had enough   *)
(* players.  What a session is when it starts is what GameSession begins   *)
(* with.                                                                   *)
(*                                                                         *)
(* A pass of the server's loop looks at the descriptors in their order:    *)
(* the timers were opened first, then the listening socket, then the       *)
(* players' sockets.  GameEventsHandle ends the pass.  That a client's     *)
(* descriptor leads to its seat is taken as working (see README.md).       *)
(***************************************************************************)
EXTENDS Integers, FiniteSets

CONSTANTS
    MaxPlayers,      \* max_players: the seats of a session
    MinPlayers,      \* min_players_to_start
    NumSessions      \* current_sessions_count

\* Config::Load takes numbers from 1 on; that the least number of players is
\* not above the greatest is checked nowhere, and not needed.
ASSUME LobbyAssumption ==
    MaxPlayers \in Nat /\ MinPlayers \in Nat \ {0} /\ NumSessions \in Nat

VARIABLES
    stopped,         \* Server::Stop was called
    accepted,        \* this pass has accepted a client
    served,          \* the seats whose event this pass has handled
    taken,           \* for every session, the seats that are not free
    closed,          \* ... and those of them whose socket the server has closed
    lobby, alive,    \* lobby_players and alive_players
    started,         \* the sessions with game_started
    armed,           \* the sessions whose timer is running in the kernel
    launched, alarmed   \* the timers' flags is_launched and is_alarmed

pass   == <<accepted, served>>
seats  == <<taken, closed>>
counts == <<lobby, alive>>
timers == <<armed, launched, alarmed>>
vars == <<stopped, pass, seats, counts, started, timers>>

Players  == 1..MaxPlayers
Sessions == 1..NumSessions

Init ==
    /\ stopped = FALSE /\ accepted = FALSE /\ served = {}
    /\ taken = [s \in Sessions |-> {}] /\ closed = [s \in Sessions |-> {}]
    /\ lobby = [s \in Sessions |-> 0] /\ alive = [s \in Sessions |-> 0]
    /\ started = {} /\ armed = {} /\ launched = {} /\ alarmed = {}

-----------------------------------------------------------------------------
\* Mutant: the flags are set before the timer is stopped, which resets them.
TimerFires_Unalarmed(s) ==
    /\ ~stopped /\ ~accepted /\ served = {}
    /\ s \in armed
    /\ armed' = armed \ {s} /\ launched' = launched \ {s}
    /\ UNCHANGED <<stopped, pass, seats, counts, started, alarmed>>

\* The timer of a session has run out: StopTimer.
TimerFires(s) ==
    /\ ~stopped /\ ~accepted /\ served = {}
    /\ s \in armed
    /\ armed' = armed \ {s} /\ launched' = launched \ {s}
    /\ alarmed' = alarmed \cup {s}
    /\ UNCHANGED <<stopped, pass, seats, counts, started>>

\* AddNewClientToSession takes the first session that has not started and has
\* a free seat, and in it the first free seat.
Open(s) == s \notin started /\ taken[s] # Players

FirstOpen(s) == Open(s) /\ \A r \in Sessions : Open(r) => s <= r

\* Mutant: any free seat will do.
FirstFree_Any(s, p) == p \notin taken[s]

FirstFree(s, p) == p \notin taken[s] /\ \A q \in Players \ taken[s] : p <= q

\* A client is seated.  One that finds no open session is turned away, which
\* changes nothing.
Seated(s, p) ==
    /\ ~stopped /\ ~accepted /\ served = {}
    /\ FirstOpen(s) /\ FirstFree(s, p)
    /\ taken' = [taken EXCEPT ![s] = @ \cup {p}]
    /\ accepted' = TRUE /\ served' = {<<s, p>>}
    /\ UNCHANGED <<stopped, alive, started, timers>>

Join(s, p) ==
    /\ Seated(s, p)
    /\ lobby[s] < MaxPlayers
    /\ lobby' = [lobby EXCEPT ![s] = @ + 1]
    /\ UNCHANGED closed

\* SetLobbyPlayers refuses one player more.  The client has its seat by then,
\* and the exception has its socket closed.
JoinOverfull(s, p) ==
    /\ Seated(s, p)
    /\ lobby[s] = MaxPlayers
    /\ closed' = [closed EXCEPT ![s] = @ \cup {p}]
    /\ UNCHANGED lobby

\* A connection is lost in the lobby.  QuitPlayer frees the seat; alive_players
\* is 0 then and refuses to go down, so nobody is told and nothing is counted.
Leave(s, p) ==
    /\ ~stopped
    /\ s \notin started /\ p \in taken[s] \ closed[s] /\ <<s, p>> \notin served
    /\ taken' = [taken EXCEPT ![s] = @ \ {p}]
    /\ served' = served \cup {<<s, p>>}
    /\ UNCHANGED <<stopped, accepted, closed, counts, started, timers>>

\* A read or a send fails on a player's connection: the server stops.
ConnectionError ==
    /\ ~stopped
    /\ \E s \in Sessions : taken[s] # {}
    /\ stopped' = TRUE
    /\ UNCHANGED <<pass, seats, counts, started, timers>>

-----------------------------------------------------------------------------
Enough(s) == MinPlayers <= lobby[s] /\ lobby[s] <= MaxPlayers

\* GameEventsHandle launches the timer of a session with enough players.
Launching == {s \in Sessions \ started : Enough(s) /\ s \notin launched}

\* It looks at the alarm as it was before, so the timer may be launched again
\* in the very pass in which it has rung.
Ringing == (Sessions \ started) \cap alarmed

\* CheckStart: with enough players the game begins, else the start is cancelled.
Starting == {s \in Ringing : MinPlayers <= lobby[s]}

(***************************************************************************)
(* The end of a pass, for all sessions.  Starting a game moves             *)
(* lobby_players to alive_players (PrepareSessionState).  The next pass    *)
(* waits for all seated players' descriptors: with a closed one among them *)
(* select fails and the server stops.                                      *)
(***************************************************************************)
GameEventsHandle ==
    /\ ~stopped
    /\ launched' = launched \cup Launching
    /\ armed' = armed \cup Launching
    /\ alarmed' = alarmed \ (Launching \cup Ringing)
    /\ started' = started \cup Starting
    /\ alive' = [s \in Sessions |-> IF s \in Starting THEN lobby[s] ELSE alive[s]]
    /\ lobby' = [s \in Sessions |-> IF s \in Starting THEN 0 ELSE lobby[s]]
    /\ accepted' = FALSE /\ served' = {}
    /\ stopped' = (\E s \in Sessions : closed[s] # {})
    /\ UNCHANGED seats

Next ==
    \/ \E s \in Sessions : TimerFires(s)
    \/ \E s \in Sessions, p \in Players : Join(s, p) \/ JoinOverfull(s, p) \/ Leave(s, p)
    \/ ConnectionError
    \/ GameEventsHandle

Spec == Init /\ [][Next]_vars

\* The loop goes on by itself, and a timer that is set runs out: as the timers
\* come first in a pass, one that has run out is not kept waiting by clients.
FairSpec ==
    Spec /\ WF_vars(GameEventsHandle) /\ \A s \in Sessions : SF_vars(TimerFires(s))

-----------------------------------------------------------------------------
TypeOK ==
    /\ stopped \in BOOLEAN /\ accepted \in BOOLEAN
    /\ served \in SUBSET (Sessions \X Players)
    /\ taken \in [Sessions -> SUBSET Players] /\ closed \in [Sessions -> SUBSET Players]
    /\ lobby \in [Sessions -> 0..MaxPlayers] /\ alive \in [Sessions -> 0..MaxPlayers]
    /\ started \in SUBSET Sessions
    /\ armed \in SUBSET Sessions /\ launched \in SUBSET Sessions
    /\ alarmed \in SUBSET Sessions

\* However clients come and go, the seats taken are among the first
\* lobby_players ones: newcomers fill the gaps that leavers make.
SeatsWithinLobby ==
    \A s \in Sessions \ started : taken[s] \subseteq 1..lobby[s]

\* What GameSession assumes of its first state: a game starts with between
\* min_players_to_start and max_players counted as alive, the players present
\* on seats among the first that many, and the session's counter cleared.
StartsAsGameSession ==
    [][\A s \in started' \ started :
           /\ alive'[s] \in MinPlayers..MaxPlayers
           /\ taken'[s] \subseteq 1..alive'[s]
           /\ lobby'[s] = 0]_vars

\* When a timer has rung for a session that waits, enough players are counted:
\* the branch of CheckStart that cancels the start is never taken.
AlarmFindsEnough == \A s \in alarmed \ started : Enough(s)

\* Between two passes no session with enough players is without a countdown:
\* either the timer runs, or its alarm is yet to be looked at.
CountdownRuns ==
    ~stopped /\ ~accepted =>
        \A s \in Sessions \ started : Enough(s) => s \in armed \/ s \in alarmed

\* A session that has had enough players gets started, though the timer's
\* flags are set and reset by two handlers in the same pass.
EnoughStart ==
    \A s \in Sessions : Enough(s) ~> (s \in started \/ stopped)
=============================================================================
