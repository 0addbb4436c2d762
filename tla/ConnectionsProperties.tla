----------------------- MODULE ConnectionsProperties -----------------------
(***************************************************************************)
(* What the server's loop owes the clients and the one who runs it.        *)
(***************************************************************************)
EXTENDS Connections

TypeOK ==
    /\ at \in {"top", "waiting", "handling", "reading", "events"} \cup Ended
    /\ ready \subseteq Seats \cup {0} /\ reading \in Seats \cup {0}
    /\ interrupted \in BOOLEAN /\ exit_flag \in BOOLEAN /\ reload_cfg_flag \in BOOLEAN
    /\ sig_number \in {"none", "SIGINT", "SIGUSR1"} /\ signals \in 0..MaxSignals
    /\ max_players \in Seats
    /\ seat \in [Seats -> Clients \cup {None}] /\ first \in [Seats -> Clients \cup {None}]
    /\ known \in [Seats -> BOOLEAN] /\ bot \in [Seats -> BOOLEAN]
    /\ lobby \in 0..Allocated /\ alive \in 0..Allocated /\ game_started \in BOOLEAN
    /\ open \subseteq Clients /\ half \subseteq Clients
    /\ \A p \in ready \ {0} : seat[p] # None
    /\ at = "reading" => reading # 0 /\ seat[reading] # None

Occupied == {p \in Seats : seat[p] \in open}

\* However clients come, go and go bankrupt, and whatever max_players is set to
\* meanwhile, nobody who sits at a table with an open connection is missing from the
\* counters: they are never too small (SetLobbyPlayers, SetAlivePlayers,
\* QuitPlayer, ApplySettings).
NobodyUncounted == Cardinality(Occupied) <= lobby + alive

\* A seat is taken for a bot's when the first client ever heard there is one:
\* the identity is never mistaken, be it sent in parts or with other lines behind it,
\* and it is kept for all clients that follow (SetNewPlayer, PlayerEventHandle).
BotByTheFirst ==
    \A p \in Seats : IF known[p] THEN bot[p] <=> first[p] \in Bots
                     ELSE ~bot[p] /\ first[p] = None

\* A descriptor that is closed and still watched, on which the server stops, is that
\* of a client that came when the counter was full though a seat was free
\* (AddNewClientToSession, CloseConnection).
ClosedByAFullCounter ==
    \A p \in Watched : seat[p] \notin open =>
        Cardinality({q \in Watched : seat[q] \in open}) < lobby + alive

AtTable(c) == \E p \in 1..max_players : seat[p] = c

\* What a client sends is read in the end, as long as its seat is one that is
\* looked at: no other client's half line and no signal keeps the server from it
\* for ever.
HeardInTheEnd ==
    \A c \in Clients :
        AtTable(c) /\ incoming[c] # <<>> ~> incoming[c] = <<>> \/ at \in Ended \/ ~AtTable(c)

\* SIGINT ends the server, wherever in its loop it comes: between the check of the
\* flag and select, before a read that blocks, or followed by SIGUSR1.
ExitIsObeyed == exit_flag ~> at \in Ended
=============================================================================
