------------------------------- MODULE Rounds -------------------------------
(***************************************************************************)
(* What the months of a game are to those who play it: a set of players,   *)
(* who of them have ended the turn, and a month end that happens at once.  *)
(* GameSession, whose month end is a long walk over auctions, sites and    *)
(* accounts and which keeps two counters instead of the sets, implements   *)
(* this; so does the server that module Bot plays against.                 *)
(*                                                                         *)
(* ghosts are those who ended the turn and then left: the session goes on  *)
(* counting them as ready until the month ends.  missing is how many left  *)
(* the lobby: the session counts them as alive for ever.                   *)
(***************************************************************************)
EXTENDS Integers, FiniteSets

CONSTANT Players

VARIABLES
    running,   \* the server has not stopped
    month,
    present,   \* who is in the game
    ended,     \* who of them has ended the turn
    ghosts, missing

rounds == <<running, month, present, ended, ghosts, missing>>

Init ==
    /\ running = TRUE /\ month = 1
    /\ present \in SUBSET Players /\ ended = {}
    /\ ghosts = 0 /\ missing \in Nat

EndTurn(p) ==
    /\ running /\ p \in present \ ended
    /\ ended' = ended \cup {p}
    /\ UNCHANGED <<running, month, present, ghosts, missing>>

Leave(p) ==
    /\ running /\ p \in present
    /\ present' = present \ {p} /\ ended' = ended \ {p}
    /\ ghosts' = IF p \in ended THEN ghosts + 1 ELSE ghosts
    /\ UNCHANGED <<running, month, missing>>

\* ready_players equals alive_players.
AllReady == Cardinality(ended) + ghosts = Cardinality(present) + missing

\* The month ends for everybody at once, and takes the bankrupts out.
EndMonth ==
    /\ running /\ AllReady
    /\ present' \in SUBSET present
    /\ month' = month + 1
    /\ ended' = {} /\ ghosts' = 0
    /\ UNCHANGED <<running, missing>>

\* The server stops: there is no session any more.
Stop ==
    /\ running
    /\ running' = FALSE
    /\ month' = 0 /\ present' = {} /\ ended' = {} /\ ghosts' = 0 /\ missing' = 0

Next ==
    \/ \E p \in Players : EndTurn(p) \/ Leave(p)
    \/ EndMonth
    \/ Stop

Spec == Init /\ [][Next]_rounds

-----------------------------------------------------------------------------
\* A month that ends while nobody is missing and nobody has left after ending
\* the turn ends because everybody in the game has ended the turn.
EndsByTheirTurns ==
    [][month' > month /\ ghosts = 0 /\ missing = 0 => ended = present]_rounds

\* Who has ended the turn is heard of again in the next month only: the turn is
\* taken back by nothing but the month's end or leaving.
TurnsStand ==
    [][running' /\ month' = month => ended \cap present' \subseteq ended']_rounds
=============================================================================
