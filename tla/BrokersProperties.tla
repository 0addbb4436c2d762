-------------------------- MODULE BrokersProperties --------------------------
(***************************************************************************)
(* What players are told has to be of their own game, and to be what their *)
(* programs can read.                                                      *)
(***************************************************************************)
EXTENDS Brokers

-----------------------------------------------------------------------------
\* Two messages are written without a PutMessage before: they tell of the session
\* that was put last, whichever it was.
WithoutSession == {"NEW_PLAYER_CONNECT", "AUCTION_RESULTS"}

Leavers(s) == taken[s] \ taken'[s]

\* The player's own numbers or his session's; of a player who left, one who does in
\* this step; of a bankrupt's charges it is only the session that is right.
Own(m) ==
    LET s == m.to[1] IN
    CASE m.code = "LOST_ALIVE_PLAYER" ->
             m.params \in {<<OfSession(s), OfPlayer(s, q)>> : q \in Leavers(s)}
      [] m.code = "PLAYER_BANKROT" ->
             m.params \in {<<OfPlayer(s, q)>> : q \in Players}
      [] OTHER -> \A of \in Range(m.params) : of \in {Everybody, OfSession(s), m.to}

\* Of whichever session it is, the numbers are of one.
OfOneSession(m) ==
    \E s \in Sessions :
        Range(m.params) \subseteq {Everybody, OfSession(s)} \cup {OfPlayer(s, p) : p \in Players}

\* Whatever was put for other sessions and players before, in whatever order, what a
\* player is told is what he, bot or human, reads at its positions, and is of himself
\* and of his session (PutMessage of the three brokers; BrokerMessages.cpp).
TellsItsOwn ==
    [][\A m \in Range(broker'.told) :
           /\ Fits(m.code, m.params, m.to \in Bots)
           /\ IF m.code \in WithoutSession THEN OfOneSession(m) ELSE Own(m)]_vars

\* How many messages with a code a player is sent.
Sent(b, s, p, code) ==
    Cardinality({i \in DOMAIN b.told : b.told[i].code = code /\ b.told[i].to = OfPlayer(s, p)})

\* However many leave at once, of their own will or bankrupt: who stays in the game
\* is told of each once, and of the last but the victory; only who stays is.
LeaversAreTold ==
    [][\A s \in Sessions : started[s] =>
           \A p \in Players :
               LET lost == Sent(broker', s, p, "LOST_ALIVE_PLAYER")
                   won == Sent(broker', s, p, "VICTORY_MESSAGE")
               IN IF p \in taken'[s]
                  THEN /\ lost + won = Cardinality(Leavers(s))
                       /\ won = IF Leavers(s) # {} /\ alive'[s] = 1 THEN 1 ELSE 0
                  ELSE lost + won = 0]_vars

-----------------------------------------------------------------------------
\* No step reads the messages of the step before.
WithoutTheMessages ==
    <<up, at, taken, lobby, alive, started, timer, broker.tokens,
      broker.multicast, broker.events, broker.messages>>
=============================================================================
