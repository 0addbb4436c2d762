------------------------------ MODULE Records -------------------------------
(***************************************************************************)
(* The records of the server and what their setters take.  A record is     *)
(* made by setting one field after the other in memory that holds nothing; *)
(* a value that a setter does not take is an exception, which leaves the   *)
(* record as it is then.                                                   *)
(***************************************************************************)
EXTENDS Integers, Sequences, SequencesExt, TLC

Memory == <<>>

\* Sets the fields in order, as long as the setters take the values.
Sets(Takes(_, _, _), record, steps) ==
    FoldLeft(LAMBDA r, step :
                IF r.throws THEN r
                ELSE IF ~Takes(r.record, step[1], step[2]) THEN [r EXCEPT !.throws = TRUE]
                ELSE [r EXCEPT !.record = (step[1] :> step[2]) @@ @],
             [throws |-> FALSE, record |-> record], steps)

-----------------------------------------------------------------------------
(* MarketState and AuctionReport: no negative numbers. *)
MarketStateTakes(record, field, value) == value >= 0
AuctionReportTakes(record, field, value) == value >= 0

MarketState ==
    Sets(MarketStateTakes, Memory,
         <<<<"sources_amount", 0>>, <<"source_min_price", 0>>,
           <<"products_amount", 0>>, <<"product_max_price", 0>>>>)

AuctionReport ==
    Sets(AuctionReportTakes, Memory,
         <<<<"sold_sources", 0>>, <<"sold_price", 0>>,
           <<"bought_products", 0>>, <<"bought_price", 0>>>>)

-----------------------------------------------------------------------------
(* MarketData, a request: of a seat up to the greatest there is. *)
MarketDataTakes(record, field, value) ==
    CASE field = "player_id"           -> value \in 1..record["max_players"]
      [] field \in {"amount", "price"} -> value >= 0
      [] OTHER                         -> TRUE

MarketData(p_num, amnt, price_value, max_p) ==
    Sets(MarketDataTakes, Memory,
         <<<<"max_players", max_p>>, <<"player_id", p_num>>, <<"amount", amnt>>,
           <<"price", price_value>>, <<"success", FALSE>>>>)

MarketDataCopy(onto, data) ==
    Sets(MarketDataTakes, onto,
         <<<<"max_players", data["max_players"]>>, <<"player_id", data["player_id"]>>,
           <<"amount", data["amount"]>>, <<"price", data["price"]>>,
           <<"success", data["success"]>>>>)

\* What a move leaves of its source.
MarketDataMoved(data) ==
    Sets(MarketDataTakes, data,
         <<<<"player_id", 0>>, <<"amount", 0>>, <<"price", 0>>,
           <<"max_players", 0>>, <<"success", FALSE>>>>)

-----------------------------------------------------------------------------
(* BuildsData, a building site: of a number up to the greatest seat's. *)
BuildsDataTakes(record, field, value) ==
    CASE field = "build_number" -> value \in 1..record["max_players"]
      [] field = "turns_left"   -> value >= 0
      [] OTHER                  -> TRUE

BuildsData(num_value, turns_left_value, max_p) ==
    Sets(BuildsDataTakes, Memory,
         <<<<"max_players", max_p>>, <<"build_number", num_value>>,
           <<"turns_left", turns_left_value>>>>)

BuildsDataCopy(onto, data) ==
    Sets(BuildsDataTakes, onto,
         <<<<"max_players", data["max_players"]>>, <<"build_number", data["build_number"]>>,
           <<"turns_left", data["turns_left"]>>>>)

BuildsDataMoved(data) ==
    Sets(BuildsDataTakes, data,
         <<<<"build_number", 0>>, <<"turns_left", 0>>, <<"max_players", 0>>>>)

-----------------------------------------------------------------------------
(* Player: a seat. *)
Flags == <<"is_bot", "is_ident_message_recv", "is_turn", "is_bankrot",
           "sent_source_request", "sent_products_request">>

PlayerTakes(record, field, value) ==
    CASE field = "fd" -> value >= -1
      [] field \in {"uid", "sources", "products", "wait_factories", "work_factories",
                    "built_factories", "produced_on_turn"} -> value >= 0
      [] OTHER -> TRUE

\* Neither the report of the last auction nor the building sites.
Reset(player) ==
    Sets(PlayerTakes, player,
         <<<<"fd", -1>>, <<"money", 0>>, <<"old_money", 0>>, <<"income", 0>>,
           <<"sources", 0>>, <<"products", 0>>, <<"wait_factories", 0>>,
           <<"work_factories", 0>>, <<"built_factories", 0>>,
           <<"produced_on_turn", 0>>, <<"is_free", TRUE>>>>
         \o [i \in DOMAIN Flags |-> <<Flags[i], FALSE>>])

Player(p_fd, p_uid) == Sets(PlayerTakes, Reset(Memory).record, <<<<"uid", p_uid>>, <<"fd", p_fd>>>>)

SetFree(player) == Sets(PlayerTakes, player, <<<<"is_free", TRUE>>>>)

SetNewPlayer(player, cs) == Sets(PlayerTakes, player, <<<<"fd", cs>>, <<"is_free", FALSE>>>>)

-----------------------------------------------------------------------------
(* Banker: a session.  No counter is above max_players. *)
BankerTakes(max_players, field, value) ==
    CASE field \in {"alive_players", "ready_players", "lobby_players"} -> value \in 0..max_players
      [] field \in {"session_id", "turn_number", "cur_market_lvl"}     -> value >= 0
      [] OTHER                                                         -> TRUE

Banker(id_value, max_players) ==
    Sets(LAMBDA record, field, value : BankerTakes(max_players, field, value), Memory,
         <<<<"session_id", id_value>>, <<"players_prepared", FALSE>>, <<"game_started", FALSE>>,
           <<"lobby_players", 0>>, <<"alive_players", 0>>, <<"ready_players", 0>>,
           <<"turn_number", 0>>, <<"cur_market_lvl", 0>>>>)

\* Nothing calls it: the counters go down without their setters, in a game the
\* requests are deleted, and the seat is reset.
CleanPlayer(banker, requests, player) ==
    LET counted == IF banker["game_started"]
                   THEN [banker EXCEPT !["alive_players"] = @ - 1,
                                       !["ready_players"] = IF player["is_turn"] THEN @ - 1 ELSE @]
                   ELSE [banker EXCEPT !["lobby_players"] = @ - 1]
    IN  [banker   |-> counted,
         requests |-> IF banker["game_started"]
                      THEN {r \in requests : r["player_id"] # player["uid"]} ELSE requests,
         player   |-> Reset(player).record]

-----------------------------------------------------------------------------
(* What the records are to be.  Facts about single calls, so assumptions that TLC
   evaluates over small values. *)

Requests == {r \in {MarketData(p, a, c, m) : p, m \in 0..3, a, c \in -1..1} : ~r.throws}
Sites    == {r \in {BuildsData(b, t, m) : b, m \in 0..3, t \in -1..1} : ~r.throws}

\* A copy is equal to what it was copied from, onto whatever it is assigned.
ASSUME CopiesAreEqual ==
    /\ \A r, other \in Requests :
          \A onto \in {Memory, other.record} :
              MarketDataCopy(onto, r.record) = [throws |-> FALSE, record |-> r.record]
    /\ \A r, other \in Sites :
          \A onto \in {Memory, other.record} :
              BuildsDataCopy(onto, r.record) = [throws |-> FALSE, record |-> r.record]

\* No request and no site can be moved: what empties the source throws at the
\* first field and leaves it whole.  Nor can there be a default one.
ASSUME NothingMoves ==
    /\ \A r \in Requests : MarketDataMoved(r.record) = [throws |-> TRUE, record |-> r.record]
    /\ \A r \in Sites : BuildsDataMoved(r.record) = [throws |-> TRUE, record |-> r.record]
    /\ MarketData(0, 0, 0, 0).throws /\ BuildsData(0, 0, 0).throws

\* Seats somebody has left, with any of the flags.
Used == {[i \in DOMAIN Player(4, 1).record |->
             IF i \in {Flags[j] : j \in DOMAIN Flags} THEN i \in on
             ELSE IF i = "is_free" THEN FALSE ELSE Player(4, 1).record[i]]
           : on \in SUBSET {Flags[j] : j \in DOMAIN Flags}}

\* On a seat that was reset a newcomer is as on a new one; on one that was only
\* freed, which is what happens, exactly when no flag was left.
ASSUME FreedKeepsFlags ==
    \A seat \in Used :
        LET new == SetNewPlayer(Player(-1, 1).record, 7).record
        IN  /\ SetNewPlayer(Reset(seat).record, 7).record = new
            /\ SetNewPlayer(SetFree(seat).record, 7).record = new
                 <=> \A j \in DOMAIN Flags : ~seat[Flags[j]]

\* After CleanPlayer a game would be what it needs to be: its counters one less,
\* no turn counted of who is gone, and no request that is traded without him.
ASSUME CleaningCounts ==
    \A seat \in Used, max \in 1..2 :
        LET two  == ("game_started" :> TRUE @@ "alive_players" :> max @@ "ready_players" :> 1)
                        @@ Banker(1, max).record
            left == CleanPlayer(two, {r.record : r \in Requests}, seat)
        IN  /\ left.banker["alive_players"] = max - 1
            /\ left.banker["ready_players"] = 1 <=> ~seat["is_turn"]
            /\ \A f \in DOMAIN left.banker : BankerTakes(max, f, left.banker[f])
            /\ {r["player_id"] : r \in left.requests} = 2..3

\* What a new session, report and market hold is what their setters take.
ASSUME NewOnesAreTaken ==
    /\ ~MarketState.throws /\ ~AuctionReport.throws
    /\ \A max \in 1..8 : ~Banker(0, max).throws
    /\ \A max \in 1..8 : Banker(-1, max).throws
    /\ Player(-2, 1).throws /\ Player(-1, -1).throws

=============================================================================
