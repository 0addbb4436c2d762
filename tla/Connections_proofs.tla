------------------------- MODULE Connections_proofs -------------------------
(***************************************************************************)
(* Theorems of Connections for any number of clients and seats, and        *)
(* whatever max_players is set to while clients sit on them.               *)
(*                                                                         *)
(* The invariant says where a client can be: waiting, at one seat, or      *)
(* nowhere; that a seat taken in the lobby is one of the first             *)
(* lobby_players; that what is watched while the server waits is open; and *)
(* that who has not been heard has not lost the start of its first line.   *)
(***************************************************************************)
EXTENDS ConnectionsProperties, FiniteSetTheorems, SequenceTheorems, TLAPS

Waits(c) == peer[c] = "away" \/ \E i \in DOMAIN queue : queue[i] = c

Fresh(c) ==
    \/ incoming[c] = <<>> /\ sent[c] = 0 /\ c \notin half
    \/ /\ Len(incoming[c]) > 0
       /\ Head(incoming[c]).n = 1 /\ Head(incoming[c]).piece # "rest"

Piece == [piece : {"line", "start", "rest"}, n : Nat]

NetType ==
    /\ queue \in Seq(Clients)
    /\ peer \in [Clients -> {"away", "here", "gone"}]
    /\ incoming \in [Clients -> Seq(Piece)]
    /\ sent \in [Clients -> Nat]

Passes ==
    /\ at \in {"top", "waiting", "events"} => ready = {}
    /\ 0 \in ready => at = "handling" /\ queue # <<>>
    /\ at = "reading" => reading \notin ready

Places ==
    /\ \A p, q \in Seats : seat[p] # None /\ seat[p] = seat[q] => p = q
    /\ \A i, j \in DOMAIN queue : queue[i] = queue[j] => i = j
    /\ \A i \in DOMAIN queue : peer[queue[i]] # "away"
    /\ \A c \in Clients : Waits(c) => c \notin open /\ Fresh(c) /\ \A p \in Seats : seat[p] # c

Counters ==
    /\ IF game_started THEN lobby = 0 ELSE alive = 0
    /\ ~game_started => \A p \in Seats : seat[p] # None => p <= lobby
    /\ (\E p \in Seats : seat[p] \notin open \cup {None}) => Cardinality(Occupied) < lobby + alive

Opens ==
    /\ \A p \in ready \ {0} : seat[p] \in open
    /\ at = "reading" => seat[reading] \in open
    /\ game_started /\ at \in {"handling", "reading", "events"} => \A p \in Watched : seat[p] \in open
    /\ at = "waiting" => \A p \in Watched : seat[p] \in open

Heard ==
    ~game_started => \A p \in Seats : seat[p] # None /\ ~known[p] => Fresh(seat[p])

Types == TypeOK /\ NetType /\ Passes /\ Opens
Sits  == Places /\ Heard /\ BotByTheFirst
Sums  == Counters /\ NobodyUncounted

IInv == Types /\ Sits /\ Sums

-----------------------------------------------------------------------------
\* The seats, and those with an open connection, can be counted.
LEMMA OccupiedIsFinite ==
    /\ IsFiniteSet(Seats)
    /\ IsFiniteSet(Occupied) /\ Cardinality(Occupied) \in Nat
<1>1. IsFiniteSet(Seats)
    BY FS_Interval, ConnectionsAssumption DEF Seats
<1>2. Occupied \subseteq Seats
    BY DEF Occupied
<1> QED
    BY <1>1, <1>2, FS_Subset, FS_CardinalityType

LEMMA Initially == Init => IInv
<1> SUFFICES ASSUME Init PROVE IInv
    OBVIOUS
<1>1. TypeOK
    <2>1. max_players \in Seats /\ lobby \in 0..Allocated /\ alive \in 0..Allocated
          /\ signals \in 0..MaxSignals
        BY ConnectionsAssumption DEF Init, Seats
    <2>2. /\ seat \in [Seats -> Clients \cup {None}] /\ first \in [Seats -> Clients \cup {None}]
          /\ known \in [Seats -> BOOLEAN] /\ bot \in [Seats -> BOOLEAN]
        BY DEF Init
    <2> QED
        BY <2>1, <2>2 DEF Init, TypeOK
<1>2. NetType
    BY DEF Init, NetType
<1>3. Passes /\ Opens
    BY DEF Init, Passes, Opens
<1>4. Places /\ Heard /\ BotByTheFirst
    <2>1. \A c \in Clients : Fresh(c)
        BY DEF Init, Fresh
    <2>2. Places
        BY <2>1, ConnectionsAssumption DEF Init, Places
    <2> QED
        BY <2>2 DEF Init, Heard, BotByTheFirst
<1>5. Counters /\ NobodyUncounted
    <2>1. Occupied = {}
        BY ConnectionsAssumption DEF Init, Occupied
    <2> QED
        BY <2>1, FS_EmptySet DEF Init, Counters, NobodyUncounted
<1> QED
    BY <1>1, <1>2, <1>3, <1>4, <1>5 DEF IInv, Types, Sits, Sums

-----------------------------------------------------------------------------
(***************************************************************************)
(* The steps that neither change a seat or a counter nor the lines.        *)
(***************************************************************************)
LEMMA SameSits ==
    ASSUME Sits, UNCHANGED <<players, game_started, open, net>> PROVE Sits'
<1> USE DEF players, net, lines
<1>1. \A c : (Waits(c)' <=> Waits(c)) /\ (Fresh(c)' <=> Fresh(c))
    BY DEF Waits, Fresh
<1>2. Places'
    BY <1>1 DEF Sits, Places
<1>3. Heard' /\ BotByTheFirst'
    BY <1>1 DEF Sits, Heard, BotByTheFirst
<1> QED
    BY <1>2, <1>3 DEF Sits

LEMMA SameSums ==
    ASSUME Sums, UNCHANGED <<seat, counts, open>> PROVE Sums'
<1>1. Occupied' = Occupied
    BY DEF Occupied
<1> QED
    BY <1>1 DEF Sums, Counters, NobodyUncounted, counts

-----------------------------------------------------------------------------
(***************************************************************************)
(* The clients.                                                            *)
(***************************************************************************)
LEMMA ConnectKeeps == ASSUME IInv, NEW c \in Clients, Connect(c) PROVE IInv'
<1> USE DEF IInv, Types
<1>1. /\ queue' = Append(queue, c) /\ peer[c] = "away" /\ peer' = [peer EXCEPT ![c] = "here"]
      /\ UNCHANGED <<loop, flags, server, lines>> /\ at \in {"waiting", "reading"}
    BY DEF Connect, Blocked
<1>2. TypeOK' /\ NetType'
    BY <1>1 DEF TypeOK, NetType, loop, flags, server, players, counts, lines, Seats
<1>3. Passes' /\ Opens'
    BY <1>1 DEF Passes, Opens, Watched, loop, server, players, counts, TypeOK
<1>4. Places'
    <2>1. \A i \in DOMAIN queue : queue[i] # c
        BY <1>1 DEF Sits, Places
    <2>2. DOMAIN queue = 1..Len(queue) /\ DOMAIN queue' = 1..(Len(queue) + 1) /\ Len(queue) \in Nat
        BY <1>1 DEF NetType
    <2>3. \A i \in DOMAIN queue' : queue'[i] = IF i = Len(queue) + 1 THEN c ELSE queue[i]
        BY <1>1, <2>2 DEF NetType
    <2>4. \A i, j \in DOMAIN queue' : queue'[i] = queue'[j] => i = j
        BY <2>1, <2>2, <2>3 DEF Sits, Places
    <2>5. \A i \in DOMAIN queue' : peer'[queue'[i]] # "away"
        BY <1>1, <2>1, <2>2, <2>3 DEF Sits, Places, NetType
    <2>6. \A d \in Clients : Waits(d)' => Waits(d)
        BY <1>1, <2>2, <2>3 DEF Waits, NetType
    <2>7. \A d \in Clients : Fresh(d)' <=> Fresh(d)
        BY <1>1 DEF Fresh, lines
    <2> QED
        BY <1>1, <2>4, <2>5, <2>6, <2>7 DEF Sits, Places, server, players
<1>5. Heard' /\ BotByTheFirst'
    BY <1>1 DEF Sits, Heard, BotByTheFirst, Fresh, server, players, counts, lines
<1>6. Sums'
    BY <1>1, SameSums DEF server, players, counts
<1> QED
    BY <1>2, <1>3, <1>4, <1>5, <1>6 DEF Sits

\* A piece that is sent behind others leaves the first one; alone, it is the start
\* of the first line.
LEMMA SaysKeeps ==
    ASSUME IInv, NEW c \in Clients, NEW piece \in {"line", "start", "rest"}, NEW n \in Nat,
           Sends(c, piece, n), half' \subseteq Clients, sent' \in [Clients -> Nat],
           incoming[c] = <<>> /\ sent[c] = 0 /\ c \notin half => n = 1 /\ piece # "rest",
           \A d \in Clients : d # c => sent'[d] = sent[d] /\ (d \in half' <=> d \in half)
    PROVE  IInv'
<1> USE DEF IInv, Types
<1> DEFINE new == [piece |-> piece, n |-> n]
<1>1. /\ incoming' = [incoming EXCEPT ![c] = Append(@, new)]
      /\ UNCHANGED <<loop, flags, server, queue, peer>> /\ at \in {"waiting", "reading"}
    BY DEF Sends, Blocked
<1>2. TypeOK' /\ NetType'
    <2>1. new \in Piece
        BY DEF Piece
    <2>2. Append(incoming[c], new) \in Seq(Piece)
        BY <2>1 DEF NetType
    <2> HIDE DEF new
    <2>3. incoming' \in [Clients -> Seq(Piece)]
        BY <1>1, <2>2 DEF NetType
    <2> QED
        BY <1>1, <2>3 DEF TypeOK, NetType, loop, flags, server, players, counts, Seats
<1>3. Passes' /\ Opens'
    BY <1>1 DEF Passes, Opens, Watched, loop, server, players, counts, TypeOK
<1>4. \A d \in Clients : Fresh(d) => Fresh(d)'
    <2> SUFFICES ASSUME NEW d \in Clients, Fresh(d) PROVE Fresh(d)'
        OBVIOUS
    <2>1. CASE d # c
        BY <1>1, <2>1 DEF Fresh, NetType
    <2>2. CASE d = c
        <3>1. incoming'[c] = Append(incoming[c], new) /\ incoming[c] \in Seq(Piece)
            BY <1>1 DEF NetType
        <3>2. Len(incoming'[c]) > 0
            BY <3>1
        <3>3. CASE incoming[c] = <<>>
            <4>1. Head(incoming'[c]) = new /\ n = 1 /\ piece # "rest"
                BY <3>1, <3>3, <2>2 DEF Fresh
            <4> QED
                BY <4>1, <3>2, <2>2 DEF Fresh
        <3>4. CASE incoming[c] # <<>>
            <4>1. Head(incoming'[c]) = Head(incoming[c])
                BY <3>1, <3>4
            <4> QED
                BY <4>1, <3>2, <3>4, <2>2 DEF Fresh
        <3> QED
            BY <3>3, <3>4
    <2> QED
        BY <2>1, <2>2
<1>5. Places'
    BY <1>1, <1>4 DEF Sits, Places, Waits, server, players
<1>6. Heard'
    <2>1. \A p \in Seats : seat[p] # None => seat[p] \in Clients
        BY DEF TypeOK
    <2> QED
        BY <1>1, <1>4, <2>1 DEF Sits, Heard, server, players, counts
<1>7. BotByTheFirst'
    BY <1>1 DEF Sits, BotByTheFirst, server, players
<1>8. Sums'
    BY <1>1, SameSums DEF server, players, counts
<1> QED
    BY <1>2, <1>3, <1>5, <1>6, <1>7, <1>8 DEF Sits

LEMMA HangKeeps == ASSUME IInv, NEW c \in Clients, Hang(c) PROVE IInv'
<1> USE DEF IInv, Types
<1>1. /\ peer[c] = "here" /\ peer' = [peer EXCEPT ![c] = "gone"]
      /\ UNCHANGED <<loop, flags, server, queue, lines>>
    BY DEF Hang
<1>2. TypeOK' /\ NetType'
    BY <1>1 DEF TypeOK, NetType, loop, flags, server, players, counts, lines, Seats
<1>3. Passes' /\ Opens'
    BY <1>1 DEF Passes, Opens, Watched, loop, server, players, counts
<1>4. Places'
    <2>1. \A d \in Clients : (Waits(d)' => Waits(d)) /\ (Fresh(d)' <=> Fresh(d))
        BY <1>1 DEF Waits, Fresh, lines, NetType
    <2>2. \A i \in DOMAIN queue : peer'[queue[i]] # "away"
        BY <1>1 DEF Sits, Places, NetType
    <2> QED
        BY <1>1, <2>1, <2>2 DEF Sits, Places, server, players
<1>5. Heard' /\ BotByTheFirst'
    BY <1>1 DEF Sits, Heard, BotByTheFirst, Fresh, server, players, counts, lines
<1>6. Sums'
    BY <1>1, SameSums DEF server, players, counts
<1> QED
    BY <1>2, <1>3, <1>4, <1>5, <1>6 DEF Sits

LEMMA ClientsKeep ==
    ASSUME IInv, NEW c \in Clients, Connect(c) \/ Say(c) \/ SayHalf(c) \/ SayRest(c) \/ Hang(c)
    PROVE  IInv'
<1>1. CASE Connect(c)
    BY <1>1, ConnectKeeps
<1>2. sent \in [Clients -> Nat] /\ half \subseteq Clients
    BY DEF IInv, Types, NetType, TypeOK
<1>3. CASE Say(c)
    <2>1. sent' = [sent EXCEPT ![c] = @ + 1] /\ half' = half /\ Sends(c, "line", sent[c] + 1)
        BY <1>3 DEF Say
    <2> QED
        BY <1>2, <2>1, SaysKeeps
<1>4. CASE SayHalf(c)
    <2>1. sent' = [sent EXCEPT ![c] = @ + 1] /\ half' = half \cup {c} /\ Sends(c, "start", sent[c] + 1)
        BY <1>4 DEF SayHalf
    <2> QED
        BY <1>2, <2>1, SaysKeeps
<1>5. CASE SayRest(c)
    <2>1. sent' = sent /\ half' = half \ {c} /\ c \in half /\ Sends(c, "rest", sent[c])
        BY <1>5 DEF SayRest
    <2> QED
        BY <1>2, <2>1, SaysKeeps
<1>6. CASE Hang(c)
    BY <1>6, HangKeeps
<1> QED
    BY <1>1, <1>3, <1>4, <1>5, <1>6
-----------------------------------------------------------------------------
(***************************************************************************)
(* The signals, and the steps of the server that only go on.               *)
(***************************************************************************)
LEMMA OnlyGoesOnKeeps ==
    ASSUME IInv, UNCHANGED <<players, counts, open, net>>, TypeOK', Passes', Opens'
    PROVE  IInv'
<1>1. NetType'
    BY DEF IInv, Types, NetType, net, lines
<1>2. Sits' /\ Sums'
    BY SameSits, SameSums DEF IInv, players, counts
<1> QED
    BY <1>1, <1>2 DEF IInv, Types

LEMMA SignalsKeep == ASSUME IInv, exit_handler \/ g_cfg_handler PROVE IInv'
<1> USE DEF IInv, Types
<1>1. UNCHANGED <<at, ready, reading, server, net>>
    BY DEF exit_handler, g_cfg_handler
<1>2. interrupted' \in BOOLEAN
    BY Zenon DEF exit_handler, g_cfg_handler
<1>3. exit_flag' \in BOOLEAN /\ reload_cfg_flag' \in BOOLEAN
      /\ sig_number' \in {"none", "SIGINT", "SIGUSR1"}
    BY DEF TypeOK, exit_handler, g_cfg_handler
<1>4. signals' \in 0..MaxSignals
    BY ConnectionsAssumption DEF TypeOK, exit_handler, g_cfg_handler
<1>5. TypeOK'
    BY <1>1, <1>2, <1>3, <1>4 DEF TypeOK, server, players, counts, net, lines, Seats
<1>6. Passes' /\ Opens'
    BY <1>1 DEF Passes, Opens, Watched, server, players, counts, net
<1> QED
    BY <1>1, <1>5, <1>6, OnlyGoesOnKeeps DEF server

LEMMA HeadOfLoopKeeps ==
    ASSUME IInv, Exit \/ ReloadFails \/ (\E m \in MaxChoices : Reload(m)) PROVE IInv'
<1>1. UNCHANGED <<ready, reading, interrupted, sig_number, signals, players, counts, open, net>>
      /\ at = "top" /\ at' \in {"top", "stopped", "undefined"}
      /\ exit_flag' \in BOOLEAN /\ reload_cfg_flag' \in BOOLEAN
    BY DEF IInv, Types, TypeOK, Exit, ReloadFails, Reload, ApplySettings, server
<1>2. max_players' \in Seats
    BY ConnectionsAssumption DEF IInv, Types, TypeOK, Exit, ReloadFails, Reload, ApplySettings, server, Seats
<1>3. ready = {}
    BY <1>1 DEF IInv, Types, Passes
<1>4. TypeOK'
    BY <1>1, <1>2, <1>3 DEF IInv, Types, TypeOK, players, counts, net, lines, Seats, Ended
<1>5. Passes' /\ Opens'
    BY <1>1, <1>3 DEF Passes, Opens
<1> QED
    BY <1>1, <1>4, <1>5, OnlyGoesOnKeeps

LEMMA SelectKeeps == ASSUME IInv, Select \/ Selected \/ SelectInterrupted PROVE IInv'
<1> USE DEF IInv, Types
<1>1. UNCHANGED <<reading, flags, server, net>> /\ at \in {"top", "waiting"} /\ ready = {}
      /\ interrupted' \in BOOLEAN
    BY DEF Select, Selected, SelectInterrupted, TypeOK, Passes
<1>2. Watched' = Watched
    BY <1>1 DEF Watched, server, players
<1>3. CASE Select
    <2>1. ready' = {} /\ at' \in {"stopped", "waiting"}
          /\ (at' = "waiting" => \A p \in Watched : seat[p] \in open)
        BY <1>1, <1>3 DEF Select
    <2>2. TypeOK'
        BY <1>1, <2>1 DEF TypeOK, flags, server, players, counts, net, lines, Seats, Ended
    <2>3. Passes' /\ Opens'
        BY <1>1, <1>2, <2>1 DEF Passes, Opens, server, players
    <2> QED
        BY <1>1, <2>2, <2>3, OnlyGoesOnKeeps DEF server
<1>4. CASE Selected
    <2>1. /\ at = "waiting" /\ at' = (IF ready' = {} THEN "events" ELSE "handling")
          /\ ready' \subseteq Watched \cup {0} /\ (0 \in ready' => queue # <<>>)
        BY <1>4 DEF Selected, Watched, Seats
    <2>2. Watched \subseteq Seats /\ \A p \in Watched : p # 0 /\ seat[p] # None /\ seat[p] \in open
        BY <2>1 DEF Watched, Seats, Opens
    <2>3. TypeOK'
        BY <1>1, <2>1, <2>2 DEF TypeOK, flags, server, players, counts, net, lines, Seats
    <2>4. Passes' /\ Opens'
        BY <1>1, <1>2, <2>1, <2>2 DEF Passes, Opens, server, players, net
    <2> QED
        BY <1>1, <2>3, <2>4, OnlyGoesOnKeeps DEF server
<1>5. CASE SelectInterrupted
    <2>1. at = "waiting" /\ at' \in {"stopped", "events"} /\ ready' = {}
        BY <1>1, <1>5 DEF SelectInterrupted
    <2>2. TypeOK'
        BY <1>1, <2>1 DEF TypeOK, flags, server, players, counts, net, lines, Seats, Ended
    <2>3. Passes' /\ Opens'
        BY <1>1, <1>2, <2>1 DEF Passes, Opens, server, players
    <2> QED
        BY <1>1, <2>2, <2>3, OnlyGoesOnKeeps DEF server
<1> QED
    BY <1>3, <1>4, <1>5

LEMMA PassKeeps ==
    ASSUME IInv, (\E p \in Seats : Receive(p)) \/ ReadInterrupted \/ AllHandled \/ NoEvent
    PROVE  IInv'
<1> USE DEF IInv, Types
<1>1. UNCHANGED <<interrupted, flags, server, net>>
    BY DEF Receive, ReadInterrupted, AllHandled, NoEvent
<1>2. Watched' = Watched
    BY <1>1 DEF Watched, server, players
<1>3. ASSUME NEW p \in Seats, Receive(p) PROVE TypeOK' /\ Passes' /\ Opens'
    <2>1. at = "handling" /\ at' = "reading" /\ 0 \notin ready /\ p \in ready
          /\ reading' = p /\ ready' = ready \ {p}
        BY <1>3 DEF Receive
    <2>2. p # 0
        BY DEF Seats
    <2>3. TypeOK'
        BY <1>1, <2>1, <2>2 DEF TypeOK, flags, server, players, counts, net, lines, Seats
    <2> QED
        BY <1>1, <1>2, <2>1, <2>2, <2>3 DEF Passes, Opens, server, players, counts, net
<1>4. CASE ReadInterrupted
    <2>1. at = "reading" /\ at' = "stopped" /\ ready' = ready /\ reading' = reading
        BY <1>4 DEF ReadInterrupted
    <2>2. TypeOK'
        BY <1>1, <2>1 DEF TypeOK, flags, server, players, counts, net, lines, Seats, Ended
    <2> QED
        BY <1>1, <2>1, <2>2, OnlyGoesOnKeeps DEF Passes, Opens, server, players, counts, net
<1>5. CASE AllHandled \/ NoEvent
    <2>1. /\ ready' = {} /\ reading' = reading
          /\ (at = "handling" /\ at' = "events") \/ (at = "events" /\ at' = "top")
        BY <1>5 DEF AllHandled, NoEvent, Passes
    <2>2. TypeOK'
        BY <1>1, <2>1 DEF TypeOK, flags, server, players, counts, net, lines, Seats
    <2> QED
        BY <1>1, <1>2, <2>1, <2>2, OnlyGoesOnKeeps DEF Passes, Opens, server, players, counts, net
<1> QED
    BY <1>1, <1>3, <1>4, <1>5, OnlyGoesOnKeeps DEF server
-----------------------------------------------------------------------------
(***************************************************************************)
(* A seat is vacated, by a lost connection or a bankruptcy.                *)
(***************************************************************************)
LEMMA Vacated ==
    ASSUME IInv, NEW p \in Seats, seat[p] \in open,
           seat' = [seat EXCEPT ![p] = None], open' \in {open, open \ {seat[p]}},
           alive' = alive \/ (game_started /\ alive' = alive - 1),
           UNCHANGED <<known, bot, first, lobby, game_started, net>>
    PROVE  /\ Sits' /\ Sums' /\ alive' \in 0..Allocated
           /\ seat' \in [Seats -> Clients \cup {None}] /\ open' \subseteq Clients
           /\ \A q \in Seats : q # p => seat'[q] = seat[q] /\ (seat[q] \in open => seat[q] \in open')
<1> USE DEF IInv, Types
<1>1. seat \in [Seats -> Clients \cup {None}] /\ open \subseteq Clients /\ None \notin open
    BY ConnectionsAssumption DEF TypeOK
<1>2. \A q \in Seats : seat'[q] = IF q = p THEN None ELSE seat[q]
    BY <1>1
<1>3. \A q \in Seats : q # p => seat[q] # seat[p]
    BY <1>1 DEF Sits, Places
<1>4. seat' \in [Seats -> Clients \cup {None}] /\ open' \subseteq open
    BY <1>1
<1>5. \A q \in Seats : q # p => (seat[q] \in open' <=> seat[q] \in open)
    BY <1>3
<1>6. Occupied' = Occupied \ {p} /\ p \in Occupied
    BY <1>1, <1>2, <1>4, <1>5 DEF Occupied
<1>7. Cardinality(Occupied') = Cardinality(Occupied) - 1 /\ Cardinality(Occupied) \in Nat
    BY <1>6, OccupiedIsFinite, FS_RemoveElement
<1>8. Cardinality(Occupied) >= 1
    BY <1>6, <1>7, OccupiedIsFinite, FS_EmptySet
<1>9. lobby \in 0..Allocated /\ alive \in 0..Allocated /\ Cardinality(Occupied) <= lobby + alive
      /\ (game_started => lobby = 0)
    BY DEF TypeOK, Sums, Counters, NobodyUncounted
<1>10. alive' \in 0..Allocated
    BY <1>7, <1>8, <1>9, ConnectionsAssumption
<1>11. Sits'
    <2>1. \A c : (Waits(c)' <=> Waits(c)) /\ (Fresh(c)' <=> Fresh(c))
        BY DEF Waits, Fresh, net, lines
    <2>2. Places'
        BY <1>2, <1>4, <2>1, ConnectionsAssumption DEF Sits, Places, net
    <2>3. Heard' /\ BotByTheFirst'
        BY <1>2, <2>1 DEF Sits, Heard, BotByTheFirst
    <2> QED
        BY <2>2, <2>3 DEF Sits
<1>12. Sums'
    <2>1. NobodyUncounted'
        BY <1>7, <1>9 DEF NobodyUncounted
    <2>2. (\E q \in Seats : seat'[q] \notin open' \cup {None}) =>
              \E q \in Seats : seat[q] \notin open \cup {None}
        BY <1>2, <1>5
    <2>3. Counters'
        BY <1>2, <1>7, <1>9, <2>2 DEF Sums, Counters
    <2> QED
        BY <2>1, <2>3 DEF Sums
<1> QED
    BY <1>1, <1>2, <1>4, <1>5, <1>10, <1>11, <1>12

LEMMA LostKeeps == ASSUME IInv, Lost PROVE IInv'
<1> USE DEF IInv, Types
<1> DEFINE p == reading
<1>1. /\ at = "reading" /\ at' = "handling" /\ reading' = 0
      /\ seat' = [seat EXCEPT ![p] = None]
      /\ alive' = alive \/ (game_started /\ alive' = alive - 1)
      /\ open' \in {open, open \ {seat[p]}}
      /\ UNCHANGED <<ready, interrupted, flags, max_players, known, bot, first, lobby, game_started, net>>
    BY DEF Lost
<1>2. p \in Seats /\ seat[p] \in open /\ p \notin ready /\ 0 \notin ready
    BY <1>1 DEF TypeOK, Opens, Passes
<1> HIDE DEF p
<1>3. /\ Sits' /\ Sums' /\ alive' \in 0..Allocated
      /\ seat' \in [Seats -> Clients \cup {None}] /\ open' \subseteq Clients
      /\ \A q \in Seats : q # p => seat'[q] = seat[q] /\ (seat[q] \in open => seat[q] \in open')
    BY <1>1, <1>2, Vacated
<1>4. TypeOK'
    BY <1>1, <1>2, <1>3 DEF TypeOK, flags, net, lines, Seats
<1>5. NetType' /\ Passes'
    BY <1>1, <1>2 DEF NetType, Passes, net, lines
<1>6. Opens'
    <2>1. seat'[p] = None
        BY <1>1, <1>2 DEF TypeOK
    <2>2. \A q \in ready : q \in Seats /\ q # p
        BY <1>2 DEF TypeOK
    <2>3. \A q \in Watched' : q \in Watched /\ q # p
        BY <1>1, <1>3, <2>1 DEF Watched
    <2> QED
        BY <1>1, <1>3, <2>2, <2>3 DEF Opens, Watched
<1> QED
    BY <1>3, <1>4, <1>5, <1>6

LEMMA BankruptKeeps == ASSUME IInv, NEW p \in Seats, Bankrupt(p) PROVE IInv'
<1> USE DEF IInv, Types
<1>1. /\ at = "events" /\ at' \in {"top", "stopped"} /\ game_started /\ p \in Watched
      /\ seat' = [seat EXCEPT ![p] = None]
      /\ alive' = alive \/ (game_started /\ alive' = alive - 1)
      /\ UNCHANGED <<ready, reading, interrupted, flags, max_players, known, bot, first,
                     lobby, game_started, open, net>>
    BY DEF Bankrupt
<1>2. seat[p] \in open /\ ready = {}
    BY <1>1 DEF Opens, Passes
<1>3. /\ Sits' /\ Sums' /\ alive' \in 0..Allocated
      /\ seat' \in [Seats -> Clients \cup {None}]
    BY <1>1, <1>2, Vacated
<1>4. TypeOK'
    BY <1>1, <1>2, <1>3 DEF TypeOK, flags, net, lines, Seats, Ended
<1>5. NetType' /\ Passes' /\ Opens'
    BY <1>1, <1>2 DEF NetType, Passes, Opens, net, lines
<1> QED
    BY <1>3, <1>4, <1>5

LEMMA GameStartsKeeps == ASSUME IInv, GameStarts PROVE IInv'
<1> USE DEF IInv, Types
<1>1. /\ at = "events" /\ at' \in {"top", "stopped"} /\ ~game_started
      /\ \/ UNCHANGED counts
         \/ game_started' = TRUE /\ alive' = lobby /\ lobby' = 0
      /\ UNCHANGED <<ready, reading, interrupted, flags, max_players, players, open, net>>
    BY DEF GameStarts
<1>2. ready = {} /\ alive = 0 /\ lobby \in 0..Allocated
    BY <1>1 DEF Passes, Sums, Counters, TypeOK
<1>3. TypeOK'
    BY <1>1, <1>2, ConnectionsAssumption DEF TypeOK, flags, net, lines, players, counts, Seats, Ended
<1>4. NetType' /\ Passes' /\ Opens'
    BY <1>1, <1>2 DEF NetType, Passes, Opens, net, lines
<1>5. Sits'
    <2>1. \A c : (Waits(c)' <=> Waits(c)) /\ (Fresh(c)' <=> Fresh(c))
        BY <1>1 DEF Waits, Fresh, net, lines
    <2>2. Places' /\ BotByTheFirst'
        BY <1>1, <2>1 DEF Sits, Places, BotByTheFirst, players, net
    <2>3. Heard'
        BY <1>1, <2>1 DEF Sits, Heard, players, counts
    <2> QED
        BY <2>2, <2>3 DEF Sits
<1>6. Sums'
    <2>1. Occupied' = Occupied
        BY <1>1 DEF Occupied, players
    <2>2. lobby' + alive' = lobby + alive
        BY <1>1, <1>2 DEF counts
    <2>3. NobodyUncounted'
        BY <2>1, <2>2 DEF Sums, NobodyUncounted
    <2>4. Counters'
        BY <1>1, <2>1, <2>2 DEF Sums, Counters, counts, players
    <2> QED
        BY <2>3, <2>4 DEF Sums
<1> QED
    BY <1>3, <1>4, <1>5, <1>6
-----------------------------------------------------------------------------
(***************************************************************************)
(* A client is accepted, which may take a seat without being counted.      *)
(***************************************************************************)
LEMMA AcceptKeeps == ASSUME IInv, Accept PROVE IInv'
<1> USE DEF IInv, Types
<1> DEFINE c == Head(queue)
           found == {p \in Seats : ~game_started /\ GetFree(p)}
           seated == found # {} /\ lobby < max_players
<1>1. /\ at = "handling" /\ 0 \in ready /\ ready' = ready \ {0} /\ queue' = Tail(queue)
      /\ seat' = [p \in Seats |-> IF p \in found THEN c ELSE seat[p]]
      /\ lobby' = IF seated THEN lobby + 1 ELSE lobby
      /\ open' = IF seated THEN open \cup {c} ELSE open
      /\ peer' = IF seated THEN peer ELSE [peer EXCEPT ![c] = "gone"]
      /\ UNCHANGED <<at, reading, interrupted, flags, max_players, known, bot, first,
                     alive, game_started, lines>>
    BY DEF Accept
<1>2. /\ queue \in Seq(Clients) /\ queue # <<>> /\ Len(queue) \in Nat \ {0}
      /\ c = queue[1] /\ c \in Clients /\ 1 \in DOMAIN queue
      /\ queue' \in Seq(Clients)
      /\ DOMAIN queue' = 1..(Len(queue) - 1)
      /\ \A i \in DOMAIN queue' : i + 1 \in DOMAIN queue /\ queue'[i] = queue[i + 1]
    BY <1>1 DEF NetType, Passes
<1>3. /\ c \notin open /\ Fresh(c) /\ \A p \in Seats : seat[p] # c
      /\ peer[c] # "away" /\ c # None
    BY <1>2, ConnectionsAssumption DEF Sits, Places, Waits
<1>4. \A p \in found : /\ p \in Seats /\ ~game_started /\ p <= max_players /\ seat[p] = None
                       /\ \A q \in Seats : q < p => seat[q] # None
    BY DEF GetFree
<1>5. \A p, q \in found : p = q
    <2> SUFFICES ASSUME NEW p \in found, NEW q \in found, p # q PROVE FALSE
        OBVIOUS
    <2>1. p < q \/ q < p
        BY <1>4, ConnectionsAssumption DEF Seats
    <2> QED
        BY <1>4, <2>1
<1>6. /\ \A p \in Seats : seat'[p] = IF p \in found THEN c ELSE seat[p]
      /\ open \subseteq open' /\ \A d : d \in open' => d \in open \/ (d = c /\ seated)
      /\ seated => c \in open'
    BY <1>1
<1> HIDE DEF c, found
<1>7. /\ seat \in [Seats -> Clients \cup {None}] /\ open \subseteq Clients
      /\ lobby \in 0..Allocated /\ alive \in 0..Allocated /\ max_players \in Seats
    BY DEF TypeOK
<1>8. TypeOK'
    <2>1. seat' \in [Seats -> Clients \cup {None}] /\ open' \subseteq Clients
        BY <1>1, <1>2, <1>7
    <2>2. lobby' \in 0..Allocated
        BY <1>1, <1>7, ConnectionsAssumption DEF Seats
    <2>3. \A p \in ready' \ {0} : seat'[p] # None
        BY <1>1, <1>3, <1>6 DEF TypeOK
    <2> QED
        BY <1>1, <2>1, <2>2, <2>3 DEF TypeOK, flags, lines, Seats
<1>9. NetType' /\ Passes'
    <2>1. peer' \in [Clients -> {"away", "here", "gone"}]
        BY <1>1 DEF NetType
    <2> QED
        BY <1>1, <1>2, <2>1 DEF NetType, Passes, lines
<1>10. Opens'
    <2>1. \A p \in ready \ {0} : p \in Seats /\ p \notin found /\ seat[p] \in open
        BY <1>4 DEF TypeOK, Opens
    <2>2. \A p \in ready' \ {0} : seat'[p] \in open'
        BY <1>1, <1>6, <2>1
    <2>3. game_started => \A p \in Watched' : p \in Watched /\ seat'[p] = seat[p]
        BY <1>1, <1>4, <1>6 DEF Watched
    <2> QED
        BY <1>1, <1>6, <2>2, <2>3 DEF Opens
<1>11. Sits'
    <2>1. \A d \in Clients : Waits(d)' => Waits(d) /\ d # c
        BY <1>1, <1>2, <1>3 DEF Waits, Sits, Places, NetType
    <2>2. \A d : Fresh(d)' <=> Fresh(d)
        BY <1>1 DEF Fresh, lines
    <2>3. \A p, q \in Seats : seat'[p] # None /\ seat'[p] = seat'[q] => p = q
        BY <1>3, <1>5, <1>6 DEF Sits, Places
    <2>4. \A i, j \in DOMAIN queue' : queue'[i] = queue'[j] => i = j
        BY <1>2 DEF Sits, Places
    <2>5. \A i \in DOMAIN queue' : peer'[queue'[i]] # "away"
        BY <1>1, <1>2 DEF Sits, Places, NetType
    <2>6. Places'
        BY <1>6, <2>1, <2>2, <2>3, <2>4, <2>5 DEF Sits, Places
    <2>7. Heard'
        BY <1>1, <1>3, <1>6, <2>2 DEF Sits, Heard
    <2>8. BotByTheFirst'
        BY <1>1 DEF Sits, BotByTheFirst
    <2> QED
        BY <2>6, <2>7, <2>8 DEF Sits
<1>12. CASE found = {}
    <2>1. seat' = seat /\ lobby' = lobby /\ open' = open /\ alive' = alive /\ game_started' = game_started
        BY <1>1, <1>7, <1>12
    <2>2. Sums'
        BY <2>1, SameSums DEF counts
    <2> QED
        BY <1>8, <1>9, <1>10, <1>11, <2>2
<1>13. ASSUME NEW p \in found PROVE Sums'
    <2>1. found = {p} /\ p \in Seats /\ ~game_started /\ p <= max_players /\ seat[p] = None /\ alive = 0
          /\ p \notin Occupied
        BY <1>4, <1>5, <1>7, <1>13, ConnectionsAssumption DEF Sums, Counters, Occupied
    <2>2. p <= lobby + 1
        <3>1. CASE p = 1
            BY <3>1, <1>7
        <3>2. CASE p # 1
            <4>1. p - 1 \in Seats /\ p - 1 < p
                BY <2>1, <3>2, ConnectionsAssumption DEF Seats
            <4>2. seat[p - 1] # None
                BY <4>1, <1>4
            <4> QED
                BY <4>1, <4>2, <2>1, <1>7 DEF Sums, Counters, Seats
        <3> QED
            BY <3>1, <3>2
    <2>3. Cardinality(Occupied) <= lobby /\ Cardinality(Occupied) \in Nat
        BY <1>7, <2>1, OccupiedIsFinite DEF Sums, NobodyUncounted
    <2>4. CASE seated
        <3>1. lobby' = lobby + 1 /\ alive' = 0 /\ game_started' = game_started
            BY <1>1, <2>1, <2>4
        <3>2. Occupied' = Occupied \cup {p}
            BY <1>3, <1>6, <2>1, <2>4 DEF Occupied
        <3>3. Cardinality(Occupied') = Cardinality(Occupied) + 1
            BY <2>1, <3>2, OccupiedIsFinite, FS_AddElement
        <3>4. (\E q \in Seats : seat'[q] \notin open' \cup {None}) =>
                  \E q \in Seats : seat[q] \notin open \cup {None}
            BY <1>6, <2>1, <2>4
        <3>5. \A q \in Seats : seat'[q] # None => q <= lobby'
            <4> SUFFICES ASSUME NEW q \in Seats, seat'[q] # None PROVE q <= lobby + 1
                BY <3>1
            <4>1. q = p \/ seat[q] # None
                BY <1>6, <2>1
            <4>2. seat[q] # None => q <= lobby
                BY <2>1 DEF Sums, Counters
            <4> QED
                BY <4>1, <4>2, <2>2, <1>7 DEF Seats
        <3>6. (\E q \in Seats : seat[q] \notin open \cup {None}) => Cardinality(Occupied) < lobby
            BY <1>7, <2>1, <2>3 DEF Sums, Counters
        <3>7. Counters'
            BY <1>7, <2>1, <2>3, <3>1, <3>3, <3>4, <3>5, <3>6 DEF Counters
        <3>8. NobodyUncounted'
            BY <1>7, <2>3, <3>1, <3>3 DEF NobodyUncounted
        <3> QED
            BY <3>7, <3>8 DEF Sums
    <2>5. CASE ~seated
        <3>1. lobby' = lobby /\ alive' = 0 /\ open' = open /\ game_started' = game_started
            BY <1>1, <2>1, <2>5
        <3>2. p <= lobby /\ lobby \in Nat
            BY <1>7, <2>1, <2>5 DEF Seats
        <3>3. Occupied' = Occupied
            BY <1>3, <1>6, <2>1, <3>1, ConnectionsAssumption, <1>7 DEF Occupied
        <3>4. \A q \in Seats : seat[q] # None => q <= lobby
            BY <2>1 DEF Sums, Counters
        <3>5. Occupied \subseteq (1..lobby) \ {p}
            <4>1. \A q \in Occupied : q \in Seats /\ seat[q] # None /\ q # p
                BY <1>7, <2>1, ConnectionsAssumption DEF Occupied
            <4> QED
                BY <4>1, <3>4, <3>2 DEF Seats
        <3>6. IsFiniteSet(1..lobby) /\ Cardinality(1..lobby) = lobby
            BY <3>2, FS_Interval
        <3>7. p \in 1..lobby
            BY <2>1, <3>2 DEF Seats
        <3>8. IsFiniteSet((1..lobby) \ {p}) /\ Cardinality((1..lobby) \ {p}) = lobby - 1
            BY <3>6, <3>7, FS_RemoveElement
        <3>9. Cardinality(Occupied) <= lobby - 1
            <4>1. Cardinality(Occupied) <= Cardinality((1..lobby) \ {p})
                BY <3>5, <3>8, FS_Subset
            <4> QED
                BY <4>1, <3>8
        <3>10. \A q \in Seats : seat'[q] # None => q <= lobby'
            BY <1>6, <2>1, <3>1, <3>2, <3>4
        <3>11. Counters'
            BY <2>1, <2>3, <3>1, <3>2, <3>3, <3>9, <3>10 DEF Counters
        <3>12. NobodyUncounted'
            BY <2>3, <3>1, <3>2, <3>3 DEF NobodyUncounted
        <3> QED
            BY <3>11, <3>12 DEF Sums
    <2> QED
        BY <2>4, <2>5
<1> QED
    BY <1>8, <1>9, <1>10, <1>11, <1>12, <1>13

-----------------------------------------------------------------------------
(***************************************************************************)
(* A client is heard.  In the lobby its first piece is that of its first   *)
(* line.                                                                   *)
(***************************************************************************)
LEMMA HearKeeps == ASSUME IInv, Hear PROVE IInv'
<1> USE DEF IInv, Types
<1> DEFINE p == reading
           c == seat[p]
           fresh == ~(game_started \/ known[p])
<1>1. /\ at = "reading" /\ at' = "handling" /\ reading' = 0 /\ HasLine(c)
      /\ incoming' = [incoming EXCEPT ![c] = <<>>]
      /\ UNCHANGED <<ready, interrupted, flags, max_players, seat, counts, open, queue, peer, half, sent>>
    BY DEF Hear
<1>2. p \in Seats /\ c \in open /\ c \in Clients /\ 0 \notin ready
    BY <1>1 DEF TypeOK, Opens, Passes
<1>4. ASSUME fresh
      PROVE  /\ known' = [known EXCEPT ![p] = TRUE]
             /\ bot' = [bot EXCEPT ![p] = (c \in Bots)]
             /\ first' = [first EXCEPT ![p] = c]
    <2>1. Fresh(c) /\ incoming[c] # <<>>
        <3>1. Fresh(c)
            BY <1>2, <1>4, ConnectionsAssumption DEF Sits, Heard
        <3>2. incoming[c] # <<>>
            BY <1>1 DEF HasLine
        <3> QED
            BY <3>1, <3>2
    <2>2. IsIdentity(c, Message(c)) <=> c \in Bots
        BY <2>1 DEF Fresh, IsIdentity, Message
    <2>3. IsIdentity(c, Message(c)) = (c \in Bots)
        BY <2>2 DEF IsIdentity
    <2> QED
        BY <1>4, <2>3 DEF Hear
<1> HIDE DEF p, fresh
<1>5. /\ known' \in [Seats -> BOOLEAN] /\ bot' \in [Seats -> BOOLEAN]
      /\ first' \in [Seats -> Clients \cup {None}]
    <2>1. CASE ~fresh
        BY <2>1 DEF Hear, TypeOK, fresh, p
    <2>2. CASE fresh
        <3>1. known' \in [Seats -> BOOLEAN] /\ first' \in [Seats -> Clients \cup {None}]
            BY <1>2, <1>4, <2>2 DEF TypeOK
        <3>2. bot' = [bot EXCEPT ![p] = (c \in Bots)] /\ bot \in [Seats -> BOOLEAN]
            BY <1>4, <2>2 DEF TypeOK
        <3>3. (c \in Bots) \in BOOLEAN
            OBVIOUS
        <3>4. bot' \in [Seats -> BOOLEAN]
            BY <3>2, <3>3, Zenon
        <3> QED
            BY <3>1, <3>4
    <2> QED
        BY <2>1, <2>2
<1>6. TypeOK'
    BY <1>1, <1>5 DEF TypeOK, flags, counts, Seats
<1>7. NetType' /\ Passes' /\ Opens'
    <2>1. <<>> \in Seq(Piece) /\ incoming \in [Clients -> Seq(Piece)]
        BY DEF NetType
    <2>2. incoming' \in [Clients -> Seq(Piece)]
        BY <1>1, <2>1, Zenon
    <2> QED
        BY <1>1, <1>2, <2>2 DEF NetType, Passes, Opens, Watched, counts
<1>8. Sums'
    BY <1>1, SameSums
<1>9. Places'
    <2>1. \A d \in Clients : (Waits(d)' <=> Waits(d))
        BY <1>1 DEF Waits
    <2>2. \A d \in Clients : Waits(d) => d # c
        BY <1>2 DEF Sits, Places
    <2>3. \A d \in Clients : d # c => (Fresh(d)' <=> Fresh(d))
        BY <1>1 DEF Fresh, NetType
    <2> QED
        BY <1>1, <2>1, <2>2, <2>3 DEF Sits, Places
<1>10. Heard'
    <2> SUFFICES ASSUME ~game_started, NEW q \in Seats, seat[q] # None, ~known'[q] PROVE Fresh(seat[q])'
        BY <1>1 DEF Heard, counts
    <2>1. q # p /\ ~known[q]
        <3>1. CASE fresh
            BY <3>1, <1>2, <1>4 DEF TypeOK
        <3>2. CASE ~fresh
            <4>1. known' = known /\ known[p]
                BY <3>2 DEF Hear, fresh, p
            <4> QED
                BY <4>1
        <3> QED
            BY <3>1, <3>2
    <2>2. seat[q] # c /\ seat[q] \in Clients /\ Fresh(seat[q])
        BY <1>2, <2>1 DEF Sits, Places, Heard, TypeOK
    <2> QED
        BY <1>1, <2>2 DEF Fresh, NetType
<1>11. BotByTheFirst'
    <2>1. CASE ~fresh
        <3>1. UNCHANGED <<known, bot, first>>
            BY <2>1 DEF Hear, fresh, p
        <3> QED
            BY <3>1 DEF Sits, BotByTheFirst
    <2>2. CASE fresh
        <3>1. \A q \in Seats : q # p => known'[q] = known[q] /\ bot'[q] = bot[q] /\ first'[q] = first[q]
            BY <1>4, <2>2 DEF TypeOK
        <3>2. known'[p] = TRUE /\ bot'[p] = (c \in Bots) /\ first'[p] = c
            BY <1>2, <1>4, <2>2 DEF TypeOK
        <3> QED
            BY <3>1, <3>2, Zenon DEF Sits, BotByTheFirst
    <2> QED
        BY <2>1, <2>2
<1> QED
    BY <1>6, <1>7, <1>8, <1>9, <1>10, <1>11 DEF Sits

-----------------------------------------------------------------------------
\* Every step keeps the invariant, and so does a step of anything else.
LEMMA Inductive == IInv /\ [Next]_vars => IInv'
<1> SUFFICES ASSUME IInv, [Next]_vars PROVE IInv'
    OBVIOUS
<1>1. CASE UNCHANGED vars
    <2>1. UNCHANGED <<loop, flags, server, net>>
        BY <1>1 DEF vars
    <2>2. TypeOK'
        BY <2>1 DEF IInv, Types, TypeOK, loop, flags, server, players, counts, net, lines, Seats
    <2>3. Passes' /\ Opens'
        BY <2>1 DEF IInv, Types, Passes, Opens, Watched, loop, server, players, counts, net
    <2> QED
        BY <2>1, <2>2, <2>3, OnlyGoesOnKeeps DEF server
<1>2. CASE Server
    BY <1>2, HeadOfLoopKeeps, SelectKeeps, AcceptKeeps, PassKeeps, HearKeeps, LostKeeps,
       GameStartsKeeps, BankruptKeeps DEF Server
<1>3. CASE exit_handler \/ g_cfg_handler
    BY <1>3, SignalsKeep
<1>4. ASSUME NEW c \in Clients, Connect(c) \/ Say(c) \/ SayHalf(c) \/ SayRest(c) \/ Hang(c)
      PROVE  IInv'
    BY <1>4, ClientsKeep
<1> QED
    BY <1>1, <1>2, <1>3, <1>4 DEF Next

LEMMA Always == Spec => []IInv
    BY Initially, Inductive, PTL DEF Spec

\* The state of the loop and of its connections always has its type: the counters
\* never pass the players allocated, and what is handled or read is a seat that is
\* taken (Run, IncomingEventsHandle).
THEOREM ConnectionsTyped == Spec => []TypeOK
<1>1. IInv => TypeOK
    BY DEF IInv, Types
<1> QED
    BY <1>1, Always, PTL

\* For any number of clients and seats, nobody who sits at a table with an open
\* connection is missing from lobby_players and alive_players, whatever max_players
\* is set to meanwhile (SetLobbyPlayers, SetAlivePlayers, QuitPlayer, ApplySettings).
THEOREM EverybodyCounted == Spec => []NobodyUncounted
<1>1. IInv => NobodyUncounted
    BY DEF IInv, Sums
<1> QED
    BY <1>1, Always, PTL

\* A seat is a bot's exactly when the first client that was heard on it identified as
\* one, in one piece or in parts, and stays so for all that sit there later
\* (SetNewPlayer, PlayerEventHandle, IsCorrectIdentityMsg).
THEOREM BotsByTheFirst == Spec => []BotByTheFirst
<1>1. IInv => BotByTheFirst
    BY DEF IInv, Sits
<1> QED
    BY <1>1, Always, PTL

\* Only a client that came when lobby_players was full leaves a closed descriptor on
\* a seat that is watched (AddNewClientToSession, CloseConnection).
THEOREM WhyClosed == Spec => []ClosedByAFullCounter
<1>1. IInv => ClosedByAFullCounter
    <2> SUFFICES ASSUME IInv, NEW p \in Watched, seat[p] \notin open
                 PROVE  Cardinality({q \in Watched : seat[q] \in open}) < lobby + alive
        BY DEF ClosedByAFullCounter
    <2> DEFINE here == {q \in Watched : seat[q] \in open}
    <2>1. p \in Seats /\ seat[p] # None
        BY DEF Watched
    <2>2. Cardinality(Occupied) < lobby + alive
        BY <2>1 DEF IInv, Sums, Counters
    <2>3. here \subseteq Occupied
        BY DEF Watched, Occupied
    <2>4. Cardinality(here) <= Cardinality(Occupied) /\ Cardinality(here) \in Nat
        BY <2>3, OccupiedIsFinite, FS_Subset, FS_CardinalityType
    <2>5. lobby \in Int /\ alive \in Int
        BY DEF IInv, Types, TypeOK
    <2> QED
        BY <2>2, <2>4, <2>5, OccupiedIsFinite
<1> QED
    BY <1>1, Always, PTL
=============================================================================
