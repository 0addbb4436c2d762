---------------------------- MODULE Lobby_proofs ----------------------------
(***************************************************************************)
(* Theorems of Lobby for any number of seats, of sessions and any least    *)
(* number of players.  The invariants of Lobby are inductive together once *)
(* two facts about the timers are added: the flag is_launched tells whether*)
(* the timer runs, and a timer runs only for a session that has enough     *)
(* players.                                                                *)
(***************************************************************************)
EXTENDS Lobby, TLAPS

TimersTold == launched = armed

ArmedHasEnough == \A s \in armed \ started : Enough(s)

IInv ==
    /\ TypeOK /\ SeatsWithinLobby /\ AlarmFindsEnough /\ CountdownRuns
    /\ TimersTold /\ ArmedHasEnough

\* The first free seat of a session whose seats are among the first
\* lobby_players ones is among these or the one after them.
LEMMA FirstFreeIsNear ==
    ASSUME TypeOK, NEW s \in Sessions, NEW p \in Players,
           taken[s] \subseteq 1..lobby[s], FirstFree(s, p)
    PROVE  p <= lobby[s] + 1
<1>1. lobby[s] \in 0..MaxPlayers /\ p \in Int
    BY LobbyAssumption DEF TypeOK, Players
<1>2. SUFFICES ASSUME p > lobby[s] + 1 PROVE FALSE
    BY <1>1, LobbyAssumption
<1>3. lobby[s] + 1 \in Players
    BY <1>1, <1>2, LobbyAssumption DEF Players
<1>4. lobby[s] + 1 \notin taken[s]
    BY <1>1, LobbyAssumption
<1> QED
    BY <1>1, <1>2, <1>3, <1>4, LobbyAssumption DEF FirstFree

LEMMA Initially == Init => IInv
<1> SUFFICES ASSUME Init PROVE IInv
    OBVIOUS
<1>1. TypeOK
    <2>1. lobby \in [Sessions -> 0..MaxPlayers] /\ alive \in [Sessions -> 0..MaxPlayers]
        BY LobbyAssumption DEF Init
    <2>2. taken \in [Sessions -> SUBSET Players] /\ closed \in [Sessions -> SUBSET Players]
        BY DEF Init
    <2> QED
        BY <2>1, <2>2 DEF Init, TypeOK
<1>2. SeatsWithinLobby /\ AlarmFindsEnough /\ TimersTold /\ ArmedHasEnough
    BY DEF Init, SeatsWithinLobby, AlarmFindsEnough, TimersTold, ArmedHasEnough
<1>3. CountdownRuns
    BY LobbyAssumption DEF Init, CountdownRuns, Enough
<1> QED
    BY <1>1, <1>2, <1>3 DEF IInv

\* The steps before the end of a pass, one lemma each.
LEMMA TimerFiresKeeps ==
    ASSUME IInv, NEW s \in Sessions, TimerFires(s) PROVE IInv'
<1>1. TypeOK'
    BY DEF IInv, TimerFires, TypeOK, pass, seats, counts
<1>2. SeatsWithinLobby' /\ TimersTold'
    BY DEF IInv, TimerFires, SeatsWithinLobby, TimersTold, seats, counts
<1>3. AlarmFindsEnough' /\ ArmedHasEnough'
    BY DEF IInv, TimerFires, AlarmFindsEnough, ArmedHasEnough, Enough, counts
<1>4. CountdownRuns'
    BY DEF IInv, TimerFires, CountdownRuns, Enough, counts, pass
<1> QED
    BY <1>1, <1>2, <1>3, <1>4 DEF IInv

LEMMA JoinKeeps ==
    ASSUME IInv, NEW s \in Sessions, NEW p \in Players, Join(s, p) PROVE IInv'
<1>1. lobby[s] \in 0..MaxPlayers /\ s \notin started
    BY DEF IInv, TypeOK, Join, Seated, FirstOpen, Open
<1>2. \A r \in Sessions : lobby'[r] = IF r = s THEN lobby[r] + 1 ELSE lobby[r]
    BY DEF IInv, TypeOK, Join
<1>3. TypeOK'
    <2>1. lobby' \in [Sessions -> 0..MaxPlayers]
        BY <1>1, LobbyAssumption DEF IInv, TypeOK, Join
    <2>2. taken' \in [Sessions -> SUBSET Players] /\ served' \in SUBSET (Sessions \X Players)
        BY DEF IInv, TypeOK, Join, Seated
    <2> QED
        BY <2>1, <2>2 DEF IInv, TypeOK, Join, Seated, timers
<1>4. SeatsWithinLobby'
    <2> SUFFICES ASSUME NEW r \in Sessions, r \notin started PROVE taken'[r] \subseteq 1..lobby'[r]
        BY DEF SeatsWithinLobby, Join, Seated
    <2>1. taken[r] \subseteq 1..lobby[r] /\ lobby[r] \in 0..MaxPlayers
        BY DEF IInv, SeatsWithinLobby, TypeOK
    <2>2. CASE r # s
        BY <2>1, <2>2, <1>2 DEF IInv, TypeOK, Join, Seated
    <2>3. CASE r = s
        <3>1. p <= lobby[s] + 1
            BY <2>1, <2>3, FirstFreeIsNear DEF IInv, Join, Seated
        <3>2. taken'[s] = taken[s] \cup {p} /\ p \in 1..MaxPlayers
            BY DEF IInv, TypeOK, Join, Seated, Players
        <3> QED
            BY <3>1, <3>2, <2>1, <2>3, <1>2, LobbyAssumption
    <2> QED
        BY <2>2, <2>3
<1>5. \A r \in Sessions : Enough(r) => Enough(r)'
    BY <1>2, LobbyAssumption DEF IInv, TypeOK, Join, Enough
<1>6. AlarmFindsEnough' /\ ArmedHasEnough' /\ TimersTold'
    BY <1>5 DEF IInv, TypeOK, AlarmFindsEnough, ArmedHasEnough, TimersTold, Join, Seated, timers
<1>7. CountdownRuns'
    BY DEF CountdownRuns, Join, Seated
<1> QED
    BY <1>3, <1>4, <1>6, <1>7 DEF IInv

LEMMA JoinOverfullKeeps ==
    ASSUME IInv, NEW s \in Sessions, NEW p \in Players, JoinOverfull(s, p) PROVE IInv'
<1>1. TypeOK'
    BY DEF IInv, TypeOK, JoinOverfull, Seated, timers
<1>2. SeatsWithinLobby'
    <2> SUFFICES ASSUME NEW r \in Sessions, r \notin started PROVE taken'[r] \subseteq 1..lobby'[r]
        BY DEF SeatsWithinLobby, JoinOverfull, Seated
    <2>1. taken[r] \subseteq 1..lobby[r] /\ lobby' = lobby
        BY DEF IInv, SeatsWithinLobby, JoinOverfull
    <2>2. CASE r # s
        BY <2>1, <2>2 DEF IInv, TypeOK, JoinOverfull, Seated
    <2>3. CASE r = s
        BY <2>1, <2>3 DEF IInv, TypeOK, JoinOverfull, Seated, Players
    <2> QED
        BY <2>2, <2>3
<1>3. AlarmFindsEnough' /\ ArmedHasEnough' /\ TimersTold'
    BY DEF IInv, AlarmFindsEnough, ArmedHasEnough, TimersTold, Enough, JoinOverfull, Seated, timers
<1>4. CountdownRuns'
    BY DEF CountdownRuns, JoinOverfull, Seated
<1> QED
    BY <1>1, <1>2, <1>3, <1>4 DEF IInv

LEMMA LeaveKeeps ==
    ASSUME IInv, NEW s \in Sessions, NEW p \in Players, Leave(s, p) PROVE IInv'
<1>1. TypeOK'
    BY DEF IInv, TypeOK, Leave, counts, timers
<1>2. \A r \in Sessions : taken'[r] \subseteq taken[r]
    BY DEF IInv, TypeOK, Leave
<1>3. SeatsWithinLobby'
    BY <1>2 DEF IInv, SeatsWithinLobby, Leave, counts
<1>4. AlarmFindsEnough' /\ ArmedHasEnough' /\ TimersTold'
    BY DEF IInv, AlarmFindsEnough, ArmedHasEnough, TimersTold, Enough, Leave, counts, timers
<1>5. CountdownRuns'
    BY DEF IInv, CountdownRuns, Enough, Leave, counts, timers
<1> QED
    BY <1>1, <1>3, <1>4, <1>5 DEF IInv

LEMMA ConnectionErrorKeeps == ASSUME IInv, ConnectionError PROVE IInv'
    BY DEF IInv, ConnectionError, TypeOK, SeatsWithinLobby, AlarmFindsEnough,
           CountdownRuns, TimersTold, ArmedHasEnough, Enough, pass, seats, counts, timers

\* The end of a pass.  A session that starts takes its numbers away from
\* Enough; the others keep them, and each of them that has enough players has
\* a timer running, just launched or launched before.
LEMMA GameEventsHandleKeeps == ASSUME IInv, GameEventsHandle PROVE IInv'
<1>1. Launching \subseteq Sessions /\ Ringing \subseteq Sessions /\ Starting \subseteq Ringing
    BY DEF Launching, Ringing, Starting
<1>2. \A s \in Sessions \ started' : lobby'[s] = lobby[s]
    BY DEF GameEventsHandle
<1>3. TypeOK'
    <2>1. lobby' \in [Sessions -> 0..MaxPlayers] /\ alive' \in [Sessions -> 0..MaxPlayers]
        BY LobbyAssumption DEF IInv, TypeOK, GameEventsHandle
    <2>2. /\ started' \in SUBSET Sessions /\ armed' \in SUBSET Sessions
          /\ launched' \in SUBSET Sessions /\ alarmed' \in SUBSET Sessions
        BY <1>1 DEF IInv, TypeOK, GameEventsHandle
    <2>3. /\ stopped' \in BOOLEAN /\ accepted' \in BOOLEAN
          /\ served' \in SUBSET (Sessions \X Players)
        BY DEF GameEventsHandle
    <2> QED
        BY <2>1, <2>2, <2>3 DEF IInv, TypeOK, GameEventsHandle, seats
<1>4. SeatsWithinLobby'
    BY <1>2 DEF IInv, SeatsWithinLobby, GameEventsHandle, seats
<1>5. TimersTold'
    BY DEF IInv, TimersTold, GameEventsHandle
<1>6. AlarmFindsEnough'
    BY <1>2 DEF IInv, TypeOK, AlarmFindsEnough, Enough, GameEventsHandle
<1>7. ArmedHasEnough'
    BY <1>2 DEF IInv, TypeOK, ArmedHasEnough, Enough, Launching, GameEventsHandle
<1>8. CountdownRuns'
    <2> SUFFICES ASSUME NEW s \in Sessions \ started', Enough(s)' PROVE s \in armed'
        BY DEF CountdownRuns
    <2>1. s \notin started /\ Enough(s)
        BY <1>2 DEF GameEventsHandle, Enough
    <2> QED
        BY <2>1 DEF IInv, TimersTold, Launching, GameEventsHandle
<1> QED
    BY <1>3, <1>4, <1>5, <1>6, <1>7, <1>8 DEF IInv

LEMMA Inductive == IInv /\ [Next]_vars => IInv'
<1> SUFFICES ASSUME IInv, [Next]_vars PROVE IInv'
    OBVIOUS
<1>1. ASSUME NEW s \in Sessions, TimerFires(s) PROVE IInv'
    BY <1>1, TimerFiresKeeps
<1>2. ASSUME NEW s \in Sessions, NEW p \in Players,
             Join(s, p) \/ JoinOverfull(s, p) \/ Leave(s, p)
      PROVE  IInv'
    BY <1>2, JoinKeeps, JoinOverfullKeeps, LeaveKeeps
<1>3. CASE ConnectionError
    BY <1>3, ConnectionErrorKeeps
<1>4. CASE GameEventsHandle
    BY <1>4, GameEventsHandleKeeps
<1>5. CASE UNCHANGED vars
    BY <1>5 DEF vars, pass, seats, counts, timers, IInv, TypeOK, SeatsWithinLobby,
       AlarmFindsEnough, CountdownRuns, TimersTold, ArmedHasEnough, Enough
<1> QED
    BY <1>1, <1>2, <1>3, <1>4, <1>5 DEF Next

\* The inductive invariant holds in every reachable state, whatever the
\* clients, the timers and the connections do.
THEOREM Invariance == Spec => []IInv
    BY Initially, Inductive, PTL DEF Spec

\* Every variable of the lobby has its type: the seats, counters and flags of
\* every session stay in range, SetLobbyPlayers and SetAlivePlayers included.
THEOREM TypeCorrect == Spec => []TypeOK
<1>1. IInv => TypeOK
    BY DEF IInv
<1> QED
    BY <1>1, Invariance, PTL

\* However clients come and go, the seats taken in a session that waits are
\* among the first lobby_players ones.
THEOREM SeatsWithin == Spec => []SeatsWithinLobby
<1>1. IInv => SeatsWithinLobby
    BY DEF IInv
<1> QED
    BY <1>1, Invariance, PTL

\* A timer that has rung finds enough players counted: CheckStart never cancels.
THEOREM AlarmFinds == Spec => []AlarmFindsEnough
<1>1. IInv => AlarmFindsEnough
    BY DEF IInv
<1> QED
    BY <1>1, Invariance, PTL

\* A session with enough players is never left without a countdown.
THEOREM CountdownGoesOn == Spec => []CountdownRuns
<1>1. IInv => CountdownRuns
    BY DEF IInv
<1> QED
    BY <1>1, Invariance, PTL

\* A game begins in a state that GameSession begins with.
THEOREM StartsRight == Spec => StartsAsGameSession
<1> DEFINE Begins ==
        \A s \in started' \ started :
            /\ alive'[s] \in MinPlayers..MaxPlayers
            /\ taken'[s] \subseteq 1..alive'[s]
            /\ lobby'[s] = 0
<1>1. IInv /\ [Next]_vars => [Begins]_vars
    <2> SUFFICES ASSUME IInv, Next, NEW s \in started' \ started
                 PROVE  /\ alive'[s] \in MinPlayers..MaxPlayers
                        /\ taken'[s] \subseteq 1..alive'[s]
                        /\ lobby'[s] = 0
        OBVIOUS
    <2>1. CASE GameEventsHandle
        <3>1. s \in Sessions /\ s \notin started /\ MinPlayers <= lobby[s]
            BY <2>1 DEF GameEventsHandle, Starting, Ringing
        <3>2. alive'[s] = lobby[s] /\ lobby'[s] = 0 /\ taken' = taken
            BY <2>1, <3>1 DEF GameEventsHandle, seats
        <3>3. lobby[s] \in 0..MaxPlayers /\ taken[s] \subseteq 1..lobby[s]
            BY <3>1 DEF IInv, TypeOK, SeatsWithinLobby
        <3> QED
            BY <3>1, <3>2, <3>3, LobbyAssumption
    <2>2. CASE ~GameEventsHandle
        <3>1. started' = started
            BY <2>2 DEF Next, TimerFires, Join, JoinOverfull, Leave, Seated, ConnectionError
        <3> QED
            BY <3>1
    <2> QED
        BY <2>1, <2>2
<1>2. Spec => [][Begins]_vars
    BY <1>1, Invariance, PTL DEF Spec
<1> QED
    BY <1>2 DEF StartsAsGameSession

=============================================================================
