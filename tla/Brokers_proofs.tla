--------------------------- MODULE Brokers_proofs ---------------------------
(***************************************************************************)
(* What players are told, for any number of sessions and seats.            *)
(*                                                                         *)
(* The brokers work in loops over the seats, so there are inductions in    *)
(* this module, over a loop's passes.  NatInduction and its kin take an    *)
(* operator as a parameter; the least element of a set of numbers (Least,  *)
(* from WFMin) says the same of sets, and what a loop keeps is given as a  *)
(* set of states for each pass.                                            *)
(***************************************************************************)
EXTENDS BrokersProperties, FiniteSetTheorems, SequenceTheorems, NaturalsInduction,
        WellFoundedInduction, TLAPS

-----------------------------------------------------------------------------
(* Induction, and what loops keep.                                         *)

LEMMA Least ==
    ASSUME NEW T \in SUBSET Nat, T # {}
    PROVE  \E x \in T : \A y \in T : x <= y
<1>1. PICK x \in T : \A y \in T : ~(<<y, x>> \in OpToRel(<, Nat))
  BY NatLessThanWellFounded, WFMin, Zenon
<1>2. \A y \in T : ~(y < x)
  BY <1>1 DEF OpToRel
<1> QED BY <1>2

LEMMA Upwards ==
    ASSUME NEW n \in Nat, NEW T, 0 \in T, \A p \in 1..n : p - 1 \in T => p \in T
    PROVE  \A p \in 0..n : p \in T
<1> DEFINE others == {p \in 0..n : p \notin T}
<1> SUFFICES ASSUME others # {}
             PROVE  FALSE
  OBVIOUS
<1>1. PICK x \in others : \A y \in others : x <= y
  <2>1. others \in SUBSET Nat
    OBVIOUS
  <2> HIDE DEF others
  <2> QED BY <2>1, Least
<1>2. x # 0 /\ x - 1 \in 0..n /\ x \in 1..n
  OBVIOUS
<1>3. x - 1 \in T
  BY <1>1, <1>2
<1> QED BY <1>2, <1>3

Turns(h, k, a, g) ==
    h = [p \in 0..k |-> IF p = 0 THEN a ELSE g[<<p, h[p - 1]>>]]

LEMMA TurnsAre ==
    ASSUME NEW k \in Nat, NEW h, NEW a, NEW g, h = [p \in 0..k |-> h[p]],
           h[0] = a, \A p \in 1..k : h[p] = g[<<p, h[p - 1]>>]
    PROVE  Turns(h, k, a, g)
<1>1. \A p \in 0..k : h[p] = IF p = 0 THEN a ELSE g[<<p, h[p - 1]>>]
  OBVIOUS
<1> QED BY <1>1, Zenon DEF Turns

LEMMA TurnsGive ==
    ASSUME NEW k \in Nat, NEW h, NEW a, NEW g, Turns(h, k, a, g)
    PROVE  /\ h = [p \in 0..k |-> h[p]] /\ h[0] = a
           /\ \A p \in 1..k : h[p] = g[<<p, h[p - 1]>>]
<1>1. \A p \in 0..k : h[p] = IF p = 0 THEN a ELSE g[<<p, h[p - 1]>>]
  BY Zenon DEF Turns
<1>2. h = [p \in 0..k |-> h[p]]
  BY Zenon DEF Turns
<1>3. 0 \in 0..k /\ \A p \in 1..k : p \in 0..k /\ p # 0
  OBVIOUS
<1> QED BY <1>1, <1>2, <1>3, Zenon

LEMMA LoopGoes ==
    ASSUME NEW n \in Nat, NEW W, NEW a \in W[0], NEW g,
           \A p \in 1..n : \A b \in W[p - 1] : g[<<p, b>>] \in W[p]
    PROVE  \E h : Turns(h, n, a, g) /\ \A p \in 0..n : h[p] \in W[p]
<1> DEFINE T == {k \in 0..n : \E h : Turns(h, k, a, g)}
<1>1. 0 \in T
  <2> DEFINE h == [p \in 0..0 |-> a]
  <2>1. h = [p \in 0..0 |-> h[p]] /\ h[0] = a /\ 0 \in Nat /\ 1..0 = {}
    OBVIOUS
  <2> HIDE DEF h
  <2>2. Turns(h, 0, a, g)
    BY <2>1, TurnsAre
  <2> QED BY <2>2
<1>2. ASSUME NEW k \in 1..n, k - 1 \in T
      PROVE  k \in T
  <2>1. PICK h : Turns(h, k - 1, a, g)
    BY <1>2
  <2>2. k - 1 \in Nat /\ k \in Nat
    OBVIOUS
  <2>3. h[0] = a /\ \A p \in 1..(k - 1) : h[p] = g[<<p, h[p - 1]>>]
    BY <2>1, <2>2, TurnsGive
  <2> DEFINE f == [p \in 0..k |-> IF p = k THEN g[<<k, h[k - 1]>>] ELSE h[p]]
  <2>4. /\ f = [p \in 0..k |-> f[p]] /\ f[k] = g[<<k, h[k - 1]>>]
        /\ \A p \in 0..(k - 1) : f[p] = h[p]
    BY <2>2
  <2> HIDE DEF f
  <2>5. f[0] = a
    <3>1. 0 \in 0..(k - 1)
      BY <2>2
    <3> QED BY <2>3, <2>4, <3>1, Zenon
  <2>6. ASSUME NEW p \in 1..k
        PROVE  f[p] = g[<<p, f[p - 1]>>]
    <3>1. p - 1 \in 0..(k - 1) /\ (p # k => p \in 1..(k - 1) /\ p \in 0..(k - 1))
      BY <2>2
    <3>2. f[p - 1] = h[p - 1]
      BY <2>4, <3>1, Zenon
    <3>3. CASE p = k
      BY <2>4, <3>2, <3>3, Zenon
    <3>4. CASE p # k
      BY <2>3, <2>4, <3>1, <3>2, <3>4, Zenon
    <3> QED BY <3>3, <3>4
  <2>7. Turns(f, k, a, g)
    BY <2>2, <2>4, <2>5, <2>6, TurnsAre
  <2> QED BY <2>7
<1>3. n \in T
  <2> HIDE DEF T
  <2>1. \A p \in 0..n : p \in T
    BY <1>1, <1>2, Upwards
  <2> QED BY <2>1
<1>4. PICK h : Turns(h, n, a, g)
  BY <1>3
<1>5. h[0] = a /\ \A p \in 1..n : h[p] = g[<<p, h[p - 1]>>]
  BY <1>4, TurnsGive
<1> DEFINE R == {p \in 0..n : h[p] \in W[p]}
<1>6. 0 \in R
  BY <1>5
<1>7. ASSUME NEW p \in 1..n, p - 1 \in R
      PROVE  p \in R
  <2>1. h[p - 1] \in W[p - 1] /\ p \in 0..n
    BY <1>7
  <2>2. h[p] = g[<<p, h[p - 1]>>]
    BY <1>5
  <2>3. h[p] \in W[p]
    BY <2>1, <2>2
  <2> QED BY <2>1, <2>3
<1>8. \A p \in 0..n : p \in R
  <2> HIDE DEF R
  <2> QED BY <1>6, <1>7, Upwards
<1> QED BY <1>4, <1>8

-----------------------------------------------------------------------------
(* The loops over the seats.                                               *)

Last == Cardinality(Players)

LEMMA SeatsCount == Last \in Nat /\ Players = 1..Last
BY BrokersAssumption DEF Last

\* What all seats are told keeps what every pass keeps.
LEMMA EachSeatKeeps ==
    ASSUME NEW W, NEW s, NEW firstly, NEW nextly, NEW b \in W[0],
           \A p \in Players : \A c \in W[p - 1] :
               Follow(Follow(c, s, p, firstly), s, p, nextly) \in W[p]
    PROVE  EachSeat(b, s, firstly, nextly) \in W[Last]
<1> DEFINE Pass(c, p) == Follow(Follow(c, s, p, firstly), s, p, nextly)
           Form(h) == h = [p \in 0..Last |-> IF p = 0 THEN b ELSE Pass(h[p - 1], p)]
           V == UNION {W[p] : p \in 0..Last}
           g == [x \in (1..Last) \X V |-> Pass(x[2], x[1])]
           told == CHOOSE h : Form(h)
<1>1. EachSeat(b, s, firstly, nextly) = told[Last]
  BY DEF EachSeat, Last
<1> HIDE DEF Pass
<1>2. \A p \in 1..Last : \A c \in W[p - 1] : g[<<p, c>>] = Pass(c, p) /\ Pass(c, p) \in W[p]
  <2> SUFFICES ASSUME NEW p \in 1..Last, NEW c \in W[p - 1]
               PROVE  g[<<p, c>>] = Pass(c, p) /\ Pass(c, p) \in W[p]
    OBVIOUS
  <2>1. p - 1 \in 0..Last
    BY SeatsCount
  <2>2. c \in V
    BY <2>1
  <2>3. Pass(c, p) \in W[p]
    BY SeatsCount DEF Pass
  <2> QED BY <2>2, <2>3
<1> HIDE DEF g
<1>3. PICK h : Turns(h, Last, b, g) /\ \A p \in 0..Last : h[p] \in W[p]
  <2>1. \A p \in 1..Last : \A c \in W[p - 1] : g[<<p, c>>] \in W[p]
    BY <1>2
  <2> QED BY <2>1, SeatsCount, LoopGoes
<1>4. Form(h)
  <2>1. h = [p \in 0..Last |-> h[p]] /\ h[0] = b /\ \A p \in 1..Last : h[p] = g[<<p, h[p - 1]>>]
    BY <1>3, SeatsCount, TurnsGive
  <2>2. \A p \in 0..Last : h[p] = IF p = 0 THEN b ELSE Pass(h[p - 1], p)
    <3> SUFFICES ASSUME NEW p \in 0..Last
                 PROVE  h[p] = IF p = 0 THEN b ELSE Pass(h[p - 1], p)
      OBVIOUS
    <3>1. CASE p = 0
      BY <2>1, <3>1, Zenon
    <3>2. CASE p # 0
      <4>1. p \in 1..Last /\ p - 1 \in 0..Last
        BY <3>2, SeatsCount
      <4> QED BY <1>2, <1>3, <2>1, <3>2, <4>1, Zenon
    <3> QED BY <3>1, <3>2
  <2> QED BY <2>1, <2>2, Zenon
<1>5. Form(told)
  <2> HIDE DEF Form
  <2> QED BY <1>4
<1> HIDE DEF told
<1>6. \A p \in 0..Last : told[p] = IF p = 0 THEN b ELSE Pass(told[p - 1], p)
  BY <1>5, Zenon
<1> DEFINE R == {p \in 0..Last : told[p] \in W[p]}
<1>7. 0 \in R
  BY <1>6, SeatsCount
<1>8. ASSUME NEW p \in 1..Last, p - 1 \in R
      PROVE  p \in R
  <2>1. told[p - 1] \in W[p - 1] /\ p \in 0..Last /\ p # 0
    BY <1>8
  <2>2. told[p] = Pass(told[p - 1], p)
    BY <1>6, <2>1, Zenon
  <2>3. told[p] \in W[p]
    BY <1>2, <2>1, <2>2
  <2> QED BY <2>1, <2>3
<1>9. \A p \in 0..Last : p \in R
  <2> HIDE DEF R
  <2> QED BY <1>7, <1>8, SeatsCount, Upwards
<1>10. Last \in 0..Last
  BY SeatsCount
<1> QED BY <1>1, <1>9, <1>10

Quits(c, s, p, seats, left) ==
    IF p \in DOMAIN left THEN TellOfLeaver(LeftIs(c, s, p), s, seats, left[p]) ELSE c

LEMMA QuitEachKeeps ==
    ASSUME NEW W, NEW s, NEW seats, NEW left, NEW b \in W[0],
           \A p \in Players : \A c \in W[p - 1] : Quits(c, s, p, seats, left) \in W[p]
    PROVE  QuitEach(b, s, seats, left) \in W[Last]
<1> DEFINE Pass(c, p) == Quits(c, s, p, seats, left)
           Form(h) == h = [p \in 0..Last |-> IF p = 0 THEN b ELSE Pass(h[p - 1], p)]
           V == UNION {W[p] : p \in 0..Last}
           g == [x \in (1..Last) \X V |-> Pass(x[2], x[1])]
           told == CHOOSE h : Form(h)
<1>1. QuitEach(b, s, seats, left) = told[Last]
  BY DEF QuitEach, Quits, Last
<1> HIDE DEF Pass
<1>2. \A p \in 1..Last : \A c \in W[p - 1] : g[<<p, c>>] = Pass(c, p) /\ Pass(c, p) \in W[p]
  <2> SUFFICES ASSUME NEW p \in 1..Last, NEW c \in W[p - 1]
               PROVE  g[<<p, c>>] = Pass(c, p) /\ Pass(c, p) \in W[p]
    OBVIOUS
  <2>1. p - 1 \in 0..Last
    BY SeatsCount
  <2>2. c \in V
    BY <2>1
  <2>3. Pass(c, p) \in W[p]
    BY SeatsCount DEF Pass
  <2> QED BY <2>2, <2>3
<1> HIDE DEF g
<1>3. PICK h : Turns(h, Last, b, g) /\ \A p \in 0..Last : h[p] \in W[p]
  <2>1. \A p \in 1..Last : \A c \in W[p - 1] : g[<<p, c>>] \in W[p]
    BY <1>2
  <2> QED BY <2>1, SeatsCount, LoopGoes
<1>4. Form(h)
  <2>1. h = [p \in 0..Last |-> h[p]] /\ h[0] = b /\ \A p \in 1..Last : h[p] = g[<<p, h[p - 1]>>]
    BY <1>3, SeatsCount, TurnsGive
  <2>2. \A p \in 0..Last : h[p] = IF p = 0 THEN b ELSE Pass(h[p - 1], p)
    <3> SUFFICES ASSUME NEW p \in 0..Last
                 PROVE  h[p] = IF p = 0 THEN b ELSE Pass(h[p - 1], p)
      OBVIOUS
    <3>1. CASE p = 0
      BY <2>1, <3>1, Zenon
    <3>2. CASE p # 0
      <4>1. p \in 1..Last /\ p - 1 \in 0..Last
        BY <3>2, SeatsCount
      <4> QED BY <1>2, <1>3, <2>1, <3>2, <4>1, Zenon
    <3> QED BY <3>1, <3>2
  <2> QED BY <2>1, <2>2, Zenon
<1>5. Form(told)
  <2> HIDE DEF Form
  <2> QED BY <1>4
<1> HIDE DEF told
<1>6. \A p \in 0..Last : told[p] = IF p = 0 THEN b ELSE Pass(told[p - 1], p)
  BY <1>5, Zenon
<1> DEFINE R == {p \in 0..Last : told[p] \in W[p]}
<1>7. 0 \in R
  BY <1>6, SeatsCount
<1>8. ASSUME NEW p \in 1..Last, p - 1 \in R
      PROVE  p \in R
  <2>1. told[p - 1] \in W[p - 1] /\ p \in 0..Last /\ p # 0
    BY <1>8
  <2>2. told[p] = Pass(told[p - 1], p)
    BY <1>6, <2>1, Zenon
  <2>3. told[p] \in W[p]
    BY <1>2, <2>1, <2>2
  <2> QED BY <2>1, <2>3
<1>9. \A p \in 0..Last : p \in R
  <2> HIDE DEF R
  <2> QED BY <1>7, <1>8, SeatsCount, Upwards
<1>10. Last \in 0..Last
  BY SeatsCount
<1> QED BY <1>1, <1>9, <1>10

-----------------------------------------------------------------------------
(* The brokers' data.                                                      *)

Facts == [of : Seq(Nat), is : Int]
Said == News \cup {"GAME_ALREADY_STARTED", "SERVER_FULL"}
SentType == [to : Seq(Nat), code : Said, params : Seq(Seq(Nat))]

BrokerType ==
    [tokens : [1..6 -> Facts], multicast : [1..3 -> Facts], events : [1..1 -> Facts],
     messages : [1..6 -> Facts], told : Seq(SentType)]

LEMMA FactType ==
    ASSUME NEW s \in Sessions, NEW p \in Players, NEW n \in Int
    PROVE  /\ Fact(OfSession(s), n) \in Facts /\ Fact(OfPlayer(s, p), n) \in Facts
           /\ Fact(Everybody, n) \in Facts /\ None \in Facts
           /\ OfSession(s) \in Seq(Nat) /\ OfPlayer(s, p) \in Seq(Nat) /\ Everybody \in Seq(Nat)
           /\ OfSession(s) # Everybody /\ OfPlayer(s, p) # Everybody
           /\ s \in Nat /\ p \in Nat /\ s > 0
<1>1. s \in Nat /\ p \in Nat /\ s > 0
  BY BrokersAssumption
<1>2. OfSession(s) \in Seq(Nat) /\ OfSession(s) # Everybody
  BY <1>1 DEF OfSession, Everybody
<1>3. OfPlayer(s, p) \in Seq(Nat) /\ OfPlayer(s, p) # Everybody
  BY <1>1 DEF OfPlayer, Everybody
<1>4. Everybody \in Seq(Nat)
  BY DEF Everybody
<1> QED BY <1>1, <1>2, <1>3, <1>4 DEF Fact, Facts, None

\* What messages are given of the tokens.
LEMMA GiveMessages ==
    ASSUME NEW b \in BrokerType, NEW token \in 1..6, NEW fact \in Facts,
           NEW c, c = Give(b, "messages", token, fact)
    PROVE  /\ c \in BrokerType
           /\ c.told = b.told /\ c.multicast = b.multicast /\ c.events = b.events
           /\ c.tokens = [b.tokens EXCEPT ![token] = fact]
           /\ \A i \in 1..6 : c.messages[i] = IF i <= token /\ c.tokens[i] # None
                                              THEN c.tokens[i] ELSE b.messages[i]
<1> DEFINE T == [b.tokens EXCEPT ![token] = fact]
           M == [i \in 1..6 |-> IF i <= token /\ T[i] # None THEN T[i] ELSE b.messages[i]]
<1>1. T \in [1..6 -> Facts] /\ DOMAIN b.messages = 1..6
  BY DEF BrokerType
<1>2. M \in [1..6 -> Facts]
  BY <1>1 DEF BrokerType
<1>3. c = [b EXCEPT !.tokens = T, !.messages = M]
  <2> DEFINE w == [b EXCEPT !.tokens = T]
  <2>1. Write(b, token, fact) = w
    BY DEF Write, BrokerType
  <2>2. w.tokens = T /\ w.messages = b.messages
    BY DEF BrokerType
  <2>3. PutMessage(w, "messages", token) = [w EXCEPT !.messages = M]
    <3> HIDE DEF w
    <3> QED BY <1>1, <2>2 DEF PutMessage
  <2>4. [w EXCEPT !.messages = M] = [b EXCEPT !.tokens = T, !.messages = M]
    OBVIOUS
  <2> QED BY <2>1, <2>3, <2>4 DEF Give
<1> HIDE DEF T, M
<1>4. /\ c \in BrokerType /\ c.told = b.told /\ c.multicast = b.multicast
      /\ c.events = b.events /\ c.tokens = T /\ c.messages = M
  BY <1>1, <1>2, <1>3 DEF BrokerType
<1>5. \A i \in 1..6 : M[i] = IF i <= token /\ T[i] # None THEN T[i] ELSE b.messages[i]
  BY DEF M
<1> QED BY <1>4, <1>5 DEF T

\* What the multicasts are given: the messages have what they had.
LEMMA GiveMulticast ==
    ASSUME NEW b \in BrokerType, NEW token \in 1..3, NEW fact \in Facts,
           NEW c, c = Give(b, "multicast", token, fact)
    PROVE  /\ c \in BrokerType
           /\ c.told = b.told /\ c.messages = b.messages /\ c.events = b.events
           /\ c.tokens = [b.tokens EXCEPT ![token] = fact]
           /\ \A i \in 1..3 : c.multicast[i] = IF i <= token /\ c.tokens[i] # None
                                               THEN c.tokens[i] ELSE b.multicast[i]
<1> DEFINE T == [b.tokens EXCEPT ![token] = fact]
           M == [i \in 1..3 |-> IF i <= token /\ T[i] # None THEN T[i] ELSE b.multicast[i]]
<1>1. T \in [1..6 -> Facts] /\ DOMAIN b.multicast = 1..3
  BY DEF BrokerType
<1>2. M \in [1..3 -> Facts]
  BY <1>1 DEF BrokerType
<1>3. c = [b EXCEPT !.tokens = T, !.multicast = M]
  <2> DEFINE w == [b EXCEPT !.tokens = T]
  <2>1. Write(b, token, fact) = w
    BY DEF Write, BrokerType
  <2>2. w.tokens = T /\ w.multicast = b.multicast
    BY DEF BrokerType
  <2>3. PutMessage(w, "multicast", token) = [w EXCEPT !.multicast = M]
    <3> HIDE DEF w
    <3> QED BY <1>1, <2>2 DEF PutMessage
  <2>4. [w EXCEPT !.multicast = M] = [b EXCEPT !.tokens = T, !.multicast = M]
    OBVIOUS
  <2> QED BY <2>1, <2>3, <2>4 DEF Give
<1> HIDE DEF T, M
<1>4. /\ c \in BrokerType /\ c.told = b.told /\ c.messages = b.messages
      /\ c.events = b.events /\ c.tokens = T /\ c.multicast = M
  BY <1>1, <1>2, <1>3 DEF BrokerType
<1>5. \A i \in 1..3 : M[i] = IF i <= token /\ T[i] # None THEN T[i] ELSE b.multicast[i]
  BY DEF M
<1> QED BY <1>4, <1>5 DEF T

LEMMA GiveEvents ==
    ASSUME NEW b \in BrokerType, NEW fact \in Facts,
           NEW c, c = Give(b, "events", Session, fact)
    PROVE  /\ c \in BrokerType
           /\ c.told = b.told /\ c.messages = b.messages /\ c.multicast = b.multicast
           /\ c.tokens = [b.tokens EXCEPT ![Session] = fact]
<1> DEFINE T == [b.tokens EXCEPT ![1] = fact]
           M == [i \in 1..1 |-> IF i <= 1 /\ T[i] # None THEN T[i] ELSE b.events[i]]
<1>1. T \in [1..6 -> Facts] /\ DOMAIN b.events = 1..1
  BY DEF BrokerType
<1>2. M \in [1..1 -> Facts]
  BY <1>1 DEF BrokerType
<1>3. c = [b EXCEPT !.tokens = T, !.events = M]
  <2> DEFINE w == [b EXCEPT !.tokens = T]
  <2>1. Write(b, 1, fact) = w
    BY DEF Write, BrokerType
  <2>2. w.tokens = T /\ w.events = b.events
    BY DEF BrokerType
  <2>3. PutMessage(w, "events", 1) = [w EXCEPT !.events = M]
    <3> HIDE DEF w
    <3> QED BY <1>1, <2>2 DEF PutMessage
  <2>4. [w EXCEPT !.events = M] = [b EXCEPT !.tokens = T, !.events = M]
    OBVIOUS
  <2> QED BY <2>1, <2>3, <2>4 DEF Give, Session
<1> HIDE DEF T, M
<1>4. /\ c \in BrokerType /\ c.told = b.told /\ c.messages = b.messages
      /\ c.multicast = b.multicast /\ c.tokens = T
  BY <1>1, <1>2, <1>3 DEF BrokerType
<1> QED BY <1>4 DEF T, Session

\* One message more.
LEMMA SendIs ==
    ASSUME NEW b \in BrokerType, NEW s \in Sessions, NEW p \in Players, NEW code \in Said,
           Text(b, code) \in Seq(Seq(Nat)), NEW c, c = Send(b, s, p, code)
    PROVE  /\ c \in BrokerType /\ c.tokens = b.tokens /\ c.multicast = b.multicast
           /\ c.events = b.events /\ c.messages = b.messages
           /\ Len(b.told) \in Nat /\ DOMAIN b.told = 1..Len(b.told)
           /\ DOMAIN c.told = 1..(Len(b.told) + 1)
           /\ \A i \in 1..Len(b.told) : c.told[i] = b.told[i]
           /\ c.told[Len(b.told) + 1] =
                  [to |-> OfPlayer(s, p), code |-> code, params |-> Text(b, code)]
<1> DEFINE m == [to |-> OfPlayer(s, p), code |-> code, params |-> Text(b, code)]
<1>1. m \in SentType
  BY FactType, 0 \in Int DEF SentType
<1>2. b.told \in Seq(SentType)
  BY DEF BrokerType
<1>3. c = [b EXCEPT !.told = Append(b.told, m)]
  BY DEF Send
<1> HIDE DEF m
<1>4. Append(b.told, m) \in Seq(SentType)
  BY <1>1, <1>2
<1>5. /\ c \in BrokerType /\ c.tokens = b.tokens /\ c.multicast = b.multicast
      /\ c.events = b.events /\ c.messages = b.messages /\ c.told = Append(b.told, m)
  BY <1>3, <1>4 DEF BrokerType
<1>6. /\ Len(b.told) \in Nat /\ DOMAIN b.told = 1..Len(b.told)
      /\ DOMAIN Append(b.told, m) = 1..(Len(b.told) + 1)
      /\ \A i \in 1..Len(b.told) : Append(b.told, m)[i] = b.told[i]
      /\ Append(b.told, m)[Len(b.told) + 1] = m
  BY <1>1, <1>2
<1> QED BY <1>5, <1>6 DEF m

LEMMA SentIsNat ==
    ASSUME NEW b \in BrokerType, NEW s, NEW p, NEW code
    PROVE  Sent(b, s, p, code) \in Nat
<1>1. Len(b.told) \in Nat /\ DOMAIN b.told = 1..Len(b.told)
  <2>1. b.told \in Seq(SentType)
    BY DEF BrokerType
  <2> QED BY <2>1
<1> DEFINE A == {i \in DOMAIN b.told : b.told[i].code = code /\ b.told[i].to = OfPlayer(s, p)}
<1>2. IsFiniteSet(1..Len(b.told)) /\ A \subseteq 1..Len(b.told)
  BY <1>1, FS_Interval
<1> HIDE DEF A
<1>3. Cardinality(A) \in Nat
  BY <1>2, FS_Subset, FS_CardinalityType
<1> QED BY <1>3 DEF A, Sent

LEMMA SentCounts ==
    ASSUME NEW b \in BrokerType, NEW s \in Sessions, NEW p \in Players, NEW code \in Said,
           Text(b, code) \in Seq(Seq(Nat)), NEW q \in Players, NEW other \in Said
    PROVE  Sent(Send(b, s, p, code), s, q, other) =
               Sent(b, s, q, other) + IF q = p /\ other = code THEN 1 ELSE 0
<1> DEFINE c == Send(b, s, p, code)
           n == Len(b.told)
           A == {i \in 1..n : b.told[i].code = other /\ b.told[i].to = OfPlayer(s, q)}
           B == {i \in 1..(n + 1) : c.told[i].code = other /\ c.told[i].to = OfPlayer(s, q)}
<1>1. /\ n \in Nat /\ DOMAIN b.told = 1..n /\ DOMAIN c.told = 1..(n + 1)
      /\ \A i \in 1..n : c.told[i] = b.told[i]
      /\ c.told[n + 1].code = code /\ c.told[n + 1].to = OfPlayer(s, p)
  <2> HIDE DEF c
  <2>1. c = Send(b, s, p, code)
    BY DEF c
  <2>2. /\ n \in Nat /\ DOMAIN b.told = 1..n /\ DOMAIN c.told = 1..(n + 1)
        /\ \A i \in 1..n : c.told[i] = b.told[i]
        /\ c.told[n + 1] = [to |-> OfPlayer(s, p), code |-> code, params |-> Text(b, code)]
    BY <2>1, SendIs
  <2> QED BY <2>2
<1>2. Sent(b, s, q, other) = Cardinality(A) /\ Sent(c, s, q, other) = Cardinality(B)
  BY <1>1 DEF Sent
<1>3. OfPlayer(s, p) = OfPlayer(s, q) <=> p = q
  BY DEF OfPlayer
<1>4. IsFiniteSet(A) /\ n + 1 \notin A
  <2>1. IsFiniteSet(1..n)
    <3>1. n \in Nat
      BY <1>1
    <3> HIDE DEF n
    <3> QED BY <3>1, FS_Interval
  <2>2. A \subseteq 1..n /\ n + 1 \notin A
    BY <1>1
  <2> QED BY <2>1, <2>2, FS_Subset
<1>5. B = IF q = p /\ other = code THEN A \cup {n + 1} ELSE A
  <2>1. 1..(n + 1) = (1..n) \cup {n + 1}
    BY <1>1
  <2>2. c.told[n + 1].code = other /\ c.told[n + 1].to = OfPlayer(s, q)
            <=> q = p /\ other = code
    BY <1>1, <1>3
  <2> HIDE DEF c
  <2> QED BY <1>1, <2>1, <2>2
<1> HIDE DEF A, B, c, n
<1>6. Cardinality(A) \in Nat
  BY <1>4, FS_CardinalityType
<1>6a. Sent(b, s, q, other) \in Nat
  BY <1>2, <1>6
<1>7. CASE q = p /\ other = code
  <2>1. Cardinality(B) = Cardinality(A) + 1
    BY <1>4, <1>5, <1>7, FS_AddElement
  <2>2. Sent(c, s, q, other) = Sent(b, s, q, other) + 1
    BY <1>2, <2>1
  <2> QED BY <1>6a, <1>7, <2>2 DEF c
<1>8. CASE ~(q = p /\ other = code)
  <2>1. B = A
    BY <1>5, <1>8, Zenon
  <2>2. Sent(c, s, q, other) = Sent(b, s, q, other)
    BY <1>2, <2>1, Zenon
  <2>3. (IF q = p /\ other = code THEN 1 ELSE 0) = 0
    BY <1>8
  <2>4. Sent(b, s, q, other) + 0 = Sent(b, s, q, other)
    BY <1>6a
  <2> QED BY <1>6a, <2>2, <2>3, <2>4, Zenon DEF c
<1> QED BY <1>7, <1>8

-----------------------------------------------------------------------------
(* What a step tells, while it is being told.                              *)

\* Own, for a message to a player of session s while those in gone leave it.
OwnOf(m, s, gone) ==
    CASE m.code = "LOST_ALIVE_PLAYER" ->
             m.params \in {<<OfSession(s), OfPlayer(s, q)>> : q \in gone}
      [] m.code = "PLAYER_BANKROT" ->
             m.params \in {<<OfPlayer(s, q)>> : q \in Players}
      [] OTHER -> \A of \in Range(m.params) : of \in {Everybody, OfSession(s), m.to}

Fine(m, s, gone) ==
    /\ \E p \in Players : m.to = OfPlayer(s, p)
    /\ Fits(m.code, m.params, m.to \in Bots)
    /\ IF m.code \in WithoutSession THEN OfOneSession(m) ELSE OwnOf(m, s, gone)

\* The brokers in a step of session s, once they have been given the session: what has
\* been told is fine, and of each player it is known how many leavers he was told of,
\* and how many victories.  Messages have had a session once some player has been told
\* something (known).
Books(s, gone, lost, won, known) ==
    {b \in BrokerType :
        /\ b.tokens[Session] = Fact(OfSession(s), s)
        /\ known => SessionOf(b) \in Sessions
        /\ \A i \in DOMAIN b.told : Fine(b.told[i], s, gone)
        /\ \A p \in Players : /\ Sent(b, s, p, "LOST_ALIVE_PLAYER") = lost[p]
                              /\ Sent(b, s, p, "VICTORY_MESSAGE") = won[p]}

\* The fields that multicasts put; 1 is the session.
Fields == 2..6

\* Messages are given a parameter, and with it the session.
LEMMA PutKeeps ==
    ASSUME NEW s \in Sessions, NEW gone, NEW lost, NEW won, NEW known,
           NEW b \in Books(s, gone, lost, won, known),
           NEW field \in Fields, NEW fact \in Facts, fact # None,
           NEW c, c = Give(b, "messages", field, fact)
    PROVE  /\ c \in Books(s, gone, lost, won, known) /\ c.multicast = b.multicast
           /\ c.messages[Session] = Fact(OfSession(s), s) /\ SessionOf(c) = s
           /\ c.messages[field] = fact
<1>0. field \in 2..6
  BY DEF Fields
<1>1. /\ b \in BrokerType /\ b.tokens[1] = Fact(OfSession(s), s)
      /\ \A i \in DOMAIN b.told : Fine(b.told[i], s, gone)
      /\ \A p \in Players : /\ Sent(b, s, p, "LOST_ALIVE_PLAYER") = lost[p]
                            /\ Sent(b, s, p, "VICTORY_MESSAGE") = won[p]
  BY DEF Books, Session
<1>2. /\ c \in BrokerType
      /\ c.told = b.told /\ c.multicast = b.multicast
      /\ c.tokens = [b.tokens EXCEPT ![field] = fact]
      /\ \A i \in 1..6 : c.messages[i] = IF i <= field /\ c.tokens[i] # None
                                         THEN c.tokens[i] ELSE b.messages[i]
  BY <1>0, <1>1, GiveMessages
<1>3. Fact(OfSession(s), s) # None
  BY DEF Fact, None, OfSession, Everybody
<1>4. c.tokens[1] = Fact(OfSession(s), s) /\ c.tokens[field] = fact
  BY <1>0, <1>1, <1>2 DEF BrokerType
<1>5. c.messages[1] = Fact(OfSession(s), s)
  BY <1>0, <1>2, <1>3, <1>4
<1>6. c.messages[field] = fact
  BY <1>0, <1>2, <1>4
<1>7. c.messages[1].is = s
  BY <1>5 DEF Fact
<1>8. \A p \in Players : /\ Sent(c, s, p, "LOST_ALIVE_PLAYER") = lost[p]
                         /\ Sent(c, s, p, "VICTORY_MESSAGE") = won[p]
  <2>1. c.told = b.told
    BY <1>2
  <2> QED BY <1>1, <2>1 DEF Sent
<1> QED BY <1>1, <1>2, <1>4, <1>5, <1>6, <1>7, <1>8 DEF Books, SessionOf, Session

LEMMA LossesAreSaid == "LOST_ALIVE_PLAYER" \in Said /\ "VICTORY_MESSAGE" \in Said
BY DEF Said, News

\* A message is sent that is fine.
LEMMA SendKeeps ==
    ASSUME NEW s \in Sessions, NEW gone, NEW lost, NEW won, NEW known,
           NEW b \in Books(s, gone, lost, won, known),
           NEW p \in Players, NEW code \in Said, Text(b, code) \in Seq(Seq(Nat)),
           Fine([to |-> OfPlayer(s, p), code |-> code, params |-> Text(b, code)], s, gone),
           NEW lost2, NEW won2,
           \A q \in Players :
               /\ lost2[q] = lost[q] + IF q = p /\ "LOST_ALIVE_PLAYER" = code THEN 1 ELSE 0
               /\ won2[q] = won[q] + IF q = p /\ "VICTORY_MESSAGE" = code THEN 1 ELSE 0
    PROVE  /\ Send(b, s, p, code) \in Books(s, gone, lost2, won2, known)
           /\ Send(b, s, p, code).messages = b.messages
<1> DEFINE c == Send(b, s, p, code)
<1>1. /\ b \in BrokerType /\ b.tokens[Session] = Fact(OfSession(s), s)
      /\ known => SessionOf(b) \in Sessions
      /\ \A i \in DOMAIN b.told : Fine(b.told[i], s, gone)
      /\ \A q \in Players : /\ Sent(b, s, q, "LOST_ALIVE_PLAYER") = lost[q]
                            /\ Sent(b, s, q, "VICTORY_MESSAGE") = won[q]
  BY DEF Books
<1>2. /\ c \in BrokerType /\ c.tokens = b.tokens /\ c.messages = b.messages
      /\ Len(b.told) \in Nat /\ DOMAIN b.told = 1..Len(b.told)
      /\ DOMAIN c.told = 1..(Len(b.told) + 1)
      /\ \A i \in 1..Len(b.told) : c.told[i] = b.told[i]
      /\ c.told[Len(b.told) + 1] =
             [to |-> OfPlayer(s, p), code |-> code, params |-> Text(b, code)]
  <2> HIDE DEF c
  <2>1. c = Send(b, s, p, code)
    BY DEF c
  <2> QED BY <1>1, <2>1, SendIs
<1>3. ASSUME NEW q \in Players
      PROVE  /\ Sent(c, s, q, "LOST_ALIVE_PLAYER") = lost2[q]
             /\ Sent(c, s, q, "VICTORY_MESSAGE") = won2[q]
  <2>1. Sent(c, s, q, "LOST_ALIVE_PLAYER") =
            Sent(b, s, q, "LOST_ALIVE_PLAYER")
            + IF q = p /\ "LOST_ALIVE_PLAYER" = code THEN 1 ELSE 0
    BY <1>1, SentCounts, LossesAreSaid
  <2>2. Sent(c, s, q, "VICTORY_MESSAGE") =
            Sent(b, s, q, "VICTORY_MESSAGE")
            + IF q = p /\ "VICTORY_MESSAGE" = code THEN 1 ELSE 0
    BY <1>1, SentCounts, LossesAreSaid
  <2> HIDE DEF c
  <2> QED BY <1>1, <2>1, <2>2
<1> HIDE DEF c
<1>4. \A i \in DOMAIN c.told : Fine(c.told[i], s, gone)
  <2> SUFFICES ASSUME NEW i \in 1..(Len(b.told) + 1)
               PROVE  Fine(c.told[i], s, gone)
    BY <1>2
  <2>1. CASE i = Len(b.told) + 1
    BY <1>2, <2>1
  <2>2. CASE i \in 1..Len(b.told)
    BY <1>1, <1>2, <2>2
  <2> QED BY <1>2, <2>1, <2>2
<1>5. SessionOf(c) = SessionOf(b)
  BY <1>2 DEF SessionOf
<1>6. c \in Books(s, gone, lost2, won2, known)
  BY <1>1, <1>2, <1>3, <1>4, <1>5 DEF Books
<1> QED BY <1>2, <1>6 DEF c

\* Of what is told no counting is done: who loses and who wins is told in TellOfLeaver.
LEMMA SayKeeps ==
    ASSUME NEW s \in Sessions, NEW gone, NEW lost, NEW won, NEW known,
           NEW b \in Books(s, gone, lost, won, known),
           NEW p \in Players, NEW code \in Said \ {"LOST_ALIVE_PLAYER", "VICTORY_MESSAGE"},
           Text(b, code) \in Seq(Seq(Nat)),
           Fine([to |-> OfPlayer(s, p), code |-> code, params |-> Text(b, code)], s, gone)
    PROVE  /\ Send(b, s, p, code) \in Books(s, gone, lost, won, known)
           /\ Send(b, s, p, code).messages = b.messages
<1>1. ASSUME NEW q \in Players
      PROVE  /\ lost[q] = lost[q] + IF q = p /\ "LOST_ALIVE_PLAYER" = code THEN 1 ELSE 0
             /\ won[q] = won[q] + IF q = p /\ "VICTORY_MESSAGE" = code THEN 1 ELSE 0
  <2>1. b \in BrokerType /\ Sent(b, s, q, "LOST_ALIVE_PLAYER") = lost[q]
        /\ Sent(b, s, q, "VICTORY_MESSAGE") = won[q]
    BY DEF Books
  <2>2. Sent(b, s, q, "LOST_ALIVE_PLAYER") \in Nat /\ Sent(b, s, q, "VICTORY_MESSAGE") \in Nat
    BY <2>1, SentIsNat
  <2> QED BY <2>1, <2>2
<1> QED BY <1>1, SendKeeps

-----------------------------------------------------------------------------
(* The messages.                                                           *)

Plain == {"STARTCANCELLED", "GAME_STARTED", "PAY_FACTORY_SUCCESS", "FACTORY_BUILT",
          "VICTORY_MESSAGE", "GAME_NOT_STARTED"}

LEMMA TextIs ==
    ASSUME NEW b
    PROVE  /\ \A code \in Plain : Text(b, code) = <<>>
           /\ Text(b, "NEW_PLAYER_CONNECT") = NewPlayerConnectMessage(b)
           /\ Text(b, "LOST_ALIVE_PLAYER") = LostAlivePlayerMessage(b)
           /\ Text(b, "STARTING_GAME_INFORMATION") = StartGameInfoMessage(b)
           /\ Text(b, "NEW_TURN") = NewTurnMessage(b)
           /\ Text(b, "AUCTION_RESULTS") = AuctionResultsMessage(b)
           /\ Text(b, "STARTINSECONDS") = <<Whose(b.messages[TimeToStart])>>
           /\ Text(b, "PRODUCED") = <<Whose(b.messages[Produced])>>
           /\ Text(b, "SUCCESS_CHARGES_PAY") = <<Whose(b.messages[TotalCharges])>>
           /\ Text(b, "PLAYER_BANKROT") = <<Whose(b.messages[TotalCharges])>>
<1>1. \A code \in Plain : Text(b, code) = <<>>
  BY DEF Plain, Text
<1>2. /\ Text(b, "NEW_PLAYER_CONNECT") = NewPlayerConnectMessage(b)
      /\ Text(b, "LOST_ALIVE_PLAYER") = LostAlivePlayerMessage(b)
      /\ Text(b, "STARTING_GAME_INFORMATION") = StartGameInfoMessage(b)
  BY DEF Text
<1>3. /\ Text(b, "NEW_TURN") = NewTurnMessage(b)
      /\ Text(b, "AUCTION_RESULTS") = AuctionResultsMessage(b)
      /\ Text(b, "STARTINSECONDS") = <<Whose(b.messages[TimeToStart])>>
  BY DEF Text
<1>4. /\ Text(b, "PRODUCED") = <<Whose(b.messages[Produced])>>
      /\ Text(b, "SUCCESS_CHARGES_PAY") = <<Whose(b.messages[TotalCharges])>>
      /\ Text(b, "PLAYER_BANKROT") = <<Whose(b.messages[TotalCharges])>>
  BY DEF Text
<1> QED BY <1>1, <1>2, <1>3, <1>4

\* How many parameters the messages need.
LEMMA FitsWhen ==
    ASSUME NEW params \in Seq(Seq(Nat)), NEW bot \in BOOLEAN
    PROVE  /\ \A code \in Plain : Fits(code, params, bot)
           /\ \A code \in {"STARTINSECONDS", "PRODUCED", "SUCCESS_CHARGES_PAY", "PLAYER_BANKROT"} :
                  Len(params) >= 1 => Fits(code, params, bot)
           /\ \A code \in {"NEW_PLAYER_CONNECT", "LOST_ALIVE_PLAYER"} :
                  Len(params) >= 2 => Fits(code, params, bot)
           /\ Len(params) >= (IF bot THEN 5 ELSE 1) => Fits("NEW_TURN", params, bot)
           /\ Len(params) = (IF bot THEN 13 ELSE 9) =>
                  Fits("STARTING_GAME_INFORMATION", params, bot)
           /\ Len(params) % 6 = 0 => Fits("AUCTION_RESULTS", params, bot)
<1> USE DEF Fits, TakenBy, ClientTakesOfNews, BotTakesOfNews, Queries, News, ReadToTheEnd, Texts
<1>1. Len(params) \in Nat
  OBVIOUS
<1>2. \A code \in Plain : Fits(code, params, bot)
  BY <1>1 DEF Plain
<1>3. ASSUME NEW code \in {"STARTINSECONDS", "PRODUCED", "SUCCESS_CHARGES_PAY", "PLAYER_BANKROT"},
             Len(params) >= 1
      PROVE  Fits(code, params, bot)
  BY <1>1, <1>3
<1>4. ASSUME NEW code \in {"NEW_PLAYER_CONNECT", "LOST_ALIVE_PLAYER"}, Len(params) >= 2
      PROVE  Fits(code, params, bot)
  BY <1>1, <1>4
<1>5. Len(params) >= (IF bot THEN 5 ELSE 1) => Fits("NEW_TURN", params, bot)
  BY <1>1
<1>6. Len(params) = (IF bot THEN 13 ELSE 9) =>
          Fits("STARTING_GAME_INFORMATION", params, bot)
  BY <1>1
<1>7. Len(params) % 6 = 0 => Fits("AUCTION_RESULTS", params, bot)
  BY <1>1
<1> QED BY <1>2, <1>3, <1>4, <1>5, <1>6, <1>7

LEMMA SeveralIs ==
    ASSUME NEW n \in Nat, NEW of \in Seq(Nat)
    PROVE  Several(n, of) \in Seq({of}) /\ Len(Several(n, of)) = n
BY DEF Several

\* What is fine for player p of session s.
LEMMA PlainFine ==
    ASSUME NEW s \in Sessions, NEW p \in Players, NEW gone, NEW b, NEW code \in Plain
    PROVE  /\ Text(b, code) \in Seq(Seq(Nat)) /\ code \in Said
           /\ Fine([to |-> OfPlayer(s, p), code |-> code, params |-> Text(b, code)], s, gone)
<1> DEFINE m == [to |-> OfPlayer(s, p), code |-> code, params |-> Text(b, code)]
<1>1. Text(b, code) = <<>> /\ <<>> \in Seq(Seq(Nat)) /\ code \in Said
  BY TextIs DEF Plain, Said, News
<1>2. Fits(code, <<>>, OfPlayer(s, p) \in Bots)
  <2>1. (OfPlayer(s, p) \in Bots) \in BOOLEAN
    OBVIOUS
  <2> QED BY <1>1, <2>1, FitsWhen, Zenon
<1>3. OwnOf(m, s, gone)
  <2>1. code # "LOST_ALIVE_PLAYER" /\ code # "PLAYER_BANKROT"
    BY DEF Plain
  <2>2. Range(<<>>) = {}
    BY DEF Range
  <2> QED BY <1>1, <2>1, <2>2 DEF OwnOf
<1>4. code \notin WithoutSession
  BY DEF Plain, WithoutSession
<1> QED BY <1>1, <1>2, <1>3, <1>4 DEF Fine

\* Messages of one parameter, and of several, that are the reader's or his session's.
LEMMA OwnFine ==
    ASSUME NEW s \in Sessions, NEW p \in Players, NEW gone, NEW params \in Seq(Seq(Nat)),
           NEW code \in {"STARTINSECONDS", "PRODUCED", "SUCCESS_CHARGES_PAY", "NEW_TURN",
                         "STARTING_GAME_INFORMATION"},
           params \in Seq({Everybody, OfSession(s), OfPlayer(s, p)}),
           Fits(code, params, OfPlayer(s, p) \in Bots)
    PROVE  /\ code \in Said
           /\ Fine([to |-> OfPlayer(s, p), code |-> code, params |-> params], s, gone)
<1> DEFINE m == [to |-> OfPlayer(s, p), code |-> code, params |-> params]
<1>1. code \in Said /\ code \notin WithoutSession
      /\ code # "LOST_ALIVE_PLAYER" /\ code # "PLAYER_BANKROT"
  BY DEF Said, News, WithoutSession
<1>2. \A of \in Range(params) : of \in {Everybody, OfSession(s), OfPlayer(s, p)}
  BY DEF Range
<1>3. OwnOf(m, s, gone)
  BY <1>1, <1>2 DEF OwnOf
<1> QED BY <1>1, <1>3 DEF Fine

-----------------------------------------------------------------------------
(* The multicasts.                                                         *)

LEMMA EachSeatStays ==
    ASSUME NEW V, NEW b \in V, NEW s, NEW firstly, NEW nextly,
           \A p \in Players : \A c \in V :
               /\ p \in DOMAIN firstly => Obey(c, s, p, firstly[p]) \in V
               /\ p \in DOMAIN nextly => Obey(c, s, p, nextly[p]) \in V
    PROVE  EachSeat(b, s, firstly, nextly) \in V
<1> DEFINE W == [p \in 0..Last |-> V]
<1>1. \A p \in 0..Last : W[p] = V
  OBVIOUS
<1>2. 0 \in 0..Last /\ Last \in 0..Last /\ \A p \in Players : p \in 0..Last /\ p - 1 \in 0..Last
  BY SeatsCount
<1>3. ASSUME NEW p \in Players, NEW c \in V
      PROVE  Follow(Follow(c, s, p, firstly), s, p, nextly) \in V
  <2>1. Follow(c, s, p, firstly) \in V
    BY DEF Follow
  <2> QED BY <2>1 DEF Follow
<1> HIDE DEF W
<1>4. \A p \in Players : \A c \in W[p - 1] :
          Follow(Follow(c, s, p, firstly), s, p, nextly) \in W[p]
  BY <1>1, <1>2, <1>3
<1>5. b \in W[0]
  BY <1>1, <1>2
<1>6. EachSeat(b, s, firstly, nextly) \in W[Last]
  BY <1>4, <1>5, EachSeatKeeps
<1> QED BY <1>1, <1>2, <1>6

LEMMA SaidIsNoSilence == ASSUME NEW code \in Said PROVE code # Silence
BY DEF Said, News, Silence

LEMMA ObeySays ==
    ASSUME NEW c, NEW s, NEW p, NEW code \in Said
    PROVE  Obey(c, s, p, Say(code)) = Send(c, s, p, code)
BY SaidIsNoSilence DEF Obey, Say, Note

LEMMA ObeyPutsAndSays ==
    ASSUME NEW c, NEW s, NEW p, NEW code \in Said, NEW field \in Fields, NEW fact
    PROVE  Obey(c, s, p, Note(field, fact, code)) =
               Send(Give(c, "messages", field, fact), s, p, code)
<1>1. field # NoField /\ code # Silence
  BY SaidIsNoSilence DEF Fields, NoField
<1> QED BY <1>1 DEF Obey, Note

LEMMA ObeyPuts ==
    ASSUME NEW c, NEW s, NEW p, NEW field \in Fields, NEW fact
    PROVE  Obey(c, s, p, Note(field, fact, Silence)) = Give(c, "messages", field, fact)
<1>1. field # NoField
  BY DEF Fields, NoField
<1> QED BY <1>1 DEF Obey, Note

LEMMA TellStays ==
    ASSUME NEW V, NEW b \in V, NEW s, NEW seats, NEW code \in Said,
           \A p \in Players \cap seats : \A c \in V : Send(c, s, p, code) \in V
    PROVE  Tell(b, s, seats, code) \in V
<1> DEFINE firstly == [p \in seats |-> Say(code)]
<1>1. ASSUME NEW p \in Players, NEW c \in V
      PROVE  /\ p \in DOMAIN firstly => Obey(c, s, p, firstly[p]) \in V
             /\ p \in DOMAIN Nobody => Obey(c, s, p, Nobody[p]) \in V
  <2>1. p \notin DOMAIN Nobody
    BY DEF Nobody
  <2>2. ASSUME p \in seats
        PROVE  Obey(c, s, p, Say(code)) \in V
    <3>1. Obey(c, s, p, Say(code)) = Send(c, s, p, code)
      BY ObeySays
    <3> QED BY <2>2, <3>1
  <2> QED BY <2>1, <2>2
<1> HIDE DEF firstly
<1>2. EachSeat(b, s, firstly, Nobody) \in V
  BY <1>1, EachSeatStays
<1> QED BY <1>2 DEF Tell, firstly

\* A multicast that puts a parameter before each message, or puts and is silent.
LEMMA PutAndTellStays ==
    ASSUME NEW V, NEW b \in V, NEW s, NEW notes,
           \A p \in Players \cap DOMAIN notes : \A c \in V : Obey(c, s, p, notes[p]) \in V
    PROVE  EachSeat(b, s, notes, Nobody) \in V
<1>1. ASSUME NEW p \in Players, NEW c \in V
      PROVE  /\ p \in DOMAIN notes => Obey(c, s, p, notes[p]) \in V
             /\ p \in DOMAIN Nobody => Obey(c, s, p, Nobody[p]) \in V
  <2>1. p \notin DOMAIN Nobody
    BY DEF Nobody
  <2> QED BY <2>1
<1> QED BY <1>1, EachSeatStays

\* Multicasts without parameters.
LEMMA TellPlain ==
    ASSUME NEW s \in Sessions, NEW gone, NEW lost, NEW won, NEW known,
           NEW b \in Books(s, gone, lost, won, known), NEW seats,
           NEW code \in Plain \ {"VICTORY_MESSAGE"}
    PROVE  Tell(b, s, seats, code) \in Books(s, gone, lost, won, known)
<1>1. code \in Said /\ code # "VICTORY_MESSAGE" /\ code # "LOST_ALIVE_PLAYER"
  BY DEF Plain, Said, News
<1>2. ASSUME NEW p \in Players, NEW c \in Books(s, gone, lost, won, known)
      PROVE  Send(c, s, p, code) \in Books(s, gone, lost, won, known)
  <2>1. /\ Text(c, code) \in Seq(Seq(Nat))
        /\ Fine([to |-> OfPlayer(s, p), code |-> code, params |-> Text(c, code)], s, gone)
    BY PlainFine
  <2> QED BY <1>1, <2>1, SayKeeps
<1> QED BY <1>1, <1>2, TellStays

LEMMA SendNewPlayerConnectKeeps ==
    ASSUME NEW s \in Sessions, NEW gone, NEW lost, NEW won, NEW known \in BOOLEAN,
           NEW b \in Books(s, gone, lost, won, known), NEW seats, known
    PROVE  SendNewPlayerConnect(b, s, seats) \in Books(s, gone, lost, won, known)
<1> DEFINE code == "NEW_PLAYER_CONNECT"
<1>1. code \in Said \ {"LOST_ALIVE_PLAYER", "VICTORY_MESSAGE"}
  BY DEF Said, News
<1>2. ASSUME NEW p \in Players, NEW c \in Books(s, gone, lost, won, known)
      PROVE  Send(c, s, p, code) \in Books(s, gone, lost, won, known)
  <2> DEFINE t == SessionOf(c)
             params == <<OfSession(t), Everybody>>
  <2>1. t \in Sessions
    BY DEF Books
  <2>2. Text(c, code) = params
    BY TextIs DEF NewPlayerConnectMessage
  <2>3. params \in Seq(Seq(Nat)) /\ Len(params) >= 2
    BY <2>1, FactType, 0 \in Int
  <2>4. Fits(code, params, OfPlayer(s, p) \in Bots)
    <3>1. (OfPlayer(s, p) \in Bots) \in BOOLEAN
      OBVIOUS
    <3> HIDE DEF params
    <3> QED BY <2>3, <3>1, FitsWhen
  <2>5. Range(params) \subseteq {Everybody, OfSession(t)}
    BY DEF Range
  <2> HIDE DEF t
  <2>6. OfOneSession([to |-> OfPlayer(s, p), code |-> code, params |-> params])
    BY <2>1, <2>5 DEF OfOneSession
  <2>7. Fine([to |-> OfPlayer(s, p), code |-> code, params |-> params], s, gone)
    BY <2>4, <2>6 DEF Fine, WithoutSession
  <2> HIDE DEF params
  <2> QED BY <1>1, <2>2, <2>3, <2>7, SayKeeps
<1>3. Tell(b, s, seats, code) \in Books(s, gone, lost, won, known)
  BY <1>1, <1>2, TellStays
<1> QED BY <1>3 DEF SendNewPlayerConnect

\* Joined sequences.
LEMMA JoinIs ==
    ASSUME NEW S, NEW u \in Seq(S), NEW v \in Seq(S)
    PROVE  u \o v \in Seq(S) /\ Len(u \o v) = Len(u) + Len(v)
OBVIOUS

LEMMA SeqWider ==
    ASSUME NEW S, NEW T, S \subseteq T, NEW u \in Seq(S)
    PROVE  u \in Seq(T)
OBVIOUS

LEMMA OneIs == ASSUME NEW S, NEW x \in S PROVE <<x>> \in Seq(S) /\ Len(<<x>>) = 1
OBVIOUS

\* The messages of one parameter that the multicasts put, and its field.
OfOneParameter ==
    {<<TimeToStart, "STARTINSECONDS">>, <<Produced, "PRODUCED">>,
     <<TotalCharges, "SUCCESS_CHARGES_PAY">>}

\* A message of which the one parameter has just been put.
LEMMA PutThenSay ==
    ASSUME NEW s \in Sessions, NEW gone, NEW lost, NEW won, NEW known,
           NEW c \in Books(s, gone, lost, won, known), NEW p \in Players,
           NEW field, NEW code, <<field, code>> \in OfOneParameter, NEW fact \in Facts,
           fact # None, fact.of \in {Everybody, OfSession(s), OfPlayer(s, p)}
    PROVE  /\ Obey(c, s, p, Note(field, fact, code)) \in Books(s, gone, lost, won, known)
           /\ Obey(c, s, p, Note(field, fact, code)).messages[field] = fact
<1> DEFINE d == Give(c, "messages", field, fact)
<1>1. \/ field = 3 /\ code = "STARTINSECONDS"
      \/ field = 5 /\ code = "PRODUCED"
      \/ field = 6 /\ code = "SUCCESS_CHARGES_PAY"
  BY DEF OfOneParameter, TimeToStart, Produced, TotalCharges, Fields
<1>2. code \in Said \ {"LOST_ALIVE_PLAYER", "VICTORY_MESSAGE"}
      /\ code \in {"STARTINSECONDS", "PRODUCED", "SUCCESS_CHARGES_PAY"}
  BY <1>1 DEF Said, News
<1>3. field \in Fields
  BY <1>1 DEF Fields
<1>4. d = Give(c, "messages", field, fact)
  OBVIOUS
<1>5. Obey(c, s, p, Note(field, fact, code)) = Send(d, s, p, code)
  BY <1>2, <1>3, ObeyPutsAndSays
<1> HIDE DEF d
<1>6. d \in Books(s, gone, lost, won, known) /\ d.messages[field] = fact
  BY <1>3, <1>4, PutKeeps
<1>7. Text(d, code) = <<fact.of>>
  BY <1>1, <1>6, TextIs DEF TimeToStart, Produced, TotalCharges, Whose
<1> DEFINE params == <<fact.of>>
<1>8. params \in Seq(Seq(Nat)) /\ Len(params) >= 1
  BY DEF Facts
<1>9. params \in Seq({Everybody, OfSession(s), OfPlayer(s, p)})
  OBVIOUS
<1>10. Text(d, code) = params
  BY <1>7
<1> HIDE DEF params
<1>11. Fits(code, params, OfPlayer(s, p) \in Bots)
  <2>1. (OfPlayer(s, p) \in Bots) \in BOOLEAN
    OBVIOUS
  <2> QED BY <1>2, <1>8, <2>1, FitsWhen
<1>12. Fine([to |-> OfPlayer(s, p), code |-> code, params |-> params], s, gone)
  BY <1>2, <1>8, <1>9, <1>11, OwnFine
<1>13. Send(d, s, p, code) \in Books(s, gone, lost, won, known)
       /\ Send(d, s, p, code).messages = d.messages
  BY <1>2, <1>6, <1>8, <1>10, <1>12, SayKeeps
<1> QED BY <1>5, <1>6, <1>13

\* Messages that begin with the reader's own numbers: NEW_TURN and the start of a game.
LEMMA PutThenGreet ==
    ASSUME NEW s \in Sessions, NEW gone, NEW lost, NEW won, NEW known,
           NEW c \in Books(s, gone, lost, won, known), NEW p \in Players,
           NEW code \in {"NEW_TURN", "STARTING_GAME_INFORMATION"}
    PROVE  Obey(c, s, p, Note(SenderId, Fact(OfPlayer(s, p), p), code))
               \in Books(s, gone, lost, won, known)
<1> DEFINE fact == Fact(OfPlayer(s, p), p)
           d == Give(c, "messages", SenderId, fact)
           mine == OfPlayer(s, p)
           ours == OfSession(s)
           S == {Everybody, ours, mine}
           bot == mine \in Bots
           market == IF bot THEN Several(4, ours) ELSE <<>>
<1>1. code \in Said \ {"LOST_ALIVE_PLAYER", "VICTORY_MESSAGE"} /\ SenderId \in Fields
  BY DEF Said, News, SenderId, Fields
<1>2. /\ mine \in Seq(Nat) /\ ours \in Seq(Nat) /\ Everybody \in Seq(Nat)
      /\ fact \in Facts /\ fact # None
  <2>1. p \in Int /\ mine \in Seq(Nat) /\ ours \in Seq(Nat) /\ mine # Everybody
        /\ Everybody \in Seq(Nat)
    BY FactType, 0 \in Int
  <2>2. fact \in Facts
    BY <2>1, FactType
  <2> QED BY <2>1, <2>2 DEF Fact, None
<1>3. d = Give(c, "messages", SenderId, fact) /\ fact = Fact(mine, p)
  OBVIOUS
<1>4. Obey(c, s, p, Note(SenderId, fact, code)) = Send(d, s, p, code)
  BY <1>1, ObeyPutsAndSays
<1> HIDE DEF d, fact
<1>5. d \in Books(s, gone, lost, won, known) /\ d.messages[SenderId] = fact /\ SessionOf(d) = s
  BY <1>1, <1>2, <1>3, PutKeeps
<1>6. Sender(d) = mine
  BY <1>3, <1>5 DEF Sender, OfPlayer, Fact
<1>7. market \in Seq(S) /\ Len(market) = (IF bot THEN 4 ELSE 0) /\ bot \in BOOLEAN
  <2> DEFINE four == Several(4, ours)
  <2>1. four \in Seq({ours}) /\ Len(four) = 4
    <3> HIDE DEF ours
    <3> QED BY <1>2, SeveralIs
  <2>2. four \in Seq(S)
    <3> HIDE DEF four
    <3> QED BY <2>1
  <2> HIDE DEF S
  <2>3. CASE bot
    <3>1. market = four
      BY <2>3
    <3> HIDE DEF market, four, bot
    <3> QED BY <2>1, <2>2, <2>3, <3>1
  <2>4. CASE ~bot
    <3>1. market = <<>> /\ (IF bot THEN 4 ELSE 0) = 0 /\ bot \in BOOLEAN
      BY <2>4
    <3>2. <<>> \in Seq(S) /\ Len(<<>>) = 0
      OBVIOUS
    <3> QED BY <3>1, <3>2, Zenon
  <2> QED BY <2>3, <2>4, Zenon
<1>8. S \subseteq Seq(Nat)
  BY <1>2
<1> HIDE DEF S
<1>9. CASE code = "NEW_TURN"
  <2> DEFINE params == <<ours>> \o market
  <2>1. Text(d, code) = params
    BY <1>5, <1>6, <1>9, TextIs DEF NewTurnMessage
  <2> HIDE DEF market
  <2>2. <<ours>> \in Seq(S) /\ Len(<<ours>>) = 1
    BY DEF S
  <2>3. params \in Seq(S) /\ Len(params) = 1 + Len(market)
    BY <1>7, <2>2, JoinIs
  <2> HIDE DEF params, bot, mine, ours
  <2>4. Len(params) >= IF bot THEN 5 ELSE 1
    BY <1>7, <2>3
  <2>5. params \in Seq(Seq(Nat))
    BY <1>8, <2>3
  <2>6. Fits("NEW_TURN", params, bot)
    BY <1>7, <2>4, <2>5, FitsWhen
  <2>7. Fine([to |-> OfPlayer(s, p), code |-> code, params |-> params], s, gone)
    BY <1>9, <2>3, <2>5, <2>6, OwnFine DEF mine, ours, bot, S
  <2>8. Send(d, s, p, code) \in Books(s, gone, lost, won, known)
    BY <1>1, <1>5, <2>1, <2>5, <2>7, SayKeeps
  <2> QED BY <1>4, <2>8 DEF fact
<1>10. CASE code = "STARTING_GAME_INFORMATION"
  <2> DEFINE first == Several(1, mine)
             second == Several(2, ours)
             third == Several(6, mine)
             params == first \o second \o third \o market
  <2>1. Text(d, code) = params
    BY <1>5, <1>6, <1>10, TextIs DEF StartGameInfoMessage
  <2>2. /\ first \in Seq({mine}) /\ Len(first) = 1
        /\ second \in Seq({ours}) /\ Len(second) = 2
        /\ third \in Seq({mine}) /\ Len(third) = 6
    BY <1>2, SeveralIs
  <2> HIDE DEF market, mine, ours, bot, first, second, third
  <2>3. first \in Seq(S) /\ second \in Seq(S) /\ third \in Seq(S)
    BY <2>2, SeqWider DEF S
  <2> DEFINE one == first \o second
             two == one \o third
  <2>4. one \in Seq(S) /\ Len(one) = 3
    <3>1. one \in Seq(S) /\ Len(one) = Len(first) + Len(second)
      BY <2>3, JoinIs
    <3> HIDE DEF one
    <3> QED BY <2>2, <3>1
  <2> HIDE DEF one
  <2>5. two \in Seq(S) /\ Len(two) = 9
    <3>1. two \in Seq(S) /\ Len(two) = Len(one) + Len(third)
      BY <2>3, <2>4, JoinIs
    <3> HIDE DEF two
    <3> QED BY <2>2, <2>4, <3>1
  <2>6. params = two \o market
    BY DEF one
  <2> HIDE DEF two, params
  <2>7. params \in Seq(S) /\ Len(params) = 9 + Len(market)
    BY <1>7, <2>5, <2>6, JoinIs
  <2>8. Len(params) = IF bot THEN 13 ELSE 9
    BY <1>7, <2>7
  <2>9. params \in Seq(Seq(Nat))
    BY <1>8, <2>7
  <2>10. Fits("STARTING_GAME_INFORMATION", params, bot)
    BY <1>7, <2>8, <2>9, FitsWhen
  <2>11. Fine([to |-> OfPlayer(s, p), code |-> code, params |-> params], s, gone)
    BY <1>10, <2>7, <2>9, <2>10, OwnFine DEF mine, ours, bot, S
  <2>12. Send(d, s, p, code) \in Books(s, gone, lost, won, known)
    BY <1>1, <1>5, <2>1, <2>9, <2>11, SayKeeps
  <2> QED BY <1>4, <2>12 DEF fact
<1> QED BY <1>9, <1>10

LEMMA SendStartTimeKeeps ==
    ASSUME NEW s \in Sessions, NEW gone, NEW lost, NEW won, NEW known,
           NEW b \in Books(s, gone, lost, won, known), NEW seats
    PROVE  SendStartTime(b, s, seats) \in Books(s, gone, lost, won, known)
<1> DEFINE note == Note(TimeToStart, Fact(Everybody, 1), "STARTINSECONDS")
           notes == [p \in seats |-> note]
<1>1. ASSUME NEW p \in Players \cap seats, NEW c \in Books(s, gone, lost, won, known)
      PROVE  Obey(c, s, p, note) \in Books(s, gone, lost, won, known)
  <2>1. Fact(Everybody, 1) \in Facts /\ Fact(Everybody, 1) # None
        /\ Fact(Everybody, 1).of = Everybody
    <3>1. Fact(Everybody, 1) \in Facts
      BY FactType, 1 \in Int
    <3> QED BY <3>1 DEF Fact, None
  <2>2. <<TimeToStart, "STARTINSECONDS">> \in OfOneParameter
    BY DEF OfOneParameter
  <2> QED BY <2>1, <2>2, PutThenSay
<1>2. \A p \in Players \cap DOMAIN notes : \A c \in Books(s, gone, lost, won, known) :
          Obey(c, s, p, notes[p]) \in Books(s, gone, lost, won, known)
  BY <1>1
<1>3. EachSeat(b, s, notes, Nobody) \in Books(s, gone, lost, won, known)
  <2> HIDE DEF notes
  <2> QED BY <1>2, PutAndTellStays
<1> QED BY <1>3 DEF SendStartTime

LEMMA PreparePlayersStateKeeps ==
    ASSUME NEW s \in Sessions, NEW gone, NEW lost, NEW won, NEW known,
           NEW b \in Books(s, gone, lost, won, known), NEW seats
    PROVE  PreparePlayersState(b, s, seats) \in Books(s, gone, lost, won, known)
<1> DEFINE notes == [p \in seats |-> Note(SenderId, Fact(OfPlayer(s, p), p),
                                          "STARTING_GAME_INFORMATION")]
<1>1. \A p \in Players \cap DOMAIN notes : \A c \in Books(s, gone, lost, won, known) :
          Obey(c, s, p, notes[p]) \in Books(s, gone, lost, won, known)
  BY PutThenGreet
<1>2. EachSeat(b, s, notes, Nobody) \in Books(s, gone, lost, won, known)
  <2> HIDE DEF notes
  <2> QED BY <1>1, PutAndTellStays
<1> QED BY <1>2 DEF PreparePlayersState

-----------------------------------------------------------------------------
(* The end of a month, until somebody is bankrupt.                         *)

AliveFit == \A t \in Sessions : alive[t] \in 0..Last

OfOne(t) == {Everybody, OfSession(t)} \cup {OfPlayer(t, p) : p \in Players}

LEMMA OfOneIs ==
    ASSUME NEW t \in Sessions
    PROVE  OfOne(t) \subseteq Seq(Nat)
<1>1. Everybody \in Seq(Nat)
  BY DEF Everybody
<1>2. OfSession(t) \in Seq(Nat) /\ \A p \in Players : OfPlayer(t, p) \in Seq(Nat)
  BY BrokersAssumption DEF OfSession, OfPlayer
<1> QED BY <1>1, <1>2 DEF OfOne

\* Six numbers of each, of one session.
LEMMA ResultsAre ==
    ASSUME NEW c, SessionOf(c) \in Sessions, AliveFit
    PROVE  /\ AuctionResultsMessage(c) \in Seq(OfOne(SessionOf(c)))
           /\ Len(AuctionResultsMessage(c)) % 6 = 0
<1> DEFINE t == SessionOf(c)
           n == alive[t]
           S == OfOne(t)
           numbers == [i \in 1..6 * n |-> IF i % 6 = 1 THEN OfSession(t)
                                          ELSE OfPlayer(t, (i + 5) \div 6)]
<1>1. n \in Nat /\ n <= Last /\ 6 * n \in Nat /\ (6 * n) % 6 = 0
  <2>1. n \in Nat /\ n <= Last
    BY SeatsCount DEF AliveFit
  <2> HIDE DEF n
  <2> QED BY <2>1
<1>2. AuctionResultsMessage(c) = <<>> \o numbers
  BY DEF AuctionResultsMessage
<1> HIDE DEF n, t
<1>3. numbers \in [1..6 * n -> S]
  <2> SUFFICES ASSUME NEW i \in 1..6 * n
               PROVE  OfSession(t) \in S /\ OfPlayer(t, (i + 5) \div 6) \in S
    OBVIOUS
  <2>1. (i + 5) \div 6 \in Players
    BY <1>1, SeatsCount
  <2> QED BY <2>1 DEF OfOne
<1> HIDE DEF numbers, S
<1>4. numbers \in Seq(S) /\ Len(numbers) = 6 * n
  BY <1>1, <1>3
<1>5. <<>> \in Seq(S) /\ Len(<<>>) = 0
  OBVIOUS
<1>6. <<>> \o numbers \in Seq(S) /\ Len(<<>> \o numbers) = 0 + Len(numbers)
  BY <1>4, <1>5, JoinIs
<1>7. Len(<<>> \o numbers) = 6 * n
  BY <1>1, <1>4, <1>6
<1> QED BY <1>1, <1>2, <1>6, <1>7 DEF S, t

LEMMA SendAuctionsResultsKeeps ==
    ASSUME NEW s \in Sessions, NEW gone, NEW lost, NEW won, NEW known \in BOOLEAN,
           NEW b \in Books(s, gone, lost, won, known), NEW seats,
           seats # {} => known, AliveFit
    PROVE  SendAuctionsResults(b, s, seats) \in Books(s, gone, lost, won, known)
<1> DEFINE code == "AUCTION_RESULTS"
<1>1. code \in Said \ {"LOST_ALIVE_PLAYER", "VICTORY_MESSAGE"}
  BY DEF Said, News
<1>2. ASSUME NEW p \in Players \cap seats, NEW c \in Books(s, gone, lost, won, known)
      PROVE  Send(c, s, p, code) \in Books(s, gone, lost, won, known)
  <2> DEFINE t == SessionOf(c)
             params == AuctionResultsMessage(c)
  <2>1. t \in Sessions
    BY DEF Books
  <2>2. Text(c, code) = params
    BY TextIs
  <2>3. params \in Seq(OfOne(t)) /\ Len(params) % 6 = 0
    BY <2>1, ResultsAre
  <2> HIDE DEF params, t
  <2>4. params \in Seq(Seq(Nat))
    BY <2>1, <2>3, OfOneIs, SeqWider
  <2>5. Fits(code, params, OfPlayer(s, p) \in Bots)
    <3>1. (OfPlayer(s, p) \in Bots) \in BOOLEAN
      OBVIOUS
    <3> QED BY <2>3, <2>4, <3>1, FitsWhen
  <2>6. Range(params) \subseteq OfOne(t)
    BY <2>3 DEF Range
  <2>7. OfOneSession([to |-> OfPlayer(s, p), code |-> code, params |-> params])
    BY <2>1, <2>6 DEF OfOneSession, OfOne
  <2>8. Fine([to |-> OfPlayer(s, p), code |-> code, params |-> params], s, gone)
    BY <2>5, <2>7 DEF Fine, WithoutSession
  <2> QED BY <1>1, <2>2, <2>4, <2>8, SayKeeps
<1>3. Tell(b, s, seats, code) \in Books(s, gone, lost, won, known)
  BY <1>1, <1>2, TellStays
<1> QED BY <1>3 DEF SendAuctionsResults

\* Somebody has been charged, or was to be.
Charged(c, s) == \E q \in Players : c.messages[TotalCharges].of = OfPlayer(s, q)

ChargedBooks(s, gone, lost, won, known) ==
    {c \in Books(s, gone, lost, won, known) : Charged(c, s)}

LEMMA ObeySaysPlain ==
    ASSUME NEW s \in Sessions, NEW gone, NEW lost, NEW won, NEW known,
           NEW c \in Books(s, gone, lost, won, known), NEW p \in Players,
           NEW code \in Plain \ {"VICTORY_MESSAGE"}
    PROVE  /\ Obey(c, s, p, Say(code)) \in Books(s, gone, lost, won, known)
           /\ Obey(c, s, p, Say(code)).messages = c.messages
<1>1. code \in Said \ {"LOST_ALIVE_PLAYER", "VICTORY_MESSAGE"}
  BY DEF Plain, Said, News
<1>2. /\ Text(c, code) \in Seq(Seq(Nat))
      /\ Fine([to |-> OfPlayer(s, p), code |-> code, params |-> Text(c, code)], s, gone)
  BY PlainFine
<1>3. Obey(c, s, p, Say(code)) = Send(c, s, p, code)
  BY <1>1, ObeySays
<1> QED BY <1>1, <1>2, <1>3, SayKeeps

LEMMA ObeyCharges ==
    ASSUME NEW s \in Sessions, NEW gone, NEW lost, NEW won, NEW known,
           NEW c \in Books(s, gone, lost, won, known), NEW p \in Players,
           NEW code \in {Silence, "PAY_FACTORY_SUCCESS", "SUCCESS_CHARGES_PAY"}
    PROVE  Obey(c, s, p, Charge(s, p, code)) \in ChargedBooks(s, gone, lost, won, known)
<1> DEFINE fact == Fact(OfPlayer(s, p), p)
           d == Give(c, "messages", TotalCharges, fact)
           done == Obey(c, s, p, Note(TotalCharges, fact, code))
<1>1. TotalCharges \in Fields
  BY DEF TotalCharges, Fields
<1>2. fact \in Facts /\ fact # None /\ fact.of = OfPlayer(s, p)
  <2>1. p \in Int /\ OfPlayer(s, p) # Everybody
    BY FactType, 0 \in Int
  <2>2. fact \in Facts
    BY <2>1, FactType
  <2> QED BY <2>1, <2>2 DEF Fact, None
<1>3. d = Give(c, "messages", TotalCharges, fact)
  OBVIOUS
<1>4. Charge(s, p, code) = Note(TotalCharges, fact, code)
  BY DEF Charge
<1> HIDE DEF fact
<1>5. code \in Said => done = Send(d, s, p, code)
  BY <1>1, ObeyPutsAndSays
<1>6. code = Silence => done = d
  BY <1>1, ObeyPuts
<1> HIDE DEF d
<1>7. d \in Books(s, gone, lost, won, known) /\ d.messages[TotalCharges] = fact
  BY <1>1, <1>2, <1>3, PutKeeps
<1>8. ASSUME NEW e \in Books(s, gone, lost, won, known), e.messages[TotalCharges] = fact
      PROVE  e \in ChargedBooks(s, gone, lost, won, known)
  BY <1>2, <1>8 DEF ChargedBooks, Charged
<1>9. CASE code = Silence
  BY <1>4, <1>6, <1>7, <1>8, <1>9
<1>10. CASE code = "PAY_FACTORY_SUCCESS"
  <2>1. code \in Plain /\ code \in Said \ {"LOST_ALIVE_PLAYER", "VICTORY_MESSAGE"}
    BY <1>10 DEF Plain, Said, News
  <2>2. /\ Text(d, code) \in Seq(Seq(Nat))
        /\ Fine([to |-> OfPlayer(s, p), code |-> code, params |-> Text(d, code)], s, gone)
    BY <2>1, PlainFine
  <2>3. /\ Send(d, s, p, code) \in Books(s, gone, lost, won, known)
        /\ Send(d, s, p, code).messages = d.messages
    BY <1>7, <2>1, <2>2, SayKeeps
  <2> QED BY <1>4, <1>5, <1>7, <1>8, <2>1, <2>3
<1>11. CASE code = "SUCCESS_CHARGES_PAY"
  <2>1. <<TotalCharges, code>> \in OfOneParameter
    BY <1>11 DEF OfOneParameter
  <2>2. /\ done \in Books(s, gone, lost, won, known)
        /\ done.messages[TotalCharges] = fact
    BY <1>2, <2>1, PutThenSay
  <2> QED BY <1>4, <1>8, <2>2
<1> QED BY <1>9, <1>10, <1>11

\* What is said to all keeps the books, and that one of them is charged.
LEMMA ChargesStay ==
    ASSUME NEW s \in Sessions, NEW gone, NEW lost, NEW won, NEW known,
           NEW b \in Books(s, gone, lost, won, known), NEW notes,
           \A p \in Players \cap DOMAIN notes : \A c \in Books(s, gone, lost, won, known) :
               /\ Obey(c, s, p, notes[p]) \in Books(s, gone, lost, won, known)
               /\ Charged(c, s) => Charged(Obey(c, s, p, notes[p]), s),
           NEW hit,
           \A p \in Players \cap hit : \A c \in Books(s, gone, lost, won, known) :
               p \in DOMAIN notes /\ Charged(Obey(c, s, p, notes[p]), s)
    PROVE  /\ EachSeat(b, s, notes, Nobody) \in Books(s, gone, lost, won, known)
           /\ Charged(b, s) \/ Players \cap hit # {} =>
                  Charged(EachSeat(b, s, notes, Nobody), s)
<1> DEFINE V == Books(s, gone, lost, won, known)
           C == ChargedBooks(s, gone, lost, won, known)
<1>1. EachSeat(b, s, notes, Nobody) \in V
  BY PutAndTellStays
<1>2. ASSUME Charged(b, s)
      PROVE  EachSeat(b, s, notes, Nobody) \in C
  <2>1. b \in C /\ \A p \in Players \cap DOMAIN notes : \A c \in C : Obey(c, s, p, notes[p]) \in C
    BY <1>2 DEF ChargedBooks
  <2> HIDE DEF C
  <2> QED BY <2>1, PutAndTellStays
<1>3. ASSUME NEW q \in Players \cap hit
      PROVE  EachSeat(b, s, notes, Nobody) \in C
  <2> DEFINE W == [p \in 0..Last |-> IF p < q THEN V ELSE C]
  <2>1. q \in 1..Last /\ Last \in Nat /\ Players = 1..Last
    BY SeatsCount
  <2>2. ASSUME NEW p \in Players, NEW c \in W[p - 1]
        PROVE  Follow(Follow(c, s, p, notes), s, p, Nobody) \in W[p]
    <3>1. Follow(Follow(c, s, p, notes), s, p, Nobody) = Follow(c, s, p, notes)
      <4>1. DOMAIN Nobody = {}
        BY DEF Nobody
      <4> QED BY <4>1 DEF Follow
    <3>2. p - 1 \in 0..Last /\ p \in 0..Last /\ p \in Nat
      BY <2>1
    <3>3. /\ W[p - 1] = IF p - 1 < q THEN V ELSE C
          /\ W[p] = IF p < q THEN V ELSE C
      BY <3>2
    <3>4. C \subseteq V /\ c \in V
      BY <3>3 DEF ChargedBooks
    <3> DEFINE done == Follow(c, s, p, notes)
    <3>5. done \in V /\ (c \in C => done \in C)
      BY <3>4 DEF Follow, ChargedBooks
    <3>6. p = q => done \in C
      <4> SUFFICES ASSUME p = q
                   PROVE  done \in C
        OBVIOUS
      <4>1. p \in DOMAIN notes /\ Charged(Obey(c, s, p, notes[p]), s)
        BY <1>3, <3>4
      <4>2. done = Obey(c, s, p, notes[p])
        BY <4>1 DEF Follow
      <4> HIDE DEF done
      <4> QED BY <3>5, <4>1, <4>2 DEF ChargedBooks
    <3>7. p - 1 < q <=> p < q \/ p = q
      BY <2>1, <3>2
    <3> HIDE DEF done, W, V, C
    <3>8. done \in W[p]
      <4>1. CASE p < q
        BY <3>3, <3>5, <4>1
      <4>2. CASE p = q
        <5>1. ~(p < q)
          BY <2>1, <3>2, <4>2
        <5> QED BY <3>3, <3>6, <4>2, <5>1
      <4>3. CASE ~(p < q) /\ p # q
        <5>1. c \in C
          BY <2>2, <3>3, <3>7, <4>3
        <5> QED BY <3>3, <3>5, <4>3, <5>1
      <4> QED BY <4>1, <4>2, <4>3
    <3> QED BY <3>1, <3>8 DEF done
  <2>3. 0 \in 0..Last /\ Last \in 0..Last /\ W[0] = V /\ W[Last] = C
    BY <2>1
  <2>4. b \in W[0]
    BY <2>3
  <2> HIDE DEF W
  <2>5. EachSeat(b, s, notes, Nobody) \in W[Last]
    BY <2>2, <2>4, EachSeatKeeps
  <2> QED BY <2>3, <2>5
<1> QED BY <1>1, <1>2, <1>3 DEF ChargedBooks

LEMMA CheckBuildingFactoriesKeeps ==
    ASSUME NEW s \in Sessions, NEW gone, NEW lost, NEW won, NEW known,
           NEW b \in Books(s, gone, lost, won, known), NEW seats,
           NEW due, \A p \in Players : due[p] \in {"nothing", "paid", "unpaid", "ready"}
    PROVE  /\ CheckBuildingFactories(b, s, seats, due) \in Books(s, gone, lost, won, known)
           /\ {p \in seats \cap Players : due[p] = "unpaid"} # {} =>
                  Charged(CheckBuildingFactories(b, s, seats, due), s)
<1> DEFINE V == Books(s, gone, lost, won, known)
           hit == {p \in seats \cap Players : due[p] = "unpaid"}
           notes == [p \in {q \in seats : due[q] # "nothing"} |->
                       CASE due[p] = "paid" -> Charge(s, p, "PAY_FACTORY_SUCCESS")
                         [] due[p] = "unpaid" -> Charge(s, p, Silence)
                         [] due[p] = "ready" -> Say("FACTORY_BUILT")]
<1>1. ASSUME NEW p \in Players \cap DOMAIN notes, NEW c \in V
      PROVE  /\ Obey(c, s, p, notes[p]) \in V
             /\ Charged(c, s) \/ due[p] = "unpaid" => Charged(Obey(c, s, p, notes[p]), s)
  <2>1. p \in seats /\ due[p] \in {"paid", "unpaid", "ready"}
    OBVIOUS
  <2>2. CASE due[p] = "paid"
    <3>1. notes[p] = Charge(s, p, "PAY_FACTORY_SUCCESS")
      BY <2>1, <2>2
    <3> QED BY <3>1, ObeyCharges DEF ChargedBooks
  <2>3. CASE due[p] = "unpaid"
    <3>1. notes[p] = Charge(s, p, Silence)
      BY <2>1, <2>3
    <3> QED BY <3>1, ObeyCharges DEF ChargedBooks
  <2>4. CASE due[p] = "ready"
    <3>1. notes[p] = Say("FACTORY_BUILT")
      BY <2>1, <2>4
    <3>2. "FACTORY_BUILT" \in Plain \ {"VICTORY_MESSAGE"}
      BY DEF Plain
    <3>3. Obey(c, s, p, notes[p]) \in V /\ Obey(c, s, p, notes[p]).messages = c.messages
      BY <3>1, <3>2, ObeySaysPlain
    <3> QED BY <2>4, <3>3 DEF Charged
  <2> QED BY <2>1, <2>2, <2>3, <2>4
<1>2. \A p \in Players \cap hit : p \in DOMAIN notes /\ due[p] = "unpaid"
  OBVIOUS
<1>3. Players \cap hit = hit
  OBVIOUS
<1> HIDE DEF notes, hit
<1>4. /\ EachSeat(b, s, notes, Nobody) \in V
      /\ Charged(b, s) \/ Players \cap hit # {} => Charged(EachSeat(b, s, notes, Nobody), s)
  BY <1>1, <1>2, ChargesStay
<1>5. CheckBuildingFactories(b, s, seats, due) = EachSeat(b, s, notes, Nobody)
  BY DEF CheckBuildingFactories, notes
<1> QED BY <1>3, <1>4, <1>5 DEF hit

LEMMA PayChargesKeeps ==
    ASSUME NEW s \in Sessions, NEW gone, NEW lost, NEW won, NEW known,
           NEW b \in Books(s, gone, lost, won, known), NEW seats, NEW cannot
    PROVE  /\ PayCharges(b, s, seats, cannot) \in Books(s, gone, lost, won, known)
           /\ Charged(b, s) \/ Players \cap seats # {} =>
                  Charged(PayCharges(b, s, seats, cannot), s)
<1> DEFINE V == Books(s, gone, lost, won, known)
           notes == [p \in seats |->
                       Charge(s, p, IF p \in cannot THEN Silence ELSE "SUCCESS_CHARGES_PAY")]
<1>1. ASSUME NEW p \in Players \cap seats, NEW c \in V
      PROVE  Obey(c, s, p, notes[p]) \in V /\ Charged(Obey(c, s, p, notes[p]), s)
  <2>1. \/ notes[p] = Charge(s, p, Silence)
        \/ notes[p] = Charge(s, p, "SUCCESS_CHARGES_PAY")
    OBVIOUS
  <2> QED BY <2>1, ObeyCharges DEF ChargedBooks
<1>2. DOMAIN notes = seats
  OBVIOUS
<1> HIDE DEF notes
<1>3. /\ EachSeat(b, s, notes, Nobody) \in V
      /\ Charged(b, s) \/ Players \cap seats # {} => Charged(EachSeat(b, s, notes, Nobody), s)
  BY <1>1, <1>2, ChargesStay
<1> QED BY <1>3 DEF PayCharges, notes

\* A bankrupt is told whose charges could not be paid: somebody's of his session, as
\* he was to pay himself.
LEMMA SendPlayersBankrotKeeps ==
    ASSUME NEW s \in Sessions, NEW gone, NEW lost, NEW won, NEW known,
           NEW b \in Books(s, gone, lost, won, known), NEW bankrots,
           bankrots # {} => Charged(b, s)
    PROVE  SendPlayersBankrot(b, s, bankrots) \in Books(s, gone, lost, won, known)
<1> DEFINE code == "PLAYER_BANKROT"
           V == Books(s, gone, lost, won, known)
           C == ChargedBooks(s, gone, lost, won, known)
<1>1. code \in Said \ {"LOST_ALIVE_PLAYER", "VICTORY_MESSAGE"}
  BY DEF Said, News
<1>2. ASSUME NEW p \in Players, NEW c \in C
      PROVE  Send(c, s, p, code) \in C
  <2>1. PICK q \in Players : c.messages[TotalCharges].of = OfPlayer(s, q)
    BY DEF ChargedBooks, Charged
  <2> DEFINE params == <<OfPlayer(s, q)>>
  <2>2. Text(c, code) = params
    BY <2>1, TextIs DEF Whose
  <2>3. params \in Seq(Seq(Nat)) /\ Len(params) >= 1
    BY FactType, 0 \in Int
  <2>4. params \in {<<OfPlayer(s, r)>> : r \in Players}
    OBVIOUS
  <2> HIDE DEF params
  <2>5. Fits(code, params, OfPlayer(s, p) \in Bots)
    <3>1. (OfPlayer(s, p) \in Bots) \in BOOLEAN
      OBVIOUS
    <3> QED BY <2>3, <3>1, FitsWhen
  <2>6. Fine([to |-> OfPlayer(s, p), code |-> code, params |-> params], s, gone)
    BY <2>4, <2>5 DEF Fine, OwnOf, WithoutSession
  <2>7. c \in V
    BY DEF ChargedBooks
  <2>8. Send(c, s, p, code) \in V /\ Send(c, s, p, code).messages = c.messages
    BY <1>1, <2>2, <2>3, <2>6, <2>7, SayKeeps
  <2> QED BY <2>1, <2>8 DEF ChargedBooks, Charged
<1>3. CASE Charged(b, s)
  <2>1. b \in C
    BY <1>3 DEF ChargedBooks
  <2>2. Tell(b, s, bankrots, code) \in C
    <3> HIDE DEF C
    <3> QED BY <1>1, <1>2, <2>1, TellStays
  <2> QED BY <2>2 DEF ChargedBooks, SendPlayersBankrot
<1>4. CASE bankrots = {}
  <2>1. Tell(b, s, {}, code) \in V
    <3>1. \A p \in Players \cap {} : \A c \in V : Send(c, s, p, code) \in V
      OBVIOUS
    <3> QED BY <1>1, <3>1, TellStays
  <2> QED BY <1>4, <2>1 DEF SendPlayersBankrot
<1> QED BY <1>3, <1>4

LEMMA PrepareNewTurnKeeps ==
    ASSUME NEW s \in Sessions, NEW gone, NEW lost, NEW won, NEW known,
           NEW b \in Books(s, gone, lost, won, known), NEW seats, NEW produced
    PROVE  PrepareNewTurn(b, s, seats, produced) \in Books(s, gone, lost, won, known)
<1> DEFINE V == Books(s, gone, lost, won, known)
           turn == [p \in seats |-> Note(SenderId, Fact(OfPlayer(s, p), p), "NEW_TURN")]
           more == [p \in produced |-> Note(Produced, Fact(OfPlayer(s, p), p), "PRODUCED")]
<1>1. ASSUME NEW p \in Players, NEW c \in V
      PROVE  /\ p \in DOMAIN turn => Obey(c, s, p, turn[p]) \in V
             /\ p \in DOMAIN more => Obey(c, s, p, more[p]) \in V
  <2>1. Obey(c, s, p, Note(SenderId, Fact(OfPlayer(s, p), p), "NEW_TURN")) \in V
    BY PutThenGreet
  <2>2. Obey(c, s, p, Note(Produced, Fact(OfPlayer(s, p), p), "PRODUCED")) \in V
    <3> DEFINE fact == Fact(OfPlayer(s, p), p)
    <3>1. fact \in Facts /\ fact # None /\ fact.of = OfPlayer(s, p)
      <4>1. p \in Int /\ OfPlayer(s, p) # Everybody
        BY FactType, 0 \in Int
      <4>2. fact \in Facts
        BY <4>1, FactType
      <4> QED BY <4>1, <4>2 DEF Fact, None
    <3>2. <<Produced, "PRODUCED">> \in OfOneParameter
      BY DEF OfOneParameter
    <3> HIDE DEF fact
    <3>3. Obey(c, s, p, Note(Produced, fact, "PRODUCED")) \in V
      BY <3>1, <3>2, PutThenSay
    <3> QED BY <3>3 DEF fact
  <2> QED BY <2>1, <2>2
<1> HIDE DEF turn, more
<1>2. EachSeat(b, s, turn, more) \in V
  BY <1>1, EachSeatStays
<1> QED BY <1>2 DEF PrepareNewTurn, turn, more

-----------------------------------------------------------------------------
(* Who leaves.                                                             *)

\* The counts, when those of T up to seat i have been told once more.
More(f, T, i) == [q \in Players |-> f[q] + IF q \in T /\ q <= i THEN 1 ELSE 0]

LEMMA BooksAgree ==
    ASSUME NEW s, NEW gone, NEW lost, NEW won, NEW known,
           NEW b \in Books(s, gone, lost, won, known), NEW lost2, NEW won2,
           \A q \in Players : lost2[q] = lost[q] /\ won2[q] = won[q]
    PROVE  b \in Books(s, gone, lost2, won2, known)
BY DEF Books

LEMMA CountsAreNat ==
    ASSUME NEW s, NEW gone, NEW lost, NEW won, NEW known,
           NEW b \in Books(s, gone, lost, won, known)
    PROVE  \A q \in Players : lost[q] \in Nat /\ won[q] \in Nat
<1> SUFFICES ASSUME NEW q \in Players
             PROVE  lost[q] \in Nat /\ won[q] \in Nat
  OBVIOUS
<1>1. b \in BrokerType /\ Sent(b, s, q, "LOST_ALIVE_PLAYER") = lost[q]
      /\ Sent(b, s, q, "VICTORY_MESSAGE") = won[q]
  BY DEF Books
<1>2. Sent(b, s, q, "LOST_ALIVE_PLAYER") \in Nat /\ Sent(b, s, q, "VICTORY_MESSAGE") \in Nat
  BY <1>1, SentIsNat
<1> QED BY <1>1, <1>2

\* A loop that tells those of a set that somebody left, or that they have won.
LEMMA TellCounts ==
    ASSUME NEW s \in Sessions, NEW gone, NEW lost, NEW won, NEW known,
           NEW b \in Books(s, gone, lost, won, known),
           NEW code \in {"LOST_ALIVE_PLAYER", "VICTORY_MESSAGE"}, NEW notes,
           \A p \in Players \cap DOMAIN notes : \A lostNow, wonNow :
               \A c \in Books(s, gone, lostNow, wonNow, known) :
                   \E d \in Books(s, gone, lostNow, wonNow, known) :
                       /\ Obey(c, s, p, notes[p]) = Send(d, s, p, code)
                       /\ Text(d, code) \in Seq(Seq(Nat))
                       /\ Fine([to |-> OfPlayer(s, p), code |-> code,
                                params |-> Text(d, code)], s, gone),
           NEW losers, losers = IF code = "LOST_ALIVE_PLAYER" THEN DOMAIN notes ELSE {},
           NEW winners, winners = IF code = "VICTORY_MESSAGE" THEN DOMAIN notes ELSE {}
    PROVE  EachSeat(b, s, notes, Nobody) \in
               Books(s, gone, More(lost, losers, Last), More(won, winners, Last), known)
<1> DEFINE B(i) == Books(s, gone, More(lost, losers, i), More(won, winners, i), known)
           W == [i \in 0..Last |-> B(i)]
<1>1. Last \in Nat /\ Players = 1..Last
  BY SeatsCount
<1>2. \A q \in Players : lost[q] \in Nat /\ won[q] \in Nat
  BY CountsAreNat
<1>3. \A i \in 0..Last : \A q \in Players :
          /\ More(lost, losers, i)[q] = lost[q] + IF q \in losers /\ q <= i THEN 1 ELSE 0
          /\ More(won, winners, i)[q] = won[q] + IF q \in winners /\ q <= i THEN 1 ELSE 0
  BY DEF More
<1>4. code \in Said
  BY LossesAreSaid
<1>5. b \in B(0)
  <2>1. \A q \in Players : More(lost, losers, 0)[q] = lost[q] /\ More(won, winners, 0)[q] = won[q]
    <3>1. 0 \in 0..Last /\ \A q \in Players : ~(q <= 0)
      BY <1>1
    <3> QED BY <1>2, <1>3, <3>1
  <2> QED BY <2>1, BooksAgree
<1>6. ASSUME NEW p \in Players, NEW c \in B(p - 1)
      PROVE  Follow(Follow(c, s, p, notes), s, p, Nobody) \in B(p)
  <2> DEFINE l1 == More(lost, losers, p - 1)
             w1 == More(won, winners, p - 1)
             l2 == More(lost, losers, p)
             w2 == More(won, winners, p)
  <2>1. Follow(Follow(c, s, p, notes), s, p, Nobody) = Follow(c, s, p, notes)
    <3>1. DOMAIN Nobody = {}
      BY DEF Nobody
    <3> QED BY <3>1 DEF Follow
  <2>2. /\ p - 1 \in 0..Last /\ p \in 0..Last
        /\ \A q \in Players : q <= p <=> q <= p - 1 \/ q = p
    BY <1>1
  <2>3. \A q \in Players :
            /\ l1[q] \in Nat /\ w1[q] \in Nat
            /\ l2[q] = l1[q] + IF q = p /\ p \in losers THEN 1 ELSE 0
            /\ w2[q] = w1[q] + IF q = p /\ p \in winners THEN 1 ELSE 0
    <3> SUFFICES ASSUME NEW q \in Players
                 PROVE  /\ l1[q] \in Nat /\ w1[q] \in Nat
                        /\ l2[q] = l1[q] + IF q = p /\ p \in losers THEN 1 ELSE 0
                        /\ w2[q] = w1[q] + IF q = p /\ p \in winners THEN 1 ELSE 0
      OBVIOUS
    <3>1. /\ l1[q] = lost[q] + IF q \in losers /\ q <= p - 1 THEN 1 ELSE 0
          /\ w1[q] = won[q] + IF q \in winners /\ q <= p - 1 THEN 1 ELSE 0
          /\ l2[q] = lost[q] + IF q \in losers /\ q <= p THEN 1 ELSE 0
          /\ w2[q] = won[q] + IF q \in winners /\ q <= p THEN 1 ELSE 0
      BY <1>3, <2>2
    <3>2. q <= p <=> q <= p - 1 \/ q = p
      BY <2>2
    <3>3. q = p => ~(q <= p - 1)
      BY <1>1
    <3> HIDE DEF l1, l2, w1, w2
    <3> QED BY <1>2, <3>1, <3>2, <3>3
  <2>4. c \in Books(s, gone, l1, w1, known)
    BY <1>6
  <2>5. CASE p \in DOMAIN notes
    <3> HIDE DEF l1, l2, w1, w2
    <3>1. PICK d \in Books(s, gone, l1, w1, known) :
              /\ Obey(c, s, p, notes[p]) = Send(d, s, p, code)
              /\ Text(d, code) \in Seq(Seq(Nat))
              /\ Fine([to |-> OfPlayer(s, p), code |-> code,
                       params |-> Text(d, code)], s, gone)
      BY <2>4, <2>5
    <3>2. /\ p \in losers <=> "LOST_ALIVE_PLAYER" = code
          /\ p \in winners <=> "VICTORY_MESSAGE" = code
      BY <2>5
    <3>3. \A q \in Players :
              /\ l2[q] = l1[q] + IF q = p /\ "LOST_ALIVE_PLAYER" = code THEN 1 ELSE 0
              /\ w2[q] = w1[q] + IF q = p /\ "VICTORY_MESSAGE" = code THEN 1 ELSE 0
      BY <2>3, <3>2
    <3>4. Send(d, s, p, code) \in Books(s, gone, l2, w2, known)
      BY <1>4, <3>1, <3>3, SendKeeps
    <3> QED BY <2>1, <2>5, <3>1, <3>4 DEF Follow, l2, w2
  <2>6. CASE p \notin DOMAIN notes
    <3>1. p \notin losers /\ p \notin winners
      BY <2>6
    <3> HIDE DEF l1, l2, w1, w2
    <3>2. \A q \in Players : l2[q] = l1[q] /\ w2[q] = w1[q]
      BY <2>3, <3>1
    <3>3. c \in Books(s, gone, l2, w2, known)
      BY <2>4, <3>2, BooksAgree
    <3> QED BY <2>1, <2>6, <3>3 DEF Follow, l2, w2
  <2> QED BY <2>5, <2>6
<1> HIDE DEF B
<1>7. 0 \in 0..Last /\ Last \in 0..Last /\ \A p \in Players : p \in 0..Last /\ p - 1 \in 0..Last
  BY <1>1
<1>8. b \in W[0] /\ \A p \in Players : \A c \in W[p - 1] :
          Follow(Follow(c, s, p, notes), s, p, Nobody) \in W[p]
  BY <1>5, <1>6, <1>7
<1>9. W[Last] = B(Last)
  BY <1>7
<1> HIDE DEF W
<1>10. EachSeat(b, s, notes, Nobody) \in W[Last]
  BY <1>8, EachSeatKeeps
<1> QED BY <1>9, <1>10 DEF B

\* Those in seats are told of one who left, if more than one is left; the one who is
\* left alone has won.
LEMMA TellOfLeaverKeeps ==
    ASSUME NEW s \in Sessions, NEW gone, NEW lost, NEW won, NEW known,
           NEW b \in Books(s, gone, lost, won, known), NEW seats \in SUBSET Players,
           NEW q \in Players, q \in gone, b.multicast[LeftPlayer] = Fact(OfPlayer(s, q), q),
           NEW left, left <= 1 => seats = {} \/ \E x \in Players : seats = {x},
           NEW losers, losers = IF left <= 1 THEN {} ELSE seats,
           NEW winners, winners = IF left <= 1 THEN seats ELSE {}
    PROVE  TellOfLeaver(b, s, seats, left) \in
               Books(s, gone, More(lost, losers, Last), More(won, winners, Last), known)
<1>1. CASE left <= 1
  <2> DEFINE code == "VICTORY_MESSAGE"
             notes == [p \in seats |-> Say(code)]
  <2>1. (IF seats = {} THEN {} ELSE {Min(seats)}) = seats
    <3>1. ASSUME NEW x \in Players, seats = {x}
          PROVE  Min(seats) = x
      <4>1. x \in Nat
        BY BrokersAssumption
      <4>2. \A y \in {x} : x <= y
        BY <4>1
      <4>3. Min({x}) = x
        BY <4>2, Zenon DEF Min
      <4> QED BY <3>1, <4>3
    <3> QED BY <1>1, <3>1
  <2>2. TellOfLeaver(b, s, seats, left) = Tell(b, s, seats, code)
    BY <1>1, <2>1 DEF TellOfLeaver
  <2>3. Tell(b, s, seats, code) = EachSeat(b, s, notes, Nobody)
    BY DEF Tell
  <2>4. ASSUME NEW p \in Players \cap DOMAIN notes, NEW lostNow, NEW wonNow,
               NEW c \in Books(s, gone, lostNow, wonNow, known)
        PROVE  /\ Obey(c, s, p, notes[p]) = Send(c, s, p, code)
               /\ Text(c, code) \in Seq(Seq(Nat))
               /\ Fine([to |-> OfPlayer(s, p), code |-> code,
                        params |-> Text(c, code)], s, gone)
    <3>1. notes[p] = Say(code) /\ code \in Said /\ code \in Plain
      BY DEF Plain, Said, News
    <3>2. Obey(c, s, p, Say(code)) = Send(c, s, p, code)
      BY <3>1, ObeySays
    <3> QED BY <3>1, <3>2, PlainFine
  <2>5. /\ losers = IF code = "LOST_ALIVE_PLAYER" THEN DOMAIN notes ELSE {}
        /\ winners = IF code = "VICTORY_MESSAGE" THEN DOMAIN notes ELSE {}
    BY <1>1
  <2> HIDE DEF notes
  <2>6. EachSeat(b, s, notes, Nobody) \in
            Books(s, gone, More(lost, losers, Last), More(won, winners, Last), known)
    BY <2>4, <2>5, TellCounts
  <2> QED BY <2>2, <2>3, <2>6
<1>2. CASE ~(left <= 1)
  <2> DEFINE code == "LOST_ALIVE_PLAYER"
             fact == b.multicast[LeftPlayer]
             notes == [p \in seats |-> Note(Leaver, fact, code)]
             params == <<OfSession(s), OfPlayer(s, q)>>
  <2>1. TellOfLeaver(b, s, seats, left) = EachSeat(b, s, notes, Nobody)
    BY <1>2 DEF TellOfLeaver
  <2>2. Leaver \in Fields /\ code \in Said
    BY DEF Leaver, Fields, Said, News
  <2>3. fact \in Facts /\ fact # None /\ fact.of = OfPlayer(s, q)
    <3>1. q \in Int /\ OfPlayer(s, q) # Everybody
      BY FactType, 0 \in Int
    <3>2. fact \in Facts
      BY <3>1, FactType
    <3> QED BY <3>1, <3>2 DEF Fact, None
  <2>4. params \in Seq(Seq(Nat)) /\ Len(params) >= 2
    BY FactType, 0 \in Int
  <2>5. params \in {<<OfSession(s), OfPlayer(s, r)>> : r \in gone}
    OBVIOUS
  <2>6. code # "PLAYER_BANKROT" /\ code \notin WithoutSession
    BY DEF WithoutSession
  <2> HIDE DEF fact
  <2>7. ASSUME NEW p \in Players \cap DOMAIN notes, NEW lostNow, NEW wonNow,
               NEW c \in Books(s, gone, lostNow, wonNow, known)
        PROVE  \E d \in Books(s, gone, lostNow, wonNow, known) :
                   /\ Obey(c, s, p, notes[p]) = Send(d, s, p, code)
                   /\ Text(d, code) \in Seq(Seq(Nat))
                   /\ Fine([to |-> OfPlayer(s, p), code |-> code,
                            params |-> Text(d, code)], s, gone)
    <3> DEFINE d == Give(c, "messages", Leaver, fact)
    <3>1. notes[p] = Note(Leaver, fact, code)
      OBVIOUS
    <3>2. Obey(c, s, p, Note(Leaver, fact, code)) = Send(d, s, p, code)
      BY <2>2, ObeyPutsAndSays
    <3>3. d = Give(c, "messages", Leaver, fact)
      OBVIOUS
    <3> HIDE DEF d, notes
    <3>4. /\ d \in Books(s, gone, lostNow, wonNow, known)
          /\ d.messages[Leaver] = fact /\ SessionOf(d) = s
      BY <2>2, <2>3, <3>3, PutKeeps
    <3>5. Text(d, code) = params
      BY <2>3, <3>4, TextIs DEF LostAlivePlayerMessage, Whose
    <3> HIDE DEF params
    <3>6. Fits(code, params, OfPlayer(s, p) \in Bots)
      <4>1. (OfPlayer(s, p) \in Bots) \in BOOLEAN
        OBVIOUS
      <4> QED BY <2>4, <4>1, FitsWhen
    <3>7. Fine([to |-> OfPlayer(s, p), code |-> code, params |-> params], s, gone)
      BY <2>5, <2>6, <3>6 DEF Fine, OwnOf
    <3> QED BY <2>4, <3>1, <3>2, <3>4, <3>5, <3>7
  <2>8. /\ losers = IF code = "LOST_ALIVE_PLAYER" THEN DOMAIN notes ELSE {}
        /\ winners = IF code = "VICTORY_MESSAGE" THEN DOMAIN notes ELSE {}
    BY <1>2
  <2> HIDE DEF notes
  <2>9. EachSeat(b, s, notes, Nobody) \in
            Books(s, gone, More(lost, losers, Last), More(won, winners, Last), known)
    BY <2>7, <2>8, TellCounts
  <2> QED BY <2>1, <2>9
<1> QED BY <1>1, <1>2

LEMMA LeftIsKeeps ==
    ASSUME NEW s \in Sessions, NEW gone, NEW lost, NEW won, NEW known,
           NEW b \in Books(s, gone, lost, won, known), NEW p \in Players
    PROVE  /\ LeftIs(b, s, p) \in Books(s, gone, lost, won, known)
           /\ LeftIs(b, s, p).multicast[LeftPlayer] = Fact(OfPlayer(s, p), p)
<1> DEFINE fact == Fact(OfPlayer(s, p), p)
           c == LeftIs(b, s, p)
<1>1. fact \in Facts
  <2>1. p \in Int
    BY FactType, 0 \in Int
  <2> QED BY <2>1, FactType
<1>2. b \in BrokerType
  BY DEF Books
<1>3. c = [b EXCEPT !.multicast = [b.multicast EXCEPT ![LeftPlayer] = fact]]
  BY DEF LeftIs
<1> HIDE DEF c, fact
<1>4. [b.multicast EXCEPT ![LeftPlayer] = fact] \in [1..3 -> Facts]
      /\ [b.multicast EXCEPT ![LeftPlayer] = fact][LeftPlayer] = fact
  BY <1>1, <1>2 DEF BrokerType, LeftPlayer
<1>5. /\ c \in BrokerType /\ c.tokens = b.tokens /\ c.told = b.told
      /\ c.messages = b.messages /\ c.multicast[LeftPlayer] = fact
  BY <1>2, <1>3, <1>4 DEF BrokerType
<1>6. c \in Books(s, gone, lost, won, known)
  BY <1>5 DEF Books, SessionOf, Sent
<1> QED BY <1>5, <1>6 DEF c, fact

Passed(bankrots, i) == Cardinality({r \in bankrots : r <= i})

LEMMA PassedIs ==
    ASSUME NEW bankrots \in SUBSET Players
    PROVE  /\ IsFiniteSet(bankrots)
           /\ Cardinality(bankrots) \in Nat
           /\ Passed(bankrots, 0) = 0 /\ Passed(bankrots, Last) = Cardinality(bankrots)
           /\ \A p \in Players :
                  /\ Passed(bankrots, p) \in Nat /\ Passed(bankrots, p - 1) \in Nat
                  /\ Passed(bankrots, p) <= Cardinality(bankrots)
                  /\ Passed(bankrots, p) =
                         Passed(bankrots, p - 1) + IF p \in bankrots THEN 1 ELSE 0
<1>1. Last \in Nat /\ \A r \in Players : r \in 1..Last
  BY SeatsCount
<1>2. IsFiniteSet(bankrots) /\ Cardinality(bankrots) \in Nat
  <2>1. IsFiniteSet(1..Last)
    BY <1>1, FS_Interval
  <2>2. bankrots \subseteq 1..Last
    BY <1>1
  <2> QED BY <2>1, <2>2, FS_Subset, FS_CardinalityType
<1>3. Passed(bankrots, 0) = 0
  <2>1. {r \in bankrots : r <= 0} = {}
    BY <1>1
  <2> QED BY <2>1, FS_EmptySet DEF Passed
<1>4. Passed(bankrots, Last) = Cardinality(bankrots)
  <2>1. {r \in bankrots : r <= Last} = bankrots
    BY <1>1
  <2> QED BY <2>1 DEF Passed
<1>5. ASSUME NEW p \in Players
      PROVE  /\ Passed(bankrots, p) \in Nat /\ Passed(bankrots, p - 1) \in Nat
             /\ Passed(bankrots, p) <= Cardinality(bankrots)
             /\ Passed(bankrots, p) =
                    Passed(bankrots, p - 1) + IF p \in bankrots THEN 1 ELSE 0
  <2> DEFINE A == {r \in bankrots : r <= p - 1}
             B == {r \in bankrots : r <= p}
  <2>1. A \subseteq bankrots /\ B \subseteq bankrots /\ p \notin A
        /\ B = IF p \in bankrots THEN A \cup {p} ELSE A
    <3>1. p \in 1..Last /\ \A r \in bankrots : r \in 1..Last
      BY <1>1
    <3>2. \A r \in bankrots : r <= p <=> r <= p - 1 \/ r = p
      BY <1>1, <3>1
    <3>3. ~(p <= p - 1)
      BY <1>1, <3>1
    <3> QED BY <3>2, <3>3
  <2>2. Passed(bankrots, p) = Cardinality(B) /\ Passed(bankrots, p - 1) = Cardinality(A)
    BY DEF Passed
  <2> HIDE DEF A, B
  <2>3. /\ IsFiniteSet(A) /\ IsFiniteSet(B) /\ Cardinality(A) \in Nat /\ Cardinality(B) \in Nat
        /\ Cardinality(B) <= Cardinality(bankrots)
    BY <1>2, <2>1, FS_Subset, FS_CardinalityType
  <2>4. CASE p \in bankrots
    <3>1. Cardinality(A \cup {p}) = Cardinality(A) + 1
      BY <2>1, <2>3, FS_AddElement
    <3> QED BY <2>1, <2>2, <2>3, <2>4, <3>1
  <2>5. CASE p \notin bankrots
    BY <2>1, <2>2, <2>3, <2>5
  <2> QED BY <2>4, <2>5
<1> QED BY <1>2, <1>3, <1>4, <1>5

\* What those in seats have been told when n of the bankrupts have quit, of count who
\* were alive.
WonSoFar(count, n) == IF n > 0 /\ count - n = 1 THEN 1 ELSE 0
Losses(seats, count, n) ==
    [q \in Players |-> IF q \in seats THEN n - WonSoFar(count, n) ELSE 0]
Wins(seats, count, n) ==
    [q \in Players |-> IF q \in seats THEN WonSoFar(count, n) ELSE 0]

\* One more has left: of count who were alive n have.
LEMMA OneMoreQuits ==
    ASSUME NEW s \in Sessions, NEW gone, NEW known, NEW seats \in SUBSET Players,
           NEW count \in Nat, NEW n \in Nat, n > 0, Cardinality(seats) + n <= count,
           NEW b \in Books(s, gone, Losses(seats, count, n - 1), Wins(seats, count, n - 1), known),
           NEW q \in Players, q \in gone, b.multicast[LeftPlayer] = Fact(OfPlayer(s, q), q)
    PROVE  TellOfLeaver(b, s, seats, count - n) \in
               Books(s, gone, Losses(seats, count, n), Wins(seats, count, n), known)
<1> DEFINE left == count - n
           losers == IF left <= 1 THEN {} ELSE seats
           winners == IF left <= 1 THEN seats ELSE {}
           l1 == Losses(seats, count, n - 1)
           w1 == Wins(seats, count, n - 1)
           l2 == More(l1, losers, Last)
           w2 == More(w1, winners, Last)
<1>1. /\ IsFiniteSet(seats) /\ Cardinality(seats) \in Nat
  BY PassedIs
<1>2. /\ Cardinality(seats) <= left
      /\ left <= 1 => Cardinality(seats) = 0 \/ Cardinality(seats) = 1
  BY <1>1
<1>3. Cardinality(seats) = 1 => \E x \in Players : seats = {x}
  BY <1>1, FS_Singleton
<1>4. left <= 1 => seats = {} \/ \E x \in Players : seats = {x}
  BY <1>1, <1>2, <1>3, FS_EmptySet
<1>5. seats # {} => left >= 1
  BY <1>1, <1>2, FS_EmptySet
<1> HIDE DEF l1, w1
<1>6. TellOfLeaver(b, s, seats, left) \in Books(s, gone, l2, w2, known)
  <2> HIDE DEF left
  <2> QED BY <1>4, TellOfLeaverKeeps DEF l1, w1
<1>7. ASSUME NEW r \in Players
      PROVE  Losses(seats, count, n)[r] = l2[r] /\ Wins(seats, count, n)[r] = w2[r]
  <2>1. r <= Last
    BY SeatsCount
  <2>2. /\ l2[r] = l1[r] + IF r \in losers /\ r <= Last THEN 1 ELSE 0
        /\ w2[r] = w1[r] + IF r \in winners /\ r <= Last THEN 1 ELSE 0
    BY DEF More
  <2>3. /\ l1[r] = IF r \in seats THEN n - 1 - WonSoFar(count, n - 1) ELSE 0
        /\ w1[r] = IF r \in seats THEN WonSoFar(count, n - 1) ELSE 0
        /\ Losses(seats, count, n)[r] = IF r \in seats THEN n - WonSoFar(count, n) ELSE 0
        /\ Wins(seats, count, n)[r] = IF r \in seats THEN WonSoFar(count, n) ELSE 0
    BY DEF l1, w1, Losses, Wins
  <2>4. left >= 1 => /\ WonSoFar(count, n - 1) = 0
                     /\ WonSoFar(count, n) = IF left <= 1 THEN 1 ELSE 0
    BY DEF WonSoFar
  <2> HIDE DEF l2, w2
  <2>5. CASE r \notin seats
    BY <2>2, <2>3, <2>5
  <2>6. CASE r \in seats
    <3>1. left >= 1
      BY <1>5, <2>6
    <3> QED BY <2>1, <2>2, <2>3, <2>4, <2>6, <3>1
  <2> QED BY <2>5, <2>6
<1> HIDE DEF l2, w2
<1> QED BY <1>6, <1>7, BooksAgree

LEMMA QuitBankrotPlayersKeeps ==
    ASSUME NEW s \in Sessions, NEW gone, NEW known,
           NEW seats \in SUBSET Players, NEW bankrots \in SUBSET Players, bankrots \subseteq gone,
           NEW count \in Nat, Cardinality(seats) + Cardinality(bankrots) <= count,
           NEW b \in Books(s, gone, Losses(seats, count, 0), Wins(seats, count, 0), known)
    PROVE  QuitBankrotPlayers(b, s, seats, bankrots, count) \in
               Books(s, gone, Losses(seats, count, Cardinality(bankrots)),
                     Wins(seats, count, Cardinality(bankrots)), known)
<1> DEFINE B(n) == Books(s, gone, Losses(seats, count, n), Wins(seats, count, n), known)
           W == [i \in 0..Last |-> B(Passed(bankrots, i))]
           left == [p \in bankrots |-> count - Cardinality({q \in bankrots : q <= p})]
<1>1. Last \in Nat /\ Players = 1..Last
  BY SeatsCount
<1>2. /\ IsFiniteSet(bankrots) /\ Cardinality(bankrots) \in Nat
      /\ Passed(bankrots, 0) = 0 /\ Passed(bankrots, Last) = Cardinality(bankrots)
      /\ \A p \in Players :
             /\ Passed(bankrots, p) \in Nat /\ Passed(bankrots, p - 1) \in Nat
             /\ Passed(bankrots, p) <= Cardinality(bankrots)
             /\ Passed(bankrots, p) =
                    Passed(bankrots, p - 1) + IF p \in bankrots THEN 1 ELSE 0
  BY PassedIs
<1>3. DOMAIN left = bankrots /\ \A p \in bankrots : left[p] = count - Passed(bankrots, p)
  BY DEF Passed
<1> HIDE DEF left, B
<1>4. ASSUME NEW p \in Players, NEW c \in B(Passed(bankrots, p - 1))
      PROVE  Quits(c, s, p, seats, left) \in B(Passed(bankrots, p))
  <2> DEFINE n == Passed(bankrots, p)
             m == Passed(bankrots, p - 1)
             d == LeftIs(c, s, p)
  <2>1. CASE p \in bankrots
    <3>1. n \in Nat /\ n > 0 /\ m = n - 1 /\ n <= Cardinality(bankrots)
      BY <1>2, <2>1
    <3>2. Cardinality(seats) \in Nat
      BY PassedIs
    <3>3. Cardinality(seats) + n <= count
      BY <1>2, <3>1, <3>2
    <3>4. d \in B(m) /\ d.multicast[LeftPlayer] = Fact(OfPlayer(s, p), p)
      BY LeftIsKeeps DEF B
    <3>5. Quits(c, s, p, seats, left) = TellOfLeaver(d, s, seats, count - n)
      BY <1>3, <2>1 DEF Quits
    <3>6. p \in gone
      BY <2>1
    <3> HIDE DEF n, m, d
    <3>7. d \in Books(s, gone, Losses(seats, count, n - 1), Wins(seats, count, n - 1), known)
      BY <3>1, <3>4 DEF B
    <3>8. TellOfLeaver(d, s, seats, count - n) \in B(n)
      BY <3>1, <3>3, <3>4, <3>6, <3>7, OneMoreQuits DEF B
    <3> QED BY <3>5, <3>8 DEF n
  <2>2. CASE p \notin bankrots
    <3>1. n = m
      BY <1>2, <2>2
    <3>2. Quits(c, s, p, seats, left) = c
      BY <1>3, <2>2 DEF Quits
    <3> QED BY <3>1, <3>2
  <2> QED BY <2>1, <2>2
<1>5. 0 \in 0..Last /\ Last \in 0..Last /\ \A p \in Players : p \in 0..Last /\ p - 1 \in 0..Last
  BY <1>1
<1>6. b \in W[0]
  BY <1>2, <1>5 DEF B
<1>7. \A p \in Players : \A c \in W[p - 1] : Quits(c, s, p, seats, left) \in W[p]
  BY <1>4, <1>5
<1>8. W[Last] = B(Cardinality(bankrots))
  BY <1>2, <1>5
<1> HIDE DEF W
<1>9. QuitEach(b, s, seats, left) \in W[Last]
  BY <1>6, <1>7, QuitEachKeeps
<1> QED BY <1>8, <1>9 DEF B, QuitBankrotPlayers, left

-----------------------------------------------------------------------------
(* How a step begins.                                                      *)

Zeros == [q \in Players |-> 0]

\* All but the session that a step works for.
Tales(s, gone, lost, won, known) ==
    {b \in BrokerType :
        /\ known => SessionOf(b) \in Sessions
        /\ \A i \in DOMAIN b.told : Fine(b.told[i], s, gone)
        /\ \A p \in Players : /\ Sent(b, s, p, "LOST_ALIVE_PLAYER") = lost[p]
                              /\ Sent(b, s, p, "VICTORY_MESSAGE") = won[p]}

LEMMA BooksAreTales ==
    ASSUME NEW s, NEW gone, NEW lost, NEW won, NEW known,
           NEW b \in Books(s, gone, lost, won, known)
    PROVE  b \in Tales(s, gone, lost, won, known)
BY DEF Books, Tales

LEMMA TalesAreBooks ==
    ASSUME NEW s, NEW gone, NEW lost, NEW won, NEW known,
           NEW b \in Tales(s, gone, lost, won, known), NEW c \in BrokerType,
           c.told = b.told, c.messages = b.messages,
           c.tokens[Session] = Fact(OfSession(s), s)
    PROVE  c \in Books(s, gone, lost, won, known)
BY DEF Books, Tales, SessionOf, Sent

LEMMA SilenceIsATale ==
    ASSUME NEW b \in BrokerType, b.told = <<>>, NEW s \in Sessions, NEW gone, NEW known,
           known => SessionOf(b) \in Sessions
    PROVE  b \in Tales(s, gone, Zeros, Zeros, known)
<1>1. DOMAIN b.told = {}
  OBVIOUS
<1>2. ASSUME NEW p \in Players, NEW code
      PROVE  Sent(b, s, p, code) = 0
  <2>1. {i \in DOMAIN b.told : b.told[i].code = code /\ b.told[i].to = OfPlayer(s, p)} = {}
    BY <1>1
  <2> QED BY <2>1, FS_EmptySet DEF Sent
<1>3. \A p \in Players : Zeros[p] = 0
  BY DEF Zeros
<1> QED BY <1>1, <1>2, <1>3 DEF Tales

LEMMA ForSessionKeeps ==
    ASSUME NEW s \in Sessions, NEW gone, NEW lost, NEW won, NEW known,
           NEW b \in Tales(s, gone, lost, won, known)
    PROVE  ForSession(b, s) \in Books(s, gone, lost, won, known)
<1> DEFINE fact == Fact(OfSession(s), s)
           c == ForSession(b, s)
<1>1. b \in BrokerType /\ fact \in Facts /\ 1 \in 1..3
  <2>1. s \in Nat /\ OfSession(s) \in Seq(Nat)
    BY BrokersAssumption DEF OfSession
  <2> QED BY <2>1 DEF Fact, Facts, Tales
<1>2. c = Give(b, "multicast", 1, fact)
  BY DEF ForSession, Session
<1> HIDE DEF c, fact
<1>3. /\ c \in BrokerType /\ c.told = b.told /\ c.messages = b.messages
      /\ c.tokens = [b.tokens EXCEPT ![1] = fact]
  BY <1>1, <1>2, GiveMulticast
<1>4. c.tokens[Session] = Fact(OfSession(s), s)
  BY <1>1, <1>3 DEF BrokerType, Session, fact
<1>5. c \in Books(s, gone, lost, won, known)
  BY <1>3, <1>4, TalesAreBooks
<1> QED BY <1>5 DEF c

LEMMA EventKeeps ==
    ASSUME NEW s \in Sessions, NEW gone, NEW lost, NEW won, NEW known,
           NEW b \in Tales(s, gone, lost, won, known)
    PROVE  Event(b, s) \in Books(s, gone, lost, won, known)
<1> DEFINE fact == Fact(OfSession(s), s)
           c == Give(b, "events", Session, fact)
<1>1. b \in BrokerType /\ fact \in Facts
  <2>1. s \in Nat /\ OfSession(s) \in Seq(Nat)
    BY BrokersAssumption DEF OfSession
  <2> QED BY <2>1 DEF Fact, Facts, Tales
<1>2. c = Give(b, "events", Session, fact)
  OBVIOUS
<1> HIDE DEF c
<1>3. c \in BrokerType /\ c.told = b.told /\ c.messages = b.messages
  BY <1>1, <1>2, GiveEvents
<1>4. c \in Tales(s, gone, lost, won, known)
  BY <1>3 DEF Tales, SessionOf, Sent
<1>5. ForSession(c, s) \in Books(s, gone, lost, won, known)
  BY <1>4, ForSessionKeeps
<1> QED BY <1>5 DEF Event, c

LEMMA StartAuctionKeeps ==
    ASSUME NEW s \in Sessions, NEW gone, NEW lost, NEW won, NEW known,
           NEW b \in Books(s, gone, lost, won, known), NEW kind \in Int
    PROVE  StartAuction(b, kind) \in Books(s, gone, lost, won, known)
<1> DEFINE fact == Fact(Everybody, kind)
           c == StartAuction(b, kind)
<1>1. b \in BrokerType /\ fact \in Facts /\ 2 \in 1..3
  <2>1. Everybody \in Seq(Nat)
    BY DEF Everybody
  <2> QED BY <2>1 DEF Fact, Facts, Books
<1>2. c = Give(b, "multicast", 2, fact)
  BY DEF StartAuction, AuctionType
<1> HIDE DEF c, fact
<1>3. /\ c \in BrokerType /\ c.told = b.told /\ c.messages = b.messages
      /\ c.tokens = [b.tokens EXCEPT ![2] = fact]
  BY <1>1, <1>2, GiveMulticast
<1>4. c.tokens[Session] = Fact(OfSession(s), s)
  BY <1>1, <1>3 DEF BrokerType, Session, Books
<1>5. b \in Tales(s, gone, lost, won, known)
  BY BooksAreTales
<1>6. c \in Books(s, gone, lost, won, known)
  BY <1>3, <1>4, <1>5, TalesAreBooks
<1> QED BY <1>6 DEF c

\* A player's leaving is put at once, session and player.
Leaving(b, s, p) ==
    PutMessage(Write(Write(b, Session, Fact(OfSession(s), s)),
                     LeftPlayer, Fact(OfPlayer(s, p), p)), "multicast", LeftPlayer)

LEMMA LeavingKeeps ==
    ASSUME NEW s \in Sessions, NEW gone, NEW lost, NEW won, NEW known,
           NEW b \in Tales(s, gone, lost, won, known), NEW p \in Players
    PROVE  /\ Leaving(b, s, p) \in Books(s, gone, lost, won, known)
           /\ Leaving(b, s, p).multicast[LeftPlayer] = Fact(OfPlayer(s, p), p)
           /\ Leaving(b, s, p).told = b.told /\ Leaving(b, s, p).messages = b.messages
<1> DEFINE first == Fact(OfSession(s), s)
           second == Fact(OfPlayer(s, p), p)
           a == Write(b, Session, first)
           c == Leaving(b, s, p)
<1>1. b \in BrokerType /\ first \in Facts /\ second \in Facts /\ second # None /\ 3 \in 1..3
  <2>1. s \in Nat /\ p \in Nat /\ OfSession(s) \in Seq(Nat) /\ OfPlayer(s, p) \in Seq(Nat)
        /\ OfPlayer(s, p) # Everybody
    BY BrokersAssumption DEF OfSession, OfPlayer, Everybody
  <2> QED BY <2>1 DEF Fact, Facts, Tales, None
<1>2. a = [b EXCEPT !.tokens[1] = first]
  BY DEF Write, Session
<1>3. c = Give(a, "multicast", 3, second)
  BY DEF Leaving, Give, LeftPlayer
<1> HIDE DEF first, second, a, c
<1>4. /\ a \in BrokerType /\ a.told = b.told /\ a.messages = b.messages
      /\ a.tokens[1] = first
  BY <1>1, <1>2 DEF BrokerType
<1>5. /\ c \in BrokerType /\ c.told = a.told /\ c.messages = a.messages
      /\ c.tokens = [a.tokens EXCEPT ![3] = second]
      /\ \A i \in 1..3 : c.multicast[i] = IF i <= 3 /\ c.tokens[i] # None
                                          THEN c.tokens[i] ELSE a.multicast[i]
  BY <1>1, <1>3, <1>4, GiveMulticast
<1>6. c.tokens[1] = first /\ c.tokens[3] = second
  BY <1>4, <1>5 DEF BrokerType
<1>7. c.multicast[3] = second
  BY <1>1, <1>5, <1>6
<1>8. c \in Books(s, gone, lost, won, known)
  <2>1. c.told = b.told /\ c.messages = b.messages /\ c \in BrokerType
    BY <1>4, <1>5
  <2>2. c.tokens[Session] = Fact(OfSession(s), s)
    BY <1>6 DEF Session, first
  <2> QED BY <2>1, <2>2, TalesAreBooks
<1> QED BY <1>4, <1>5, <1>7, <1>8 DEF c, second, LeftPlayer

-----------------------------------------------------------------------------
(* The invariant: in a session are no more players than it counts, and the *)
(* messages have been given a session before there is a player, or the     *)
(* server has ended.                                                       *)

BrokersType ==
    /\ up \in BOOLEAN /\ at \in Nat
    /\ taken \in [Sessions -> SUBSET Players]
    /\ lobby \in [Sessions -> 0..Last] /\ alive \in [Sessions -> 0..Last]
    /\ started \in [Sessions -> BOOLEAN]
    /\ timer \in [Sessions -> {"idle", "running", "alarmed"}]
    /\ broker \in BrokerType

Counted(s) == IF started[s] THEN alive[s] ELSE lobby[s]
Seated == \A s \in Sessions : Cardinality(taken[s]) <= Counted(s)

Knows == SessionOf(broker) \in Sessions
Introduced == up /\ (\E s \in Sessions : taken[s] # {}) => Knows
Over == up \/ at = 0

BInv == BrokersType /\ Seated /\ Introduced /\ Over

\* What a step of session s tells, and to how many leavers it comes.
Tallied(s, lost, won) ==
    started[s] => \A p \in Players :
        IF p \in taken'[s]
        THEN /\ lost[p] + won[p] = Cardinality(Leavers(s))
             /\ won[p] = IF Leavers(s) # {} /\ alive'[s] = 1 THEN 1 ELSE 0
        ELSE lost[p] + won[p] = 0

Outcome(s, lost, won) ==
    /\ broker' \in Tales(s, Leavers(s), lost, won, Knows)
    /\ Tallied(s, lost, won)
    /\ \A t \in Sessions \ {s} : Leavers(t) = {}

LEMMA FreshIsATale ==
    ASSUME BInv, NEW s \in Sessions, NEW gone
    PROVE  fresh \in Tales(s, gone, Zeros, Zeros, Knows)
<1>1. fresh \in BrokerType /\ fresh.told = <<>> /\ fresh.messages = broker.messages
  <2>1. broker \in BrokerType /\ <<>> \in Seq(SentType)
    BY DEF BInv, BrokersType
  <2> QED BY <2>1 DEF fresh, BrokerType
<1>2. Knows => SessionOf(fresh) \in Sessions
  BY <1>1 DEF Knows, SessionOf
<1>3. Knows \in BOOLEAN
  BY DEF Knows
<1> HIDE DEF Knows, fresh
<1> QED BY <1>1, <1>2, SilenceIsATale

LEMMA SeatsAreFew ==
    ASSUME BInv, NEW s \in Sessions
    PROVE  /\ taken[s] \in SUBSET Players
           /\ IsFiniteSet(taken[s]) /\ Cardinality(taken[s]) \in Nat
           /\ Cardinality(taken[s]) <= Counted(s)
           /\ alive[s] \in 0..Last /\ lobby[s] \in 0..Last /\ started[s] \in BOOLEAN
<1>1. /\ taken[s] \in SUBSET Players /\ Cardinality(taken[s]) <= Counted(s)
      /\ alive[s] \in 0..Last /\ lobby[s] \in 0..Last /\ started[s] \in BOOLEAN
  BY DEF BInv, BrokersType, Seated
<1> QED BY <1>1, PassedIs

\* A step in which no seat is taken and the server goes on.
LEMMA GoesOn ==
    ASSUME BInv, NEW s, NEW gone, NEW lost, NEW won,
           broker' \in Tales(s, gone, lost, won, Knows),
           up, up' = up, \A t \in Sessions : taken'[t] \subseteq taken[t]
    PROVE  broker' \in BrokerType /\ Introduced' /\ Over'
<1>1. broker' \in BrokerType /\ (Knows => SessionOf(broker)' \in Sessions)
  BY DEF Tales, SessionOf
<1>2. up' /\ (\E t \in Sessions : taken'[t] # {}) => Knows
  BY DEF BInv, Introduced
<1> QED BY <1>1, <1>2 DEF Introduced, Over, Knows

\* One in which nobody leaves a game.
LEMMA NobodyLeft ==
    ASSUME NEW s \in Sessions, broker' \in Tales(s, Leavers(s), Zeros, Zeros, Knows),
           started[s] => Leavers(s) = {}, \A t \in Sessions \ {s} : Leavers(t) = {}
    PROVE  Outcome(s, Zeros, Zeros)
<1>1. Cardinality({}) = 0
  BY FS_EmptySet
<1>2. \A p \in Players : Zeros[p] = 0
  BY DEF Zeros
<1> HIDE DEF Zeros
<1>3. Tallied(s, Zeros, Zeros)
  BY <1>1, <1>2 DEF Tallied
<1> QED BY <1>3 DEF Outcome

LEMMA FirstFree ==
    ASSUME NEW seats \in SUBSET Players, seats # Players
    PROVE  Min(Players \ seats) \in Players \ seats
<1> DEFINE T == Players \ seats
<1>1. T \in SUBSET Nat /\ T # {}
  <2>1. \A x \in Players : x \in Nat
    BY BrokersAssumption
  <2> QED BY <2>1
<1> HIDE DEF T
<1>2. \E x \in T : \A y \in T : x <= y
  BY <1>1, Least
<1>3. Min(T) \in T
  BY <1>2, Zenon DEF Min
<1> QED BY <1>3 DEF T

LEMMA NewClientStep ==
    ASSUME BInv, NEW s \in Sessions, NewClient(s)
    PROVE  BInv' /\ Outcome(s, Zeros, Zeros)
<1> DEFINE p == Min(Players \ taken[s])
<1>1. /\ up /\ at = 0 /\ ~started[s] /\ taken[s] # Players /\ lobby[s] < Last
      /\ taken' = [taken EXCEPT ![s] = @ \cup {p}]
      /\ lobby' = [lobby EXCEPT ![s] = @ + 1]
      /\ UNCHANGED <<alive, started, timer>>
  BY DEF NewClient, Listening, FirstOpen, OpenTo, Last
<1>2. /\ taken[s] \in SUBSET Players /\ IsFiniteSet(taken[s])
      /\ Cardinality(taken[s]) \in Nat /\ Cardinality(taken[s]) <= lobby[s]
      /\ lobby[s] \in 0..Last
  BY <1>1, SeatsAreFew DEF Counted
<1>3. p \in Players /\ p \notin taken[s]
  BY <1>1, <1>2, FirstFree
<1> HIDE DEF p
<1>4. Cardinality(taken[s] \cup {p}) = Cardinality(taken[s]) + 1
  BY <1>2, <1>3, FS_AddElement
<1>5. /\ taken' \in [Sessions -> SUBSET Players] /\ lobby' \in [Sessions -> 0..Last]
      /\ taken'[s] = taken[s] \cup {p} /\ lobby'[s] = lobby[s] + 1
      /\ \A t \in Sessions \ {s} : taken'[t] = taken[t] /\ lobby'[t] = lobby[t]
  <2>1. lobby[s] + 1 \in 0..Last
    BY <1>1, <1>2, SeatsCount
  <2> QED BY <1>1, <1>2, <1>3, <2>1 DEF BInv, BrokersType
<1>6. Seated'
  <2> SUFFICES ASSUME NEW t \in Sessions
               PROVE  Cardinality(taken'[t]) <= Counted(t)'
    BY DEF Seated
  <2>1. CASE t = s
    BY <1>1, <1>2, <1>4, <1>5, <2>1 DEF Counted
  <2>2. CASE t # s
    BY <1>1, <1>5, <2>2 DEF BInv, Seated, Counted
  <2> QED BY <2>1, <2>2
<1>7. \A t \in Sessions : Leavers(t) = {}
  BY <1>5 DEF Leavers
<1>8. fresh \in Tales(s, Leavers(s), Zeros, Zeros, Knows)
  BY FreshIsATale
<1>9. ForSession(fresh, s) \in Books(s, Leavers(s), Zeros, Zeros, Knows)
  BY <1>8, ForSessionKeeps
<1>10. /\ broker' \in Tales(s, Leavers(s), Zeros, Zeros, Knows)
       /\ up' \in BOOLEAN /\ at' \in Nat
       /\ Knows => up'
       /\ ~Knows => ~up' /\ at' = 0
  <2>1. CASE Knows
    <3>1. /\ broker' = SendNewPlayerConnect(ForSession(fresh, s), s, taken'[s])
          /\ up' = up /\ at' \in {0, 1}
      BY <2>1 DEF NewClient, Heard, Knows
    <3>2. Knows \in BOOLEAN
      BY DEF Knows
    <3>3. broker' \in Books(s, Leavers(s), Zeros, Zeros, Knows)
      BY <1>9, <2>1, <3>1, <3>2, SendNewPlayerConnectKeeps
    <3>4. broker' \in Tales(s, Leavers(s), Zeros, Zeros, Knows)
      BY <3>3, BooksAreTales
    <3>5. up' \in BOOLEAN /\ up'
      BY <1>1, <3>1 DEF BInv, BrokersType
    <3>6. at' \in Nat
      BY <3>1
    <3> QED BY <2>1, <3>4, <3>5, <3>6
  <2>2. CASE ~Knows
    <3>1. broker' = ForSession(fresh, s) /\ up' = FALSE /\ at' = at
      BY <2>2 DEF NewClient, Knows
    <3>2. broker' \in Tales(s, Leavers(s), Zeros, Zeros, Knows)
      BY <1>9, <3>1, BooksAreTales
    <3>3. up' \in BOOLEAN /\ ~up'
      BY <3>1
    <3>4. at' = 0 /\ at' \in Nat
      BY <1>1, <3>1
    <3> QED BY <2>2, <3>2, <3>3, <3>4
  <2> QED BY <2>1, <2>2
<1>11. broker' \in BrokerType /\ Introduced' /\ Over'
  <2>1. broker' \in BrokerType /\ (Knows => SessionOf(broker)' \in Sessions)
    BY <1>10 DEF Tales, SessionOf
  <2> QED BY <1>10, <2>1 DEF Introduced, Over, Knows
<1>12. Outcome(s, Zeros, Zeros)
  BY <1>7, <1>10, NobodyLeft
<1> QED BY <1>1, <1>5, <1>6, <1>10, <1>11, <1>12 DEF BInv, BrokersType

\* A player who leaves makes his session's seats fewer.
LEMMA OneLeaves ==
    ASSUME BInv, NEW s \in Sessions, NEW p \in taken[s],
           taken' = [taken EXCEPT ![s] = @ \ {p}]
    PROVE  /\ p \in Players /\ taken' \in [Sessions -> SUBSET Players]
           /\ taken'[s] = taken[s] \ {p} /\ Leavers(s) = {p}
           /\ \A t \in Sessions \ {s} : taken'[t] = taken[t] /\ Leavers(t) = {}
           /\ \A t \in Sessions : taken'[t] \subseteq taken[t]
           /\ Cardinality(taken'[s]) = Cardinality(taken[s]) - 1
           /\ Cardinality(taken[s]) \in Nat /\ Cardinality(taken'[s]) \in Nat
<1>1. /\ taken[s] \in SUBSET Players /\ IsFiniteSet(taken[s])
      /\ Cardinality(taken[s]) \in Nat
  BY SeatsAreFew
<1>2. /\ p \in Players /\ taken' \in [Sessions -> SUBSET Players]
      /\ taken'[s] = taken[s] \ {p} /\ Leavers(s) = {p}
      /\ \A t \in Sessions \ {s} : taken'[t] = taken[t] /\ Leavers(t) = {}
      /\ \A t \in Sessions : taken'[t] \subseteq taken[t]
  BY <1>1 DEF BInv, BrokersType, Leavers
<1>3. Cardinality(taken[s] \ {p}) = Cardinality(taken[s]) - 1
  BY <1>1, FS_RemoveElement
<1>4. Cardinality(taken'[s]) \in Nat
  <2>1. taken'[s] \in SUBSET Players
    BY <1>2
  <2> QED BY <2>1, PassedIs
<1> QED BY <1>1, <1>2, <1>3, <1>4

LEMMA LeaveLobbyStep ==
    ASSUME BInv, NEW s \in Sessions, NEW p \in Players, LeaveLobby(s, p)
    PROVE  BInv' /\ Outcome(s, Zeros, Zeros)
<1>1. /\ up /\ ~started[s] /\ p \in taken[s] /\ taken' = [taken EXCEPT ![s] = @ \ {p}]
      /\ at' \in {0, 1} /\ UNCHANGED <<up, lobby, alive, started, timer>>
      /\ broker' = Leaving(fresh, s, p)
  BY DEF LeaveLobby, Listening, Heard, Leaving
<1>2. /\ taken' \in [Sessions -> SUBSET Players]
      /\ \A t \in Sessions \ {s} : taken'[t] = taken[t] /\ Leavers(t) = {}
      /\ \A t \in Sessions : taken'[t] \subseteq taken[t]
      /\ Cardinality(taken'[s]) = Cardinality(taken[s]) - 1
      /\ Cardinality(taken[s]) \in Nat
  BY <1>1, OneLeaves
<1>3. broker' \in Tales(s, Leavers(s), Zeros, Zeros, Knows)
  <2>1. fresh \in Tales(s, Leavers(s), Zeros, Zeros, Knows)
    BY FreshIsATale
  <2>2. Leaving(fresh, s, p) \in Books(s, Leavers(s), Zeros, Zeros, Knows)
    BY <2>1, LeavingKeeps
  <2> QED BY <1>1, <2>2, BooksAreTales
<1>4. Seated'
  <2> SUFFICES ASSUME NEW t \in Sessions
               PROVE  Cardinality(taken'[t]) <= Counted(t)'
    BY DEF Seated
  <2>1. Counted(t)' = Counted(t) /\ Cardinality(taken[t]) <= Counted(t) /\ Counted(t) \in Nat
    BY <1>1, SeatsAreFew, SeatsCount DEF Counted
  <2> QED BY <1>2, <2>1
<1>5. broker' \in BrokerType /\ Introduced' /\ Over'
  BY <1>1, <1>2, <1>3, GoesOn
<1>6. Outcome(s, Zeros, Zeros)
  BY <1>1, <1>2, <1>3, NobodyLeft
<1> QED BY <1>1, <1>2, <1>4, <1>5, <1>6 DEF BInv, BrokersType

LEMMA LeaveGameStep ==
    ASSUME BInv, NEW s \in Sessions, NEW p \in Players, LeaveGame(s, p)
    PROVE  BInv' /\ \E lost, won : Outcome(s, lost, won)
<1> DEFINE seats == taken'[s]
           left == alive'[s]
           losers == IF left <= 1 THEN {} ELSE seats
           winners == IF left <= 1 THEN seats ELSE {}
           lost == More(Zeros, losers, Last)
           won == More(Zeros, winners, Last)
           start == Leaving(fresh, s, p)
<1>1. /\ up /\ started[s] /\ p \in taken[s] /\ taken' = [taken EXCEPT ![s] = @ \ {p}]
      /\ alive' = [alive EXCEPT ![s] = @ - 1]
      /\ at' \in {0, 1} /\ UNCHANGED <<up, lobby, started, timer>>
      /\ broker' = TellOfLeaver(start, s, seats, left)
  BY DEF LeaveGame, Listening, Heard, Leaving
<1>2. /\ taken' \in [Sessions -> SUBSET Players]
      /\ Leavers(s) = {p}
      /\ \A t \in Sessions \ {s} : taken'[t] = taken[t] /\ Leavers(t) = {}
      /\ \A t \in Sessions : taken'[t] \subseteq taken[t]
      /\ Cardinality(taken'[s]) = Cardinality(taken[s]) - 1
      /\ Cardinality(taken[s]) \in Nat /\ Cardinality(taken'[s]) \in Nat
  BY <1>1, OneLeaves
<1>3. /\ Cardinality(taken[s]) <= alive[s] /\ alive[s] \in 0..Last
  BY <1>1, SeatsAreFew DEF Counted
<1>4. /\ alive' \in [Sessions -> 0..Last] /\ alive'[s] = alive[s] - 1
      /\ \A t \in Sessions \ {s} : alive'[t] = alive[t]
      /\ Cardinality(taken'[s]) <= alive'[s] /\ alive'[s] \in Nat
  <2>1. alive[s] - 1 \in 0..Last /\ Cardinality(taken'[s]) <= alive[s] - 1
    BY <1>2, <1>3, SeatsCount
  <2> QED BY <1>1, <1>2, <2>1 DEF BInv, BrokersType
<1>5. Seated'
  <2> SUFFICES ASSUME NEW t \in Sessions
               PROVE  Cardinality(taken'[t]) <= Counted(t)'
    BY DEF Seated
  <2>1. CASE t = s
    BY <1>1, <1>4, <2>1 DEF Counted
  <2>2. CASE t # s
    BY <1>1, <1>2, <1>4, <2>2 DEF BInv, Seated, Counted
  <2> QED BY <2>1, <2>2
<1>6. seats \in SUBSET Players /\ IsFiniteSet(seats)
  <2>1. seats \in SUBSET Players
    BY <1>2
  <2> HIDE DEF seats
  <2> QED BY <2>1, PassedIs
<1>7. left <= 1 => seats = {} \/ \E x \in Players : seats = {x}
  <2>1. left <= 1 => Cardinality(seats) = 0 \/ Cardinality(seats) = 1
    BY <1>2, <1>4
  <2>2. Cardinality(seats) = 0 => seats = {}
    BY <1>6, FS_EmptySet
  <2>3. Cardinality(seats) = 1 => \E x : seats = {x}
    BY <1>6, FS_Singleton
  <2> HIDE DEF seats, left
  <2> QED BY <1>6, <2>1, <2>2, <2>3
<1>8. seats # {} => left >= 1
  <2>1. seats # {} => Cardinality(seats) # 0
    BY <1>6, FS_EmptySet
  <2> QED BY <1>2, <1>4, <2>1
<1>9. broker' \in Books(s, Leavers(s), lost, won, Knows)
  <2>1. fresh \in Tales(s, Leavers(s), Zeros, Zeros, Knows)
    BY FreshIsATale
  <2>2. /\ start \in Books(s, Leavers(s), Zeros, Zeros, Knows)
        /\ start.multicast[LeftPlayer] = Fact(OfPlayer(s, p), p)
    BY <2>1, LeavingKeeps
  <2>3. p \in Leavers(s)
    BY <1>2
  <2> HIDE DEF seats, left, start
  <2>4. TellOfLeaver(start, s, seats, left) \in Books(s, Leavers(s), lost, won, Knows)
    BY <1>6, <1>7, <2>2, <2>3, TellOfLeaverKeeps
  <2> QED BY <1>1, <2>4
<1>10. broker' \in Tales(s, Leavers(s), lost, won, Knows)
  BY <1>9, BooksAreTales
<1>11. broker' \in BrokerType /\ Introduced' /\ Over'
  <2> HIDE DEF lost, won
  <2> QED BY <1>1, <1>2, <1>10, GoesOn
<1>12. Tallied(s, lost, won)
  <2> SUFFICES ASSUME NEW q \in Players
               PROVE  IF q \in taken'[s]
                      THEN /\ lost[q] + won[q] = Cardinality(Leavers(s))
                           /\ won[q] = IF Leavers(s) # {} /\ alive'[s] = 1 THEN 1 ELSE 0
                      ELSE lost[q] + won[q] = 0
    BY DEF Tallied
  <2>1. q <= Last
    BY SeatsCount
  <2>2. /\ lost[q] = 0 + IF q \in losers THEN 1 ELSE 0
        /\ won[q] = 0 + IF q \in winners THEN 1 ELSE 0
    BY <2>1 DEF More, Zeros
  <2>3. Cardinality(Leavers(s)) = 1 /\ Leavers(s) # {}
    BY <1>2, FS_Singleton
  <2> HIDE DEF lost, won
  <2>4. CASE q \in seats
    <3>1. left \in Nat /\ left >= 1
      BY <1>4, <1>8, <2>4
    <3>2. lost[q] = (IF left <= 1 THEN 0 ELSE 1) /\ won[q] = IF left <= 1 THEN 1 ELSE 0
      BY <2>2, <2>4
    <3>3. left = alive'[s] /\ q \in taken'[s]
      BY <2>4
    <3> HIDE DEF left, seats
    <3> QED BY <2>3, <3>1, <3>2, <3>3
  <2>5. CASE q \notin seats
    BY <2>2, <2>5
  <2> QED BY <2>4, <2>5
<1>13. Outcome(s, lost, won)
  <2> HIDE DEF lost, won
  <2> QED BY <1>2, <1>10, <1>12 DEF Outcome
<1>14. BInv'
  BY <1>1, <1>2, <1>4, <1>5, <1>11 DEF BInv, BrokersType
<1> HIDE DEF lost, won
<1> QED BY <1>13, <1>14

LEMMA Undisturbed ==
    ASSUME BInv, NEW s \in Sessions, up, UNCHANGED <<up, taken>>,
           broker' \in Tales(s, {}, Zeros, Zeros, Knows), at' \in Nat,
           lobby' \in [Sessions -> 0..Last], alive' \in [Sessions -> 0..Last],
           started' \in [Sessions -> BOOLEAN],
           timer' \in [Sessions -> {"idle", "running", "alarmed"}],
           \A t \in Sessions : Counted(t)' = Counted(t)
    PROVE  BInv' /\ Outcome(s, Zeros, Zeros)
<1>1. \A t \in Sessions : Leavers(t) = {} /\ taken'[t] \subseteq taken[t]
  BY DEF Leavers
<1>2. broker' \in BrokerType /\ Introduced' /\ Over'
  BY <1>1, GoesOn
<1>3. Outcome(s, Zeros, Zeros)
  BY <1>1, NobodyLeft
<1>4. Seated'
  BY DEF BInv, Seated
<1> QED BY <1>2, <1>3, <1>4 DEF BInv, BrokersType

LEMMA TooEarlyStep ==
    ASSUME BInv, NEW s \in Sessions, NEW p \in Players, TooEarly(s, p)
    PROVE  BInv' /\ Outcome(s, Zeros, Zeros)
<1> DEFINE code == "GAME_NOT_STARTED"
           b == ForSession(fresh, s)
<1>1. /\ up /\ at' \in {0, 1} /\ UNCHANGED <<up, taken, lobby, alive, started, timer>>
      /\ broker' = Send(b, s, p, code)
  BY DEF TooEarly, Listening, Heard
<1>2. fresh \in Tales(s, {}, Zeros, Zeros, Knows)
  BY FreshIsATale
<1>3. b \in Books(s, {}, Zeros, Zeros, Knows)
  BY <1>2, ForSessionKeeps
<1> HIDE DEF b
<1>4. code \in Plain /\ code \in Said \ {"LOST_ALIVE_PLAYER", "VICTORY_MESSAGE"}
  BY DEF Plain, Said, News
<1>5. /\ Text(b, code) \in Seq(Seq(Nat))
      /\ Fine([to |-> OfPlayer(s, p), code |-> code, params |-> Text(b, code)], s, {})
  BY <1>4, PlainFine
<1>6. broker' \in Books(s, {}, Zeros, Zeros, Knows)
  BY <1>1, <1>3, <1>4, <1>5, SayKeeps
<1>7. broker' \in Tales(s, {}, Zeros, Zeros, Knows)
  BY <1>6, BooksAreTales
<1>8. \A t \in Sessions : Counted(t)' = Counted(t)
  BY <1>1 DEF Counted
<1> QED BY <1>1, <1>7, <1>8, Undisturbed DEF BInv, BrokersType

LEMMA AlarmStep ==
    ASSUME BInv, NEW s \in Sessions, Alarm(s)
    PROVE  BInv' /\ Outcome(s, Zeros, Zeros)
<1>1. /\ up /\ at' \in {0, 1} /\ UNCHANGED <<up, taken, lobby, alive, started>>
      /\ broker' = fresh /\ timer' = [timer EXCEPT ![s] = "alarmed"]
  BY DEF Alarm, Listening, Heard
<1>2. broker' \in Tales(s, {}, Zeros, Zeros, Knows)
  BY <1>1, FreshIsATale
<1>3. \A t \in Sessions : Counted(t)' = Counted(t)
  BY <1>1 DEF Counted
<1>4. timer' \in [Sessions -> {"idle", "running", "alarmed"}]
  BY <1>1 DEF BInv, BrokersType
<1> QED BY <1>1, <1>2, <1>3, <1>4, Undisturbed DEF BInv, BrokersType

\* The server runs while it handles a session's events.
LEMMA EventsAreOfARunningServer ==
    ASSUME BInv, NEW s \in Sessions, at = s, NextSession
    PROVE  up /\ at' \in Nat
<1>1. s \in Nat /\ s > 0
  BY BrokersAssumption
<1> QED BY <1>1 DEF BInv, BrokersType, Over, NextSession

LEMMA NotAllReadyStep ==
    ASSUME BInv, NEW s \in Sessions, NotAllReady(s)
    PROVE  BInv' /\ Outcome(s, Zeros, Zeros)
<1>1. /\ up /\ at' \in Nat /\ UNCHANGED <<up, taken, lobby, alive, started, timer>>
      /\ broker' = fresh
  BY EventsAreOfARunningServer DEF NotAllReady, Playing
<1>2. broker' \in Tales(s, {}, Zeros, Zeros, Knows)
  BY <1>1, FreshIsATale
<1>3. \A t \in Sessions : Counted(t)' = Counted(t)
  BY <1>1 DEF Counted
<1> QED BY <1>1, <1>2, <1>3, Undisturbed DEF BInv, BrokersType

LEMMA StartTimeKeeps ==
    ASSUME BInv, NEW s \in Sessions
    PROVE  StartTime(fresh, s) \in Tales(s, {}, Zeros, Zeros, Knows)
<1>1. fresh \in Tales(s, {}, Zeros, Zeros, Knows)
  BY FreshIsATale
<1>2. Event(fresh, s) \in Books(s, {}, Zeros, Zeros, Knows)
  BY <1>1, EventKeeps
<1>3. SendStartTime(Event(fresh, s), s, taken[s]) \in Books(s, {}, Zeros, Zeros, Knows)
  BY <1>2, SendStartTimeKeeps
<1>4. SendStartTime(Event(fresh, s), s, taken[s]) \in Tales(s, {}, Zeros, Zeros, Knows)
  BY <1>3, BooksAreTales
<1> QED BY <1>1, <1>4 DEF StartTime

LEMMA CountdownStep ==
    ASSUME BInv, NEW s \in Sessions, Countdown(s)
    PROVE  BInv' /\ Outcome(s, Zeros, Zeros)
<1>1. /\ up /\ at' \in Nat /\ UNCHANGED <<up, taken, lobby, alive, started>>
      /\ broker' = StartTime(fresh, s)
      /\ timer' = timer \/ timer' = [timer EXCEPT ![s] = "running"]
  BY EventsAreOfARunningServer DEF Countdown
<1>2. broker' \in Tales(s, {}, Zeros, Zeros, Knows)
  BY <1>1, StartTimeKeeps
<1>3. \A t \in Sessions : Counted(t)' = Counted(t)
  BY <1>1 DEF Counted
<1>4. timer' \in [Sessions -> {"idle", "running", "alarmed"}]
  BY <1>1 DEF BInv, BrokersType
<1> QED BY <1>1, <1>2, <1>3, <1>4, Undisturbed DEF BInv, BrokersType

LEMMA CheckStartStep ==
    ASSUME BInv, NEW s \in Sessions, CheckStart(s)
    PROVE  BInv' /\ Outcome(s, Zeros, Zeros)
<1> DEFINE b == Event(StartTime(fresh, s), s)
           V == Books(s, {}, Zeros, Zeros, Knows)
<1>1. up /\ at' \in Nat /\ ~started[s] /\ UNCHANGED <<up, taken>>
  BY EventsAreOfARunningServer DEF CheckStart
<1>2. b \in V
  <2>1. StartTime(fresh, s) \in Tales(s, {}, Zeros, Zeros, Knows)
    BY StartTimeKeeps
  <2> QED BY <2>1, EventKeeps
<1>3. /\ "GAME_STARTED" \in Plain \ {"VICTORY_MESSAGE"}
      /\ "STARTCANCELLED" \in Plain \ {"VICTORY_MESSAGE"}
  BY DEF Plain
<1>4. CASE Enough(s)
  <2>1. /\ broker' = PreparePlayersState(SendGameStarted(b, s, taken[s]), s, taken[s])
        /\ started' = [started EXCEPT ![s] = TRUE]
        /\ alive' = [alive EXCEPT ![s] = lobby[s]]
        /\ lobby' = [lobby EXCEPT ![s] = 0]
        /\ timer' = [timer EXCEPT ![s] = "running"]
    BY <1>4 DEF CheckStart
  <2> HIDE DEF b
  <2>2. SendGameStarted(b, s, taken[s]) \in V
    <3>1. Tell(b, s, taken[s], "GAME_STARTED") \in V
      BY <1>2, <1>3, TellPlain
    <3> QED BY <3>1 DEF SendGameStarted
  <2>3. broker' \in V
    BY <2>1, <2>2, PreparePlayersStateKeeps
  <2>4. broker' \in Tales(s, {}, Zeros, Zeros, Knows)
    BY <2>3, BooksAreTales
  <2>5. /\ started' \in [Sessions -> BOOLEAN] /\ alive' \in [Sessions -> 0..Last]
        /\ lobby' \in [Sessions -> 0..Last]
        /\ timer' \in [Sessions -> {"idle", "running", "alarmed"}]
    BY <2>1, SeatsCount DEF BInv, BrokersType
  <2>6. ASSUME NEW t \in Sessions
        PROVE  Counted(t)' = Counted(t)
    <3>1. CASE t = s
      BY <1>1, <2>1, <3>1 DEF Counted, BInv, BrokersType
    <3>2. CASE t # s
      BY <2>1, <3>2 DEF Counted, BInv, BrokersType
    <3> QED BY <3>1, <3>2
  <2> QED BY <1>1, <2>4, <2>5, <2>6, Undisturbed
<1>5. CASE ~Enough(s)
  <2>1. /\ broker' = SendStartCancelled(b, s, taken[s])
        /\ timer' = [timer EXCEPT ![s] = "idle"]
        /\ UNCHANGED <<started, alive, lobby>>
    BY <1>5 DEF CheckStart
  <2> HIDE DEF b
  <2>2. broker' \in V
    <3>1. Tell(b, s, taken[s], "STARTCANCELLED") \in V
      BY <1>2, <1>3, TellPlain
    <3> QED BY <2>1, <3>1 DEF SendStartCancelled
  <2>3. broker' \in Tales(s, {}, Zeros, Zeros, Knows)
    BY <2>2, BooksAreTales
  <2>4. /\ started' \in [Sessions -> BOOLEAN] /\ alive' \in [Sessions -> 0..Last]
        /\ lobby' \in [Sessions -> 0..Last]
        /\ timer' \in [Sessions -> {"idle", "running", "alarmed"}]
    BY <2>1 DEF BInv, BrokersType
  <2>5. \A t \in Sessions : Counted(t)' = Counted(t)
    BY <2>1 DEF Counted
  <2> QED BY <1>1, <2>3, <2>4, <2>5, Undisturbed
<1> QED BY <1>4, <1>5

LEMMA DueIs ==
    ASSUME NEW due \in Due
    PROVE  \A p \in Players : due[p] \in {"nothing", "paid", "unpaid", "ready"}
BY DEF Due

\* What a month's end tells, from the results of the auctions to the new turn.
LEMMA MonthIsTold ==
    ASSUME BInv, NEW s \in Sessions, up, NEW due \in Due, NEW cannot \in SUBSET Players,
           NEW all \in BOOLEAN, NEW late, late = {p \in taken[s] : due[p] = "unpaid"},
           cannot \subseteq taken[s] \ late, NEW bankrots, bankrots = late \cup cannot,
           NEW left, left = taken[s] \ bankrots, NEW n, n = Cardinality(bankrots),
           n \in Nat, Cardinality(left) + n <= alive[s],
           EndGameTurn(s, due, cannot, all)
    PROVE  broker' \in Books(s, bankrots, Losses(left, alive[s], n), Wins(left, alive[s], n),
                             Knows)
<1> DEFINE V == Books(s, bankrots, Zeros, Zeros, Knows)
           first == Event(fresh, s)
           second == StartAuction(first, SOURCE_AUCTION)
           third == StartAuction(second, PRODUCTION_AUCTION)
           results == SendAuctionsResults(third, s, taken[s])
           built == CheckBuildingFactories(results, s, taken[s], due)
           paid == PayCharges(built, s, taken[s] \ late, cannot)
           told == SendPlayersBankrot(paid, s, bankrots)
           quit == QuitBankrotPlayers(told, s, left, bankrots, alive[s])
           done == Books(s, bankrots, Losses(left, alive[s], n), Wins(left, alive[s], n), Knows)
<1>1. broker' = PrepareNewTurn(ForSession(quit, s), s, left, IF all THEN left ELSE {})
  BY DEF EndGameTurn
<1>2. /\ taken[s] \in SUBSET Players /\ alive[s] \in Nat /\ Knows \in BOOLEAN
      /\ left \in SUBSET Players /\ bankrots \in SUBSET Players
      /\ bankrots \subseteq taken[s] /\ late \subseteq taken[s]
  <2>1. taken[s] \in SUBSET Players /\ alive[s] \in 0..Last
    BY SeatsAreFew
  <2>2. Knows \in BOOLEAN
    BY DEF Knows
  <2>3. alive[s] \in Nat
    BY <2>1, SeatsCount
  <2>4. /\ left \in SUBSET Players /\ bankrots \in SUBSET Players
        /\ bankrots \subseteq taken[s] /\ late \subseteq taken[s]
    BY <2>1
  <2> QED BY <2>1, <2>2, <2>3, <2>4
<1>3. first \in V
  <2>1. fresh \in Tales(s, bankrots, Zeros, Zeros, Knows)
    BY FreshIsATale
  <2> QED BY <2>1, EventKeeps
<1> HIDE DEF first
<1>4. second \in V
  <2>1. SOURCE_AUCTION \in Int
    BY DEF SOURCE_AUCTION
  <2> QED BY <1>3, <2>1, StartAuctionKeeps
<1> HIDE DEF second
<1>5. third \in V
  <2>1. PRODUCTION_AUCTION \in Int
    BY DEF PRODUCTION_AUCTION
  <2> QED BY <1>4, <2>1, StartAuctionKeeps
<1> HIDE DEF third
<1>6. results \in V
  <2>1. AliveFit
    BY DEF AliveFit, BInv, BrokersType
  <2>2. taken[s] # {} => Knows
    BY DEF BInv, Introduced
  <2> QED BY <1>2, <1>5, <2>1, <2>2, SendAuctionsResultsKeeps
<1> HIDE DEF results
<1>7. built \in V /\ (late # {} => Charged(built, s))
  <2>1. {p \in taken[s] \cap Players : due[p] = "unpaid"} = late
    BY <1>2
  <2>2. /\ built \in V
        /\ {p \in taken[s] \cap Players : due[p] = "unpaid"} # {} => Charged(built, s)
    BY <1>6, DueIs, CheckBuildingFactoriesKeeps
  <2> QED BY <2>1, <2>2
<1> HIDE DEF built
<1>8. paid \in V /\ (bankrots # {} => Charged(paid, s))
  <2>1. /\ paid \in V
        /\ Charged(built, s) \/ Players \cap (taken[s] \ late) # {} => Charged(paid, s)
    BY <1>7, PayChargesKeeps
  <2>2. bankrots # {} => late # {} \/ Players \cap (taken[s] \ late) # {}
    OBVIOUS
  <2> QED BY <1>7, <2>1, <2>2
<1> HIDE DEF paid
<1>9. told \in V
  BY <1>8, SendPlayersBankrotKeeps
<1> HIDE DEF told
<1>10. quit \in done
  <2>1. told \in Books(s, bankrots, Losses(left, alive[s], 0), Wins(left, alive[s], 0), Knows)
    <3>1. \A q \in Players : /\ Losses(left, alive[s], 0)[q] = Zeros[q]
                             /\ Wins(left, alive[s], 0)[q] = Zeros[q]
      BY DEF Losses, Wins, WonSoFar, Zeros
    <3> QED BY <1>9, <3>1, BooksAgree
  <2>2. Cardinality(left) + Cardinality(bankrots) <= alive[s]
    OBVIOUS
  <2>3. quit \in Books(s, bankrots, Losses(left, alive[s], Cardinality(bankrots)),
                       Wins(left, alive[s], Cardinality(bankrots)), Knows)
    BY <1>2, <2>1, <2>2, QuitBankrotPlayersKeeps
  <2> QED BY <2>3
<1> HIDE DEF quit
<1>11. ForSession(quit, s) \in done
  BY <1>10, BooksAreTales, ForSessionKeeps
<1> QED BY <1>1, <1>11, PrepareNewTurnKeeps

LEMMA EndGameTurnStep ==
    ASSUME BInv, NEW s \in Sessions, NEW due \in Due, NEW cannot \in SUBSET Players,
           NEW all \in BOOLEAN, EndGameTurn(s, due, cannot, all)
    PROVE  BInv' /\ \E lost, won : Outcome(s, lost, won)
<1> DEFINE late == {p \in taken[s] : due[p] = "unpaid"}
           bankrots == late \cup cannot
           left == taken[s] \ bankrots
           n == Cardinality(bankrots)
           lost == Losses(left, alive[s], n)
           won == Wins(left, alive[s], n)
<1>1. /\ up /\ at' \in Nat /\ started[s] /\ cannot \subseteq taken[s] \ late
      /\ taken' = [taken EXCEPT ![s] = left] /\ alive' = [alive EXCEPT ![s] = @ - n]
      /\ UNCHANGED <<up, lobby, started, timer>>
  BY EventsAreOfARunningServer DEF EndGameTurn, Playing
<1>2. /\ taken[s] \in SUBSET Players /\ IsFiniteSet(taken[s])
      /\ Cardinality(taken[s]) \in Nat /\ Cardinality(taken[s]) <= alive[s]
      /\ alive[s] \in 0..Last
  BY <1>1, SeatsAreFew DEF Counted
<1>3. bankrots \subseteq taken[s] /\ left \in SUBSET Players
  BY <1>1, <1>2
<1>4. n \in Nat /\ Cardinality(left) \in Nat /\ Cardinality(left) = Cardinality(taken[s]) - n
      /\ IsFiniteSet(bankrots)
  <2> HIDE DEF bankrots
  <2>1. IsFiniteSet(bankrots) /\ n \in Nat
    BY <1>2, <1>3, FS_Subset, FS_CardinalityType
  <2>2. taken[s] \cap bankrots = bankrots
    BY <1>3
  <2>3. Cardinality(taken[s] \ bankrots)
        = Cardinality(taken[s]) - Cardinality(taken[s] \cap bankrots)
    BY <1>2, FS_Difference
  <2>4. Cardinality(left) \in Nat
    BY <1>3, PassedIs
  <2> QED BY <2>1, <2>2, <2>3, <2>4
<1>5. broker' \in Books(s, bankrots, lost, won, Knows)
  <2>1. Cardinality(left) + n <= alive[s]
    BY <1>2, <1>4, SeatsCount
  <2> QED BY <1>1, <1>4, <2>1, MonthIsTold
<1> HIDE DEF bankrots
<1>6. Leavers(s) = bankrots
  BY <1>1, <1>3 DEF Leavers, BInv, BrokersType
<1>7. /\ taken' \in [Sessions -> SUBSET Players] /\ taken'[s] = left
      /\ alive' \in [Sessions -> 0..Last] /\ alive'[s] = alive[s] - n
      /\ \A t \in Sessions \ {s} : taken'[t] = taken[t] /\ alive'[t] = alive[t]
  <2>1. alive[s] - n \in 0..Last
    BY <1>2, <1>4, SeatsCount
  <2> HIDE DEF left, n
  <2> QED BY <1>1, <1>3, <2>1 DEF BInv, BrokersType
<1>8. /\ \A t \in Sessions : taken'[t] \subseteq taken[t]
      /\ \A t \in Sessions \ {s} : Leavers(t) = {}
  BY <1>7 DEF Leavers
<1>9. Seated'
  <2> SUFFICES ASSUME NEW t \in Sessions
               PROVE  Cardinality(taken'[t]) <= Counted(t)'
    BY DEF Seated
  <2>1. CASE t = s
    <3>1. Cardinality(left) <= alive[s] - n
      BY <1>2, <1>4, SeatsCount
    <3> QED BY <1>1, <1>7, <2>1, <3>1 DEF Counted
  <2>2. CASE t # s
    BY <1>1, <1>7, <2>2 DEF BInv, Seated, Counted
  <2> QED BY <2>1, <2>2
<1> HIDE DEF lost, won
<1>10. broker' \in Tales(s, Leavers(s), lost, won, Knows)
  BY <1>5, <1>6, BooksAreTales
<1>11. broker' \in BrokerType /\ Introduced' /\ Over'
  BY <1>1, <1>8, <1>10, GoesOn
<1>12. Tallied(s, lost, won)
  <2> SUFFICES ASSUME NEW q \in Players
               PROVE  IF q \in taken'[s]
                      THEN /\ lost[q] + won[q] = Cardinality(Leavers(s))
                           /\ won[q] = IF Leavers(s) # {} /\ alive'[s] = 1 THEN 1 ELSE 0
                      ELSE lost[q] + won[q] = 0
    BY DEF Tallied
  <2>1. /\ lost[q] = IF q \in left THEN n - WonSoFar(alive[s], n) ELSE 0
        /\ won[q] = IF q \in left THEN WonSoFar(alive[s], n) ELSE 0
    BY DEF Losses, Wins, lost, won
  <2>2. WonSoFar(alive[s], n) = IF n > 0 /\ alive[s] - n = 1 THEN 1 ELSE 0
    BY DEF WonSoFar
  <2>3. n > 0 <=> bankrots # {}
    BY <1>4, FS_EmptySet
  <2> HIDE DEF left
  <2> QED BY <1>4, <1>6, <1>7, <2>1, <2>2, <2>3
<1>13. Outcome(s, lost, won)
  BY <1>8, <1>10, <1>12 DEF Outcome
<1>14. BInv'
  BY <1>1, <1>7, <1>9, <1>11 DEF BInv, BrokersType
<1> QED BY <1>13, <1>14

\* Who is refused is told without a number, and is nobody's player.
LEMMA RefuseStep ==
    ASSUME BInv, Refuse
    PROVE  /\ BInv' /\ broker'.messages = broker.messages
           /\ \A t \in Sessions : Leavers(t) = {}
           /\ DOMAIN broker'.told = {1}
           /\ broker'.told[1].to = Everybody /\ broker'.told[1].params = <<>>
           /\ broker'.told[1].code \in {"GAME_ALREADY_STARTED", "SERVER_FULL"}
<1> DEFINE m == [to |-> Everybody, params |-> <<>>,
                 code |-> IF started[Cardinality(Sessions)] THEN "GAME_ALREADY_STARTED"
                          ELSE "SERVER_FULL"]
<1>1. /\ up /\ at' \in {0, 1} /\ UNCHANGED <<up, taken, lobby, alive, started, timer>>
      /\ broker' = [fresh EXCEPT !.told = <<m>>]
  BY DEF Refuse, Listening, Heard
<1>2. /\ m \in SentType /\ m.to = Everybody /\ m.params = <<>>
      /\ m.code \in {"GAME_ALREADY_STARTED", "SERVER_FULL"}
  <2>1. Everybody \in Seq(Nat) /\ <<>> \in Seq(Seq(Nat))
    BY DEF Everybody
  <2> QED BY <2>1 DEF SentType, Said
<1> HIDE DEF m
<1>3. <<m>> \in Seq(SentType) /\ DOMAIN <<m>> = {1} /\ <<m>>[1] = m
  BY <1>2
<1>4. broker \in BrokerType
  BY DEF BInv, BrokersType
<1>5. broker' \in BrokerType /\ broker'.told = <<m>> /\ broker'.messages = broker.messages
  <2>1. broker' = [broker EXCEPT !.told = <<m>>]
    BY <1>1, <1>4 DEF fresh, BrokerType
  <2> QED BY <1>3, <1>4, <2>1 DEF BrokerType
<1>6. BInv'
  <2>1. Introduced' /\ Over'
    BY <1>1, <1>5 DEF BInv, Introduced, Over, Knows, SessionOf
  <2>2. Seated'
    BY <1>1 DEF BInv, Seated, Counted
  <2> QED BY <1>1, <1>5, <2>1, <2>2 DEF BInv, BrokersType
<1> QED BY <1>1, <1>2, <1>3, <1>5, <1>6 DEF Leavers

LEMMA InitiallyB == Init => BInv
<1> SUFFICES ASSUME Init
             PROVE  BInv
  OBVIOUS
<1>1. None \in Facts /\ \A n \in Sessions \cup {0} :
          Fact(IF n = 0 THEN Everybody ELSE OfSession(n), n) \in Facts
  <2>1. Everybody \in Seq(Nat)
    BY DEF Everybody
  <2>2. \A n \in Sessions : n \in Nat /\ OfSession(n) \in Seq(Nat)
    BY BrokersAssumption DEF OfSession
  <2> QED BY <2>1, <2>2 DEF Fact, Facts, None
<1>2. broker \in BrokerType
  <2>1. PICK n \in Sessions \cup {0} :
            broker = [tokens |-> [i \in 1..6 |-> None],
                      multicast |-> [i \in 1..3 |-> None],
                      events |-> <<None>>,
                      messages |-> [i \in 1..6 |-> IF i = Session
                                        THEN Fact(IF n = 0 THEN Everybody ELSE OfSession(n), n)
                                        ELSE None],
                      told |-> <<>>]
    BY DEF Init
  <2>2. <<None>> \in [1..1 -> Facts] /\ <<>> \in Seq(SentType)
    BY <1>1
  <2> HIDE DEF None
  <2>3. [i \in 1..6 |-> IF i = Session
             THEN Fact(IF n = 0 THEN Everybody ELSE OfSession(n), n) ELSE None] \in [1..6 -> Facts]
    BY <1>1
  <2> QED BY <1>1, <2>1, <2>2, <2>3 DEF BrokerType
<1>3. Cardinality({}) = 0
  BY FS_EmptySet
<1>4. BrokersType /\ Introduced /\ Over
  BY <1>2, SeatsCount DEF Init, BrokersType, Introduced, Over
<1>5. Seated
  BY <1>3 DEF Init, Seated, Counted
<1> QED BY <1>4, <1>5 DEF BInv

\* Every step but a refusal is one of a session.
LEMMA StepIs ==
    ASSUME BInv, NextBrokers
    PROVE  /\ BInv'
           /\ Refuse \/ \E s \in Sessions : \E lost, won : Outcome(s, lost, won)
<1>1. CASE Refuse
  BY <1>1, RefuseStep
<1>2. ASSUME NEW s \in Sessions, \/ NewClient(s) \/ Alarm(s) \/ Countdown(s)
                                 \/ CheckStart(s) \/ NotAllReady(s)
      PROVE  BInv' /\ Outcome(s, Zeros, Zeros)
  BY <1>2, NewClientStep, AlarmStep, CountdownStep, CheckStartStep, NotAllReadyStep
<1>3. ASSUME NEW s \in Sessions, NEW p \in Players, LeaveLobby(s, p) \/ TooEarly(s, p)
      PROVE  BInv' /\ Outcome(s, Zeros, Zeros)
  BY <1>3, LeaveLobbyStep, TooEarlyStep
<1>4. ASSUME NEW s \in Sessions, NEW p \in Players, LeaveGame(s, p)
      PROVE  BInv' /\ \E lost, won : Outcome(s, lost, won)
  BY <1>4, LeaveGameStep
<1>5. ASSUME NEW s \in Sessions, NEW due \in Due, NEW cannot \in SUBSET Players,
             NEW all \in BOOLEAN, EndGameTurn(s, due, cannot, all)
      PROVE  BInv' /\ \E lost, won : Outcome(s, lost, won)
  BY <1>5, EndGameTurnStep
<1> QED BY <1>1, <1>2, <1>3, <1>4, <1>5, Zenon DEF NextBrokers

LEMMA BStutters == BInv /\ UNCHANGED vars => BInv'
BY DEF BInv, BrokersType, Seated, Counted, Introduced, Knows, Over, vars

\* The brokers' data is of its type, whatever was put in whatever order; no session has
\* more players than it counts; and where there is a player of a server that runs, the
\* messages have a session (PutMessage, AddNewClientToSession, QuitPlayer).
THEOREM BrokersInvariance == SpecBrokers => []BInv
<1>1. Init => BInv
  BY InitiallyB
<1>2. BInv /\ [NextBrokers]_vars => BInv'
  BY StepIs, BStutters
<1> QED BY <1>1, <1>2, PTL DEF SpecBrokers

-----------------------------------------------------------------------------
(* What players are told.                                                  *)

LEMMA FineIsOwn ==
    ASSUME NEW s \in Sessions, NEW m, Fine(m, s, Leavers(s))
    PROVE  /\ Fits(m.code, m.params, m.to \in Bots)
           /\ IF m.code \in WithoutSession THEN OfOneSession(m) ELSE Own(m)
<1>1. PICK p \in Players : m.to = OfPlayer(s, p)
  BY DEF Fine
<1>2. m.to[1] = s
  BY <1>1 DEF OfPlayer
<1>3. OwnOf(m, s, Leavers(s)) => Own(m)
  BY <1>2 DEF OwnOf, Own
<1> QED BY <1>3 DEF Fine

\* TellsItsOwn, for any number of sessions and seats: the messages' parameters are left
\* from steps of other sessions and players, and still each message is of its reader
\* and fits him (PutMessage of the three brokers; BrokerMessages.cpp).
THEOREM ToldOfTheirOwn == SpecBrokers => TellsItsOwn
<1> DEFINE Right(m) == /\ Fits(m.code, m.params, m.to \in Bots)
                       /\ IF m.code \in WithoutSession THEN OfOneSession(m) ELSE Own(m)
<1>1. ASSUME BInv, NextBrokers
      PROVE  \A m \in Range(broker'.told) : Right(m)
  <2>1. CASE Refuse
    <3>1. /\ DOMAIN broker'.told = {1}
          /\ broker'.told[1].to = Everybody /\ broker'.told[1].params = <<>>
          /\ broker'.told[1].code \in {"GAME_ALREADY_STARTED", "SERVER_FULL"}
      BY <1>1, <2>1, RefuseStep
    <3> SUFFICES ASSUME NEW m, m = broker'.told[1]
                 PROVE  Right(m)
      BY <3>1 DEF Range
    <3>2. m.to = Everybody /\ m.params = <<>>
          /\ m.code \in {"GAME_ALREADY_STARTED", "SERVER_FULL"}
      BY <3>1
    <3>3. Fits(m.code, m.params, m.to \in Bots)
      BY <3>2 DEF Fits, TakenBy, ClientTakesOfOrder, BotTakesOfOrder, Queries, News,
                  ReadToTheEnd
    <3>4. m.code \notin WithoutSession /\ Range(m.params) = {}
      BY <3>2 DEF WithoutSession, Range
    <3>5. Own(m)
      BY <3>2, <3>4 DEF Own
    <3> QED BY <3>3, <3>4, <3>5
  <2>2. ASSUME NEW s \in Sessions, NEW lost, NEW won, Outcome(s, lost, won),
               NEW m \in Range(broker'.told)
        PROVE  Right(m)
    <3>1. PICK i \in DOMAIN broker'.told : m = broker'.told[i]
      BY DEF Range
    <3>2. Fine(m, s, Leavers(s))
      BY <2>2, <3>1 DEF Outcome, Tales
    <3> QED BY <3>2, FineIsOwn
  <2> QED BY <1>1, <2>1, <2>2, StepIs
<1>2. BInv /\ [NextBrokers]_vars => [\A m \in Range(broker'.told) : Right(m)]_vars
  BY <1>1
<1> QED BY <1>2, BrokersInvariance, PTL DEF SpecBrokers, TellsItsOwn

\* LeaversAreTold, for any number of bankrupts at once: each is told of once to each who
\* stays, and the last of them by the victory (QuitPlayer, QuitBankrotPlayers).
THEOREM LeaversAreMentioned == SpecBrokers => LeaversAreTold
<1> DEFINE Counts(s, p) ==
               LET lost == Sent(broker', s, p, "LOST_ALIVE_PLAYER")
                   won == Sent(broker', s, p, "VICTORY_MESSAGE")
               IN IF p \in taken'[s]
                  THEN /\ lost + won = Cardinality(Leavers(s))
                       /\ won = IF Leavers(s) # {} /\ alive'[s] = 1 THEN 1 ELSE 0
                  ELSE lost + won = 0
<1>0. Cardinality({}) = 0
  BY FS_EmptySet
<1>1. ASSUME NEW s, NEW p, Leavers(s) = {}, Sent(broker', s, p, "LOST_ALIVE_PLAYER") = 0,
             Sent(broker', s, p, "VICTORY_MESSAGE") = 0
      PROVE  Counts(s, p)
  BY <1>0, <1>1
<1>2. ASSUME BInv, NextBrokers, NEW s \in Sessions, started[s], NEW p \in Players
      PROVE  Counts(s, p)
  <2>1. CASE Refuse
    <3>1. /\ Leavers(s) = {} /\ DOMAIN broker'.told = {1} /\ broker'.told[1].to = Everybody
      BY <1>2, <2>1, RefuseStep
    <3>2. OfPlayer(s, p) # Everybody
      BY DEF OfPlayer, Everybody
    <3>3. ASSUME NEW code
          PROVE  Sent(broker', s, p, code) = 0
      <4>1. {i \in DOMAIN broker'.told : broker'.told[i].code = code
                                         /\ broker'.told[i].to = OfPlayer(s, p)} = {}
        BY <3>1, <3>2
      <4> QED BY <1>0, <4>1 DEF Sent
    <3> QED BY <1>1, <3>1, <3>3
  <2>2. ASSUME NEW t \in Sessions, NEW lost, NEW won, Outcome(t, lost, won)
        PROVE  Counts(s, p)
    <3>1. CASE t = s
      <4>1. /\ Sent(broker', s, p, "LOST_ALIVE_PLAYER") = lost[p]
            /\ Sent(broker', s, p, "VICTORY_MESSAGE") = won[p]
        BY <2>2, <3>1 DEF Outcome, Tales
      <4>2. IF p \in taken'[s]
            THEN /\ lost[p] + won[p] = Cardinality(Leavers(s))
                 /\ won[p] = IF Leavers(s) # {} /\ alive'[s] = 1 THEN 1 ELSE 0
            ELSE lost[p] + won[p] = 0
        BY <1>2, <2>2, <3>1 DEF Outcome, Tallied
      <4> QED BY <4>1, <4>2
    <3>2. CASE t # s
      <4>1. Leavers(s) = {} /\ \A i \in DOMAIN broker'.told : Fine(broker'.told[i], t, Leavers(t))
        BY <2>2, <3>2 DEF Outcome, Tales
      <4>2. \A q \in Players : OfPlayer(t, q) # OfPlayer(s, p)
        BY <3>2 DEF OfPlayer
      <4>3. ASSUME NEW code
            PROVE  Sent(broker', s, p, code) = 0
        <5>1. {i \in DOMAIN broker'.told : broker'.told[i].code = code
                                           /\ broker'.told[i].to = OfPlayer(s, p)} = {}
          BY <4>1, <4>2 DEF Fine
        <5> QED BY <1>0, <5>1 DEF Sent
      <4> QED BY <1>1, <4>1, <4>3
    <3> QED BY <3>1, <3>2
  <2> QED BY <1>2, <2>1, <2>2, StepIs
<1>3. BInv /\ [NextBrokers]_vars =>
          [\A s \in Sessions : started[s] => \A p \in Players : Counts(s, p)]_vars
  BY <1>2
<1> QED BY <1>3, BrokersInvariance, PTL DEF SpecBrokers, LeaversAreTold

=============================================================================
