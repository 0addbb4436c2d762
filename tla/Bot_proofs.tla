----------------------------- MODULE Bot_proofs -----------------------------
(***************************************************************************)
(* Theorems of Bot, for every program, every price list and every number   *)
(* of players.                                                             *)
(***************************************************************************)
EXTENDS BotProperties, FiniteSetTheorems, SequenceTheorems, WellFoundedInduction, TLAPS

SessionType ==
    month \in 1..MaxMonth /\ ended \subseteq Players /\ gone \subseteq Players

LEMMA PlayersFinite ==
    /\ IsFiniteSet(Players)
    /\ \A S \in SUBSET Players : IsFiniteSet(S) /\ Cardinality(S) \in Nat
<1>1. IsFiniteSet(Players)
  BY FS_Interval, BotAssumption DEF Players
<1>2. ASSUME NEW S \in SUBSET Players PROVE IsFiniteSet(S) /\ Cardinality(S) \in Nat
  BY <1>1, FS_Subset, FS_CardinalityType
<1> QED BY <1>1, <1>2

LEMMA SameSizes == \A S : Session!Cardinality(S) = Cardinality(S)
BY DEF Session!Cardinality, Cardinality

\* Nothing the bot reads or evaluates changes the server's session.
LEMMA BotLeavesSession ==
    ASSUME BotReads \/ Evaluate
    PROVE  UNCHANGED session
<1>1. CASE BotReads
  BY <1>1 DEF BotReads, Starting, MonthBegins, PlayerCommand, LostAlivePlayer, AuctionResults,
              StopScript, Receive
<1>2. CASE Evaluate
  BY <1>2 DEF Evaluate, PushConst, OpGo, OpIfThen, Assign, Arithmetic, SimpleFunction, Question,
              Answer, PrintStack, Unused, SendOffer, SendWork, SendTurn, Evaluating
<1> QED BY <1>1, <1>2

LEMMA SessionInit == Init => SessionType
BY BotAssumption DEF Init, SessionType

LEMMA SessionStep ==
    ASSUME SessionType, [Next]_vars
    PROVE  SessionType'
<1> USE DEF SessionType
<1>1. CASE BotReads \/ Evaluate
  BY <1>1, BotLeavesSession DEF session
<1>2. CASE ServerReads
  BY <1>2, BotAssumption DEF ServerReads
<1>3. CASE NextPass
  BY <1>3 DEF NextPass
<1>4. CASE EndMonth
  <2>1. \E bankrots \in SUBSET Present : gone' = gone \cup bankrots
    BY <1>4, Zenon DEF EndMonth
  <2>2. month' = month + 1 /\ month < MaxMonth /\ ended' = {}
    BY <1>4, Zenon DEF EndMonth
  <2>3. month' \in 1..MaxMonth
    BY <2>2, BotAssumption
  <2> QED BY <2>1, <2>2, <2>3 DEF Present
<1>5. ASSUME NEW p \in Players, OtherTurns(p) \/ OtherLeaves(p) PROVE SessionType'
  BY <1>5 DEF OtherTurns, OtherLeaves
<1>6. CASE UNCHANGED vars
  BY <1>6 DEF vars, session
<1> QED BY <1>1, <1>2, <1>3, <1>4, <1>5, <1>6 DEF Next, Server

-----------------------------------------------------------------------------
(* The server of this module implements Rounds.                            *)

LEMMA UnseenStep ==
    ASSUME UNCHANGED <<month, ended, gone>>
    PROVE  UNCHANGED Session!rounds
BY DEF Session!rounds, Present

\* A player in the game ends the turn.
LEMMA EndTurnRefines ==
    ASSUME SessionType, NEW p \in Present \ ended, ended' = ended \cup {p},
           UNCHANGED <<month, gone>>
    PROVE  Session!EndTurn(p)
<1>1. ended' \ gone' = (ended \ gone) \cup {p} /\ ended' \cap gone' = ended \cap gone
  BY DEF Present
<1>2. Cardinality(ended' \cap gone') = Cardinality(ended \cap gone)
  BY <1>1
<1> QED BY <1>1, <1>2 DEF Session!EndTurn, Present

LEMMA LeaveRefines ==
    ASSUME SessionType, NEW p \in Present, gone' = gone \cup {p}, UNCHANGED <<month, ended>>
    PROVE  Session!Leave(p)
<1>1. ended' \ gone' = (ended \ gone) \ {p} /\ Present' = Present \ {p}
  BY DEF Present
<1>2. ended' \cap gone' = IF p \in ended THEN (ended \cap gone) \cup {p} ELSE ended \cap gone
  OBVIOUS
<1>3. IsFiniteSet(ended \cap gone) /\ p \notin ended \cap gone
  BY PlayersFinite DEF SessionType, Present
<1>4. Cardinality(ended' \cap gone') =
         IF p \in ended THEN Cardinality(ended \cap gone) + 1 ELSE Cardinality(ended \cap gone)
  <2>1. Cardinality((ended \cap gone) \cup {p}) = Cardinality(ended \cap gone) + 1
    BY <1>3, FS_AddElement
  <2> QED BY <1>2, <2>1
<1>5. p \in ended \ gone <=> p \in ended
  BY DEF Present
<1> QED BY <1>1, <1>4, <1>5 DEF Session!Leave

LEMMA EndMonthRefines ==
    ASSUME SessionType, EndMonth
    PROVE  Session!EndMonth
<1>1. Cardinality(ended) = Cardinality(Present)
  BY DEF EndMonth, Ready, Alive
<1>2. Cardinality(ended \ gone) + Cardinality(ended \cap gone) = Cardinality(ended)
  <2>1. IsFiniteSet(ended \ gone) /\ IsFiniteSet(ended \cap gone)
    BY PlayersFinite DEF SessionType
  <2>2. (ended \ gone) \cap (ended \cap gone) = {} /\ (ended \ gone) \cup (ended \cap gone) = ended
    OBVIOUS
  <2>3. Cardinality(ended \ gone) \in Nat /\ Cardinality(ended \cap gone) \in Nat
    BY PlayersFinite DEF SessionType
  <2>4. Cardinality((ended \ gone) \cup (ended \cap gone)) =
           Cardinality(ended \ gone) + Cardinality(ended \cap gone)
             - Cardinality((ended \ gone) \cap (ended \cap gone))
    BY <2>1, FS_Union
  <2> QED BY <2>2, <2>3, <2>4, FS_EmptySet
<1>3. Session!AllReady
  <2>1. Cardinality(Present) \in Nat
    BY PlayersFinite DEF SessionType, Present
  <2> QED BY <1>1, <1>2, <2>1, SameSizes DEF Session!AllReady
<1>4. Present' \in SUBSET Present /\ month' = month + 1 /\ ended' = {}
  BY DEF EndMonth, Present
<1>5. ended' \ gone' = {} /\ Cardinality(ended' \cap gone') = 0
  <2>1. ended' \cap gone' = {} /\ ended' \ gone' = {}
    BY <1>4
  <2> QED BY <2>1, FS_EmptySet
<1> QED BY <1>3, <1>4, <1>5 DEF Session!EndMonth

LEMMA StepRefines ==
    ASSUME SessionType, [Next]_vars
    PROVE  [Session!Next]_(Session!rounds)
<1>1. CASE BotReads \/ Evaluate \/ NextPass \/ UNCHANGED vars
  <2>1. UNCHANGED <<month, ended, gone>>
    BY <1>1, BotLeavesSession DEF session, NextPass, vars
  <2> QED BY <2>1, UnseenStep
<1>2. CASE ServerReads
  <2>1. MyId \in Present /\ UNCHANGED <<month, gone>>
    BY <1>2 DEF ServerReads
  <2>2. CASE ended' = ended
    BY <2>1, <2>2, UnseenStep
  <2>3. CASE ended' = ended \cup {MyId} /\ MyId \notin ended
    BY <2>1, <2>3, EndTurnRefines, BotAssumption DEF Session!Next
  <2> QED BY <1>2, <2>2, <2>3 DEF ServerReads
<1>3. CASE EndMonth
  BY <1>3, EndMonthRefines DEF Session!Next
<1>4. ASSUME NEW p \in Players, OtherTurns(p)
      PROVE  [Session!Next]_(Session!rounds)
  BY <1>4, EndTurnRefines DEF OtherTurns, Session!Next
<1>5. ASSUME NEW p \in Players, OtherLeaves(p)
      PROVE  [Session!Next]_(Session!rounds)
  BY <1>5, LeaveRefines DEF OtherLeaves, Session!Next
<1> QED BY <1>1, <1>2, <1>3, <1>4, <1>5 DEF Next, Server

LEMMA InitRefines == ASSUME Init PROVE Session!Init
<1>1. ended \ gone = {} /\ ended \cap gone = {} /\ Present = Players /\ month = 1
  BY DEF Init, Present
<1>2. Cardinality(ended \cap gone) = 0
  BY <1>1, FS_EmptySet
<1> QED BY <1>1, <1>2 DEF Session!Init

\* The server the bot is checked with keeps the months that GameSession keeps.
THEOREM ServerImplementsRounds == Spec => ImplementsRounds
<1>1. SessionType /\ [Next]_vars => [Session!Next]_(Session!rounds)
  BY StepRefines
<1>2. Init => Session!Init
  BY InitRefines
<1>3. SessionType /\ [Next]_vars => SessionType'
  BY SessionStep
<1> QED BY <1>1, <1>2, <1>3, SessionInit, PTL DEF Spec, ImplementsRounds, Session!Spec

-----------------------------------------------------------------------------
(* Types.  The machine stays inside what the compiler made, whatever the   *)
(* server says.                                                            *)

Opening == "STARTING_GAME_INFORMATION"

\* What may stand on the stack: an address is one of a variable.
Element == {e \in [op : Ops, n : Int] :
               /\ e.op = "addr" => e.n \in 1..Len(program.names)
               /\ e.op = "label" => e.n \in Nat \ {0}}

\* The lines the machine sends, and those it is sent.
ServerLine == [type : {"player", "turn"} \cup Offers \cup Works, n : Int, price : Int]

Spoken == Stopping \cup
    {Opening, "NEW_TURN", "PLAYER_COMMAND", "LOST_ALIVE_PLAYER", "AUCTION_RESULTS"}

BotLine == {l \in [type : Spoken, n : Nat, price : Int] :
               l.type = "PLAYER_COMMAND" => l.n \in Players}

\* The game's start is still to be read.
Unread == toBot # <<>> /\ toBot[1].type = Opening

MachineType ==
    /\ program \in Programs /\ cur_cmd \in Nat \ {0}
    /\ stack \in Seq(Element) /\ values \in [1..Len(program.names) -> Int]
    /\ ret_to_prev_cmd \in BOOLEAN

KnowsType ==
    /\ execute_script \in BOOLEAN
    /\ main_info \in [turn : Int, price : Int, total : Int, alive : Int, last : Int]
    /\ execute_script => main_info.last \in Players
    /\ main_info.last \in Players \/ Unread
    /\ p_info \in [Players -> [is : {"none", "known", "freed"}, raw : Int]]

ToBotType ==
    /\ toBot \in Seq(BotLine)
    /\ \A i \in DOMAIN toBot : toBot[i].type = Opening => i = 1

ToServerType == toServer \in Seq(ServerLine)

TypeOK == MachineType /\ KnowsType /\ ToBotType /\ ToServerType /\ SessionType

\* Players are numbers.
LEMMA PlayerNumbers == Players \subseteq Nat /\ MyId \in Players
BY BotAssumption DEF Players

\* Elements are put on a sequence and taken off it.
LEMMA Pushed ==
    ASSUME NEW S, NEW s \in Seq(S), NEW e \in S
    PROVE  <<e>> \o s \in Seq(S)
OBVIOUS

LEMMA Popped ==
    ASSUME NEW S, NEW s \in Seq(S), s # <<>>
    PROVE  s[1] \in S /\ Tail(s) \in Seq(S) /\ Len(Tail(s)) = Len(s) - 1 /\ Len(s) \in Nat \ {0}
OBVIOUS

\* Where a false condition leads: into the code, or behind it.
LEMMA SkipForward ==
    ASSUME NEW code, Len(code) \in Nat, NEW p \in Nat \ {0}
    PROVE  SkipFrom(code, p) \in Nat \ {0}
<1> DEFINE ends == {k \in p..Len(code) : code[k].op \in Terminators}
<1>1. CASE ends = {}
  BY <1>1 DEF SkipFrom
<1>2. CASE ends # {}
  <2>1. ends \subseteq Nat
    OBVIOUS
  <2> HIDE DEF ends
  <2>2. \E k \in ends : \A j \in ends : ~(<<j, k>> \in OpToRel(<, Nat))
    BY <1>2, <2>1, NatLessThanWellFounded, WFMin
  <2>3. PICK k \in ends : \A j \in ends : ~(<<j, k>> \in OpToRel(<, Nat))
    BY <2>2
  <2>4. \A j \in ends : ~(j < k)
    BY <2>1, <2>3 DEF OpToRel
  <2>5. \E i \in ends : \A j \in ends : i <= j
    BY <2>1, <2>4
  <2> DEFINE first == CHOOSE i \in ends : \A j \in ends : i <= j
  <2>6. first \in Nat
    BY <2>1, <2>5
  <2>7. SkipFrom(code, p) = 1 + first
    BY <1>2 DEF SkipFrom, ends
  <2> HIDE DEF first
  <2> QED BY <2>6, <2>7
<1> QED BY <1>1, <1>2

\* The element that is evaluated.
LEMMA HereElement ==
    ASSUME TypeOK, NEW ops, Evaluating(ops)
    PROVE  /\ Here \in Element /\ Here.op \in ops
           /\ Len(program.code) \in Nat /\ Element' = Element
           /\ UNCHANGED <<program, toBot, session, early>>
           /\ status = "running" /\ execute_script
<1>1. program \in Programs /\ cur_cmd \in Nat \ {0} /\ cur_cmd <= Len(program.code)
      /\ Here.op \in ops /\ UNCHANGED <<program, toBot, session, early>>
      /\ status = "running" /\ execute_script
  BY DEF TypeOK, MachineType, Evaluating, Here
<1>2. program.code \in Seq([op : Ops, n : Int]) /\ Len(program.code) \in Nat
  <2>1. program.code \in Seq([op : Ops, n : Int])
    BY <1>1, ProgramsAssumption, Zenon DEF Executable
  <2> QED BY <2>1
<1>3. cur_cmd \in DOMAIN program.code
  BY <1>1, <1>2
<1>4. Here \in Element
  <2> DEFINE code == program.code
  <2>1. Here \in [op : Ops, n : Int]
    <3>1. code \in Seq([op : Ops, n : Int]) /\ cur_cmd \in 1..Len(code)
      BY <1>1, <1>2
    <3> HIDE DEF code
    <3>2. code[cur_cmd] \in [op : Ops, n : Int]
      BY <3>1, ElementOfSeq
    <3> QED BY <3>2 DEF Here, code
  <2>2. /\ Here.op = "addr" => Here.n \in 1..Len(program.names)
        /\ Here.op = "label" => Here.n \in Nat \ {0}
    BY <1>1, <1>3, ProgramsAssumption DEF Executable, Here
  <2> QED BY <2>1, <2>2 DEF Element
<1>5. Element' = Element
  BY <1>1 DEF Element
<1> QED BY <1>1, <1>2, <1>4, <1>5

LEMMA NumberType ==
    ASSUME TypeOK, NEW k \in Nat \ {0}, HasNumber(stack, k)
    PROVE  /\ NumberOf(stack[k], values) \in Int
           /\ stack[k] \in Element
<1>1. stack[k] \in Element
  BY DEF TypeOK, MachineType, HasNumber
<1> QED BY <1>1 DEF HasNumber, NumberOf, Element, TypeOK, MachineType

\* What the arithmetic of C++ makes of whole numbers.
LEMMA ResultType ==
    ASSUME NEW op \in Binary, NEW a \in Int, NEW b \in Int, op \in Dividing => b # 0
    PROVE  Result(op, a, b) \in Int
<1>1. ASSUME b # 0
      PROVE  Towards0(a, b) \in Int
  <2>1. Magnitude(a) \in Nat /\ Magnitude(b) \in Nat \ {0}
    BY <1>1 DEF Magnitude
  <2>2. Magnitude(a) \div Magnitude(b) \in Int
    BY <2>1
  <2> QED BY <2>2 DEF Towards0
<1>2. ASSUME b # 0
      PROVE  Div(a, b) \in Int /\ Rem(a, b) \in Int
  BY <1>1, <1>2 DEF Div, Rem
<1>3. /\ Less(a, b) \in Int /\ Greater(a, b) \in Int /\ Equal(a, b) \in Int
      /\ NotEqual(a, b) \in Int /\ Or(a, b) \in Int /\ And(a, b) \in Int
      /\ Plus(a, b) \in Int /\ Minus(a, b) \in Int /\ Mul(a, b) \in Int
  BY DEF Less, Greater, Equal, NotEqual, Or, And, Plus, Minus, Mul, Truth
<1> QED BY <1>2, <1>3 DEF Result, Binary, Dividing

LEMMA IntElement == \A n \in Int : IntElem(n) \in Element
<1> SUFFICES ASSUME NEW n \in Int PROVE IntElem(n) \in Element
  OBVIOUS
<1>1. IntElem(n) \in [op : Ops, n : Int] /\ IntElem(n).op = "int"
  BY DEF IntElem, Elem, Ops
<1> QED BY <1>1 DEF Element

LEMMA CalculatedType ==
    ASSUME TypeOK, NEW op \in Unary \cup Binary, ~Throws(op, stack, values)
    PROVE  Calculated(op, stack, values) \in Seq(Element)
<1> DEFINE op1 == NumberOf(stack[1], values)
           op2 == NumberOf(stack[2], values)
<1>1. HasNumber(stack, 1) /\ op1 \in Int
  BY NumberType DEF Throws
<1>2. stack \in Seq(Element) /\ stack # <<>> /\ Tail(stack) \in Seq(Element)
      /\ Len(Tail(stack)) = Len(stack) - 1 /\ Len(stack) \in Nat
  BY <1>1 DEF TypeOK, MachineType, HasNumber
<1>3. \A n \in Int : IntElem(n) \in Element
  BY IntElement
<1> HIDE DEF op1, op2
<1>4. CASE op \in Unary
  <2>1. Not(op1) \in Int /\ UnMinus(op1) \in Int
    BY <1>1 DEF Not, UnMinus, Truth
  <2>2. <<IntElem(Not(op1))>> \o Tail(stack) \in Seq(Element)
        /\ <<IntElem(UnMinus(op1))>> \o Tail(stack) \in Seq(Element)
    BY <1>2, <1>3, <2>1, Pushed
  <2>3. CASE op = "!"
    <3>1. Calculated(op, stack, values) = <<IntElem(Not(op1))>> \o Tail(stack)
      BY <2>3 DEF Calculated, Binary, Dividing, op1
    <3> QED BY <2>2, <3>1
  <2>4. CASE op = "-U"
    <3>1. Calculated(op, stack, values) = <<IntElem(UnMinus(op1))>> \o Tail(stack)
      BY <2>4 DEF Calculated, Binary, Dividing, op1
    <3> QED BY <2>2, <3>1
  <2> QED BY <1>4, <2>3, <2>4 DEF Unary
<1>5. CASE op \in Binary
  <2>1. HasNumber(stack, 2) /\ op2 \in Int /\ (op \in Dividing => op2 # 0)
    BY <1>5, NumberType DEF Throws, op2
  <2>2. Result(op, op1, op2) \in Int
    BY <1>1, <1>5, <2>1, ResultType
  <2> DEFINE t == Tail(stack)
  <2>3. t \in Seq(Element) /\ Len(t) # 0
    BY <1>2, <2>1 DEF HasNumber
  <2> HIDE DEF t
  <2>4. Tail(t) \in Seq(Element)
    BY <2>3
  <2>5. <<IntElem(Result(op, op1, op2))>> \o Tail(t) \in Seq(Element)
    BY <1>3, <2>2, <2>4, Pushed
  <2>6. op # "!" /\ op # "-U"
    BY <1>5 DEF Binary, Dividing
  <2> QED BY <1>5, <2>5, <2>6 DEF Calculated, op1, op2, t
<1> QED BY <1>4, <1>5


\* An element that leaves this on the stack and these values is done.
LEMMA DoneType ==
    ASSUME TypeOK, NEW ops, Evaluating(ops), NEW s \in Seq(Element),
           NEW v \in [1..Len(program.names) -> Int], Done(s, v)
    PROVE  MachineType' /\ status' = "running"
<1>1. program' = program /\ Element' = Element /\ status = "running"
  BY HereElement
<1>2. cur_cmd + 1 \in Nat \ {0}
  BY DEF TypeOK, MachineType
<1> QED BY <1>1, <1>2 DEF TypeOK, MachineType, Done

\* The part of the bot's state that an element which tells the server nothing, and
\* learns nothing, leaves alone.
LEMMA QuietType ==
    ASSUME TypeOK, NEW ops, Evaluating(ops), Quiet
    PROVE  KnowsType' /\ ToBotType' /\ ToServerType' /\ SessionType'
<1>1. UNCHANGED <<toBot, session, knows, toServer>>
  BY HereElement DEF Quiet
<1>2. UNCHANGED <<toBot, toServer, execute_script, main_info, p_info, month, ended, gone>>
  BY <1>1 DEF session, knows
<1>3. KnowsType'
  BY <1>2 DEF TypeOK, KnowsType, Unread
<1>4. ToBotType' /\ ToServerType' /\ SessionType'
  BY <1>2 DEF TypeOK, ToBotType, ToServerType, SessionType
<1> QED BY <1>3, <1>4

\* ... and that a line to the server leaves alone.
LEMMA SendingType ==
    ASSUME TypeOK, NEW ops, Evaluating(ops), UNCHANGED <<main_info, p_info>>,
           execute_script' \in BOOLEAN, execute_script' => execute_script
    PROVE  KnowsType' /\ ToBotType' /\ SessionType'
<1>1. UNCHANGED <<toBot, main_info, p_info, month, ended, gone>>
  BY HereElement DEF session
<1>2. KnowsType'
  BY <1>1 DEF TypeOK, KnowsType, Unread
<1>3. ToBotType' /\ SessionType'
  BY <1>1 DEF TypeOK, ToBotType, SessionType
<1> QED BY <1>2, <1>3

LEMMA SentType ==
    ASSUME TypeOK
    PROVE  \A line \in ServerLine : Append(toServer, line) \in Seq(ServerLine)
BY DEF TypeOK, ToServerType

LEMMA StopMachineType ==
    ASSUME TypeOK, NEW ops, Evaluating(ops), Terminate
    PROVE  TypeOK'
<1>1. Quiet /\ UNCHANGED machine
  BY DEF Terminate, Quiet
<1>2. MachineType'
  <2>1. Element' = Element
    BY HereElement
  <2> QED BY <1>1, <2>1 DEF TypeOK, MachineType, machine
<1> QED BY <1>1, <1>2, QuietType DEF TypeOK

LEMMA StackFacts ==
    ASSUME TypeOK
    PROVE  /\ stack \in Seq(Element) /\ <<>> \in Seq(Element) /\ Len(stack) \in Nat
           /\ stack # <<>> => stack[1] \in Element /\ Tail(stack) \in Seq(Element)
           /\ Len(stack) >= 2 =>
                  stack[2] \in Element /\ Tail(Tail(stack)) \in Seq(Element)
           /\ values \in [1..Len(program.names) -> Int]
<1>1. stack \in Seq(Element) /\ values \in [1..Len(program.names) -> Int]
  BY DEF TypeOK, MachineType
<1>2. stack # <<>> => stack[1] \in Element /\ Tail(stack) \in Seq(Element)
  BY <1>1
<1>3. ASSUME Len(stack) >= 2
      PROVE  stack[2] \in Element /\ Tail(Tail(stack)) \in Seq(Element)
  <2> DEFINE t == Tail(stack)
  <2>1. stack[2] \in Element /\ t \in Seq(Element) /\ Len(t) # 0
    BY <1>1, <1>3
  <2> HIDE DEF t
  <2>2. Tail(t) \in Seq(Element)
    BY <2>1
  <2> QED BY <2>1, <2>2 DEF t
<1> QED BY <1>1, <1>2, <1>3

LEMMA MovesType ==
    ASSUME TypeOK, PushConst \/ OpGo \/ OpIfThen \/ Assign \/ Arithmetic \/ SimpleFunction
                   \/ PrintStack \/ Unused
    PROVE  TypeOK'
<1> DEFINE Fits(ops) == Evaluating(ops) /\ Quiet /\ MachineType'
<1>1. ASSUME NEW ops, Fits(ops)
      PROVE  TypeOK'
  BY <1>1, QuietType DEF TypeOK
<1>2. CASE PushConst
  <2> DEFINE ops == {"int", "addr", "label", "str"}
  <2>1. Evaluating(ops) /\ Quiet /\ Done(<<Here>> \o stack, values)
    BY <1>2 DEF PushConst
  <2> HIDE DEF ops
  <2>2. <<Here>> \o stack \in Seq(Element)
    BY <2>1, HereElement, StackFacts, Pushed
  <2> QED BY <1>1, <2>1, <2>2, StackFacts, DoneType
<1>3. CASE OpGo
  <2> DEFINE ops == {"goto"}
  <2>1. Evaluating(ops)
    BY <1>3 DEF OpGo
  <2> HIDE DEF ops
  <2>2. CASE stack # <<>> /\ stack[1].op = "label"
    <3>1. /\ cur_cmd' = stack[1].n /\ stack' = Tail(stack)
          /\ Quiet /\ UNCHANGED <<values, ret_to_prev_cmd, status>>
      BY <1>3, <2>2 DEF OpGo
    <3>2. stack[1].n \in Nat \ {0}
      BY <2>2, StackFacts DEF Element
    <3>3. MachineType'
      BY <2>1, <2>2, <3>1, <3>2, HereElement, StackFacts DEF TypeOK, MachineType
    <3> QED BY <1>1, <2>1, <3>1, <3>3
  <2>3. CASE ~(stack # <<>> /\ stack[1].op = "label")
    BY <1>3, <2>1, <2>3, StopMachineType DEF OpGo
  <2> QED BY <2>2, <2>3
<1>4. CASE OpIfThen
  <2> DEFINE ops == {"ifthen"}
  <2>1. Evaluating(ops)
    BY <1>4 DEF OpIfThen
  <2> HIDE DEF ops
  <2>2. CASE stack # <<>> /\ stack[1].op = "int"
    <3>1. /\ stack' = Tail(stack)
          /\ cur_cmd' = IF stack[1].n # 0 THEN cur_cmd + 1 ELSE SkipFrom(program.code, cur_cmd)
          /\ Quiet /\ UNCHANGED <<values, ret_to_prev_cmd, status>>
      BY <1>4, <2>2 DEF OpIfThen
    <3>2. cur_cmd' \in Nat \ {0}
      <4>1. cur_cmd \in Nat \ {0} /\ Len(program.code) \in Nat
        BY <2>1, HereElement DEF TypeOK, MachineType
      <4>2. SkipFrom(program.code, cur_cmd) \in Nat \ {0}
        BY <4>1, SkipForward
      <4> QED BY <3>1, <4>1, <4>2
    <3>3. MachineType'
      BY <2>1, <2>2, <3>1, <3>2, HereElement, StackFacts DEF TypeOK, MachineType
    <3> QED BY <1>1, <2>1, <3>1, <3>3
  <2>3. CASE ~(stack # <<>> /\ stack[1].op = "int")
    BY <1>4, <2>1, <2>3, StopMachineType DEF OpIfThen
  <2> QED BY <2>2, <2>3
<1>5. CASE Assign
  <2> DEFINE ops == {"assign"}
  <2>1. Evaluating(ops)
    BY <1>5 DEF Assign
  <2> HIDE DEF ops
  <2>2. CASE Len(stack) >= 2 /\ stack[1].op = "addr" /\ stack[2].op = "int"
    <3>1. Quiet /\ Done(Tail(Tail(stack)), [values EXCEPT ![stack[1].n] = stack[2].n])
      BY <1>5, <2>2 DEF Assign
    <3>2. stack[2].n \in Int /\ Tail(Tail(stack)) \in Seq(Element)
      BY <2>2, StackFacts DEF Element
    <3>3. [values EXCEPT ![stack[1].n] = stack[2].n] \in [1..Len(program.names) -> Int]
      BY <3>2, StackFacts
    <3> QED BY <1>1, <2>1, <3>1, <3>2, <3>3, DoneType
  <2>3. CASE ~(Len(stack) >= 2 /\ stack[1].op = "addr" /\ stack[2].op = "int")
    BY <1>5, <2>1, <2>3, StopMachineType DEF Assign
  <2> QED BY <2>2, <2>3
<1>6. CASE Arithmetic
  <2> DEFINE ops == Unary \cup Binary
  <2>1. Evaluating(ops) /\ Here.op \in ops
    BY <1>6, HereElement DEF Arithmetic
  <2>2. CASE Throws(Here.op, stack, values)
    BY <1>6, <2>1, <2>2, StopMachineType DEF Arithmetic
  <2>3. CASE ~Throws(Here.op, stack, values)
    <3>1. Quiet /\ Done(Calculated(Here.op, stack, values), values)
      BY <1>6, <2>3 DEF Arithmetic
    <3>2. Calculated(Here.op, stack, values) \in Seq(Element)
      BY <2>1, <2>3, CalculatedType
    <3> QED BY <1>1, <2>1, <3>1, <3>2, StackFacts, DoneType
  <2> QED BY <2>2, <2>3
<1>7. CASE SimpleFunction
  <2>1. Evaluating(SimpleGF) /\ Quiet /\ Done(<<IntElem(Told(Here.op))>> \o stack, values)
    BY <1>7 DEF SimpleFunction
  <2>2. Told(Here.op) \in Int
    <3>1. Here.op \in SimpleGF
      BY <2>1, HereElement
    <3>2. /\ MyId \in Int /\ main_info.turn \in Int /\ main_info.total \in Int
          /\ main_info.alive \in Int /\ main_info.price \in Int
      BY PlayerNumbers DEF TypeOK, KnowsType
    <3> QED BY <3>1, <3>2 DEF Told, SimpleGF
  <2>3. <<IntElem(Told(Here.op))>> \o stack \in Seq(Element)
    BY <2>2, IntElement, StackFacts, Pushed
  <2> QED BY <1>1, <2>1, <2>3, StackFacts, DoneType
<1>8. CASE PrintStack \/ Unused
  <2>1. PICK ops : Evaluating(ops) /\ Quiet /\ Done(<<>>, values)
    BY <1>8 DEF PrintStack, Unused
  <2> QED BY <1>1, <2>1, StackFacts, DoneType
<1> QED BY <1>2, <1>3, <1>4, <1>5, <1>6, <1>7, <1>8


LEMMA SaysType ==
    ASSUME TypeOK, Question \/ Answer \/ SendOffer \/ SendWork \/ SendTurn
    PROVE  TypeOK'
<1>1. CASE Question
  <2>1. Evaluating(PlayerGF)
    BY <1>1 DEF Question
  <2>2. CASE stack = <<>>
    <3>1. Quiet /\ Done(stack, values)
      BY <1>1, <2>2 DEF Question
    <3> QED BY <2>1, <3>1, StackFacts, DoneType, QuietType DEF TypeOK
  <2>3. CASE stack # <<>> /\ stack[1].op # "int"
    <3>1. Quiet /\ Done(Tail(stack), values)
      BY <1>1, <2>3 DEF Question
    <3> QED BY <2>1, <2>3, <3>1, StackFacts, DoneType, QuietType DEF TypeOK
  <2>4. CASE stack # <<>> /\ stack[1].op = "int"
    <3>1. /\ toServer' = Append(toServer, LineOf("player", stack[1].n))
          /\ stack' = Tail(stack) /\ ret_to_prev_cmd' = TRUE
          /\ UNCHANGED <<cur_cmd, values, status, knows>>
      BY <1>1, <2>4 DEF Question
    <3>2. LineOf("player", stack[1].n) \in ServerLine
      <4>1. stack[1].n \in Int
        BY <2>4, StackFacts DEF Element
      <4> QED BY <4>1 DEF LineOf, ServerLine
    <3>3. ToServerType'
      BY <3>1, <3>2, SentType DEF ToServerType
    <3>4. MachineType'
      BY <2>1, <2>4, <3>1, HereElement, StackFacts DEF TypeOK, MachineType
    <3>5. UNCHANGED <<main_info, p_info, execute_script>> /\ execute_script \in BOOLEAN
      BY <3>1 DEF knows, TypeOK, KnowsType
    <3> QED BY <2>1, <3>3, <3>4, <3>5, SendingType DEF TypeOK
  <2> QED BY <2>2, <2>3, <2>4
<1>2. CASE Answer
  <2>1. Evaluating(PlayerGF) /\ ret_to_prev_cmd' = FALSE /\ UNCHANGED <<knows, toServer, values>>
    BY <1>2 DEF Answer
  <2>2. KnowsType' /\ ToBotType' /\ ToServerType' /\ SessionType'
    BY <2>1, QuietType DEF Quiet
  <2>3. program' = program /\ Element' = Element /\ execute_script
    BY <2>1, HereElement
  <2>4. CASE p_info[main_info.last].is = "known"
    <3>1. /\ stack' = <<IntElem(p_info[main_info.last].raw)>> \o stack
          /\ cur_cmd' = cur_cmd + 1
      BY <1>2, <2>4 DEF Answer
    <3>2. p_info[main_info.last].raw \in Int
      BY <2>3 DEF TypeOK, KnowsType
    <3>3. stack' \in Seq(Element)
      BY <3>1, <3>2, IntElement, StackFacts, Pushed
    <3>4. cur_cmd' \in Nat \ {0}
      BY <3>1 DEF TypeOK, MachineType
    <3>5. /\ program' \in Programs /\ ret_to_prev_cmd' \in BOOLEAN
          /\ values' \in [1..Len(program'.names) -> Int]
      BY <2>1, <2>3 DEF TypeOK, MachineType
    <3>6. stack' \in Seq(Element)'
      BY <2>3, <3>3
    <3> QED BY <2>2, <3>4, <3>5, <3>6 DEF TypeOK, MachineType
  <2>5. CASE p_info[main_info.last].is # "known"
    <3>1. UNCHANGED <<stack, cur_cmd>>
      BY <1>2, <2>5 DEF Answer
    <3>2. /\ program' \in Programs /\ cur_cmd' \in Nat \ {0}
          /\ values' \in [1..Len(program'.names) -> Int] /\ ret_to_prev_cmd' \in BOOLEAN
      BY <2>1, <2>3, <3>1 DEF TypeOK, MachineType
    <3>3. stack' \in Seq(Element)'
      BY <2>3, <3>1, StackFacts
    <3> QED BY <2>2, <3>2, <3>3 DEF TypeOK, MachineType
  <2> QED BY <2>4, <2>5
<1>3. CASE SendOffer
  <2>1. Evaluating(Offers) /\ Len(stack) = 2
    BY <1>3 DEF SendOffer
  <2>2. CASE HasNumber(stack, 1) /\ HasNumber(stack, 2)
    <3> DEFINE line == [type |-> Here.op, n |-> Number(1), price |-> Number(2)]
    <3>1. toServer' = Append(toServer, line) /\ Done(<<>>, values) /\ UNCHANGED knows
      BY <1>3, <2>2 DEF SendOffer
    <3>2. line \in ServerLine
      <4>1. Here.op \in Offers /\ Number(1) \in Int /\ Number(2) \in Int
        BY <2>1, <2>2, HereElement, NumberType DEF Number
      <4> QED BY <4>1 DEF ServerLine
    <3> HIDE DEF line
    <3>3. ToServerType'
      BY <3>1, <3>2, SentType DEF ToServerType
    <3>4. UNCHANGED <<main_info, p_info, execute_script>> /\ execute_script \in BOOLEAN
      BY <3>1 DEF knows, TypeOK, KnowsType
    <3> QED BY <2>1, <3>1, <3>3, <3>4, SendingType, StackFacts, DoneType DEF TypeOK
  <2>3. CASE ~(HasNumber(stack, 1) /\ HasNumber(stack, 2))
    BY <1>3, <2>1, <2>3, StopMachineType DEF SendOffer
  <2> QED BY <2>2, <2>3
<1>4. CASE SendWork
  <2>1. Evaluating(Works)
    BY <1>4 DEF SendWork
  <2>2. CASE HasNumber(stack, 1)
    <3> DEFINE orders == [k \in 1..Number(1) |-> Line(Here.op)]
    <3>1. toServer' = toServer \o orders /\ Done(<<>>, values) /\ UNCHANGED knows
      BY <1>4, <2>2 DEF SendWork
    <3>2. Number(1) \in Int
      BY <2>2, NumberType DEF Number
    <3>3. Line(Here.op) \in ServerLine
      BY <2>1, HereElement DEF Line, ServerLine
    <3>4. orders \in Seq(ServerLine)
      <4> DEFINE n == IF Number(1) < 0 THEN 0 ELSE Number(1)
      <4>1. n \in Nat /\ 1..Number(1) = 1..n
        BY <3>2
      <4>2. orders \in [1..n -> ServerLine]
        BY <3>3, <4>1
      <4> HIDE DEF orders, n
      <4> QED BY <4>1, <4>2
    <3> HIDE DEF orders
    <3>5. ToServerType'
      BY <3>1, <3>4 DEF ToServerType, TypeOK
    <3>6. UNCHANGED <<main_info, p_info, execute_script>> /\ execute_script \in BOOLEAN
      BY <3>1 DEF knows, TypeOK, KnowsType
    <3> QED BY <2>1, <3>1, <3>5, <3>6, SendingType, StackFacts, DoneType DEF TypeOK
  <2>3. CASE ~HasNumber(stack, 1)
    BY <1>4, <2>1, <2>3, StopMachineType DEF SendWork
  <2> QED BY <2>2, <2>3
<1>5. CASE SendTurn
  <2>1. /\ Evaluating({"endturn"}) /\ Done(<<>>, values) /\ UNCHANGED <<main_info, p_info>>
        /\ \/ toServer' = Append(toServer, Line("turn")) /\ execute_script' = FALSE
           \/ UNCHANGED <<toServer, execute_script>>
    BY <1>5 DEF SendTurn
  <2>2. Line("turn") \in ServerLine
    BY DEF Line, ServerLine
  <2>3. ToServerType'
    BY <2>1, <2>2, SentType DEF ToServerType, TypeOK
  <2>4. execute_script' \in BOOLEAN /\ (execute_script' => execute_script)
    <3>1. execute_script' = FALSE \/ execute_script' = execute_script
      BY <2>1
    <3>2. execute_script \in BOOLEAN
      BY DEF TypeOK, KnowsType
    <3>3. CASE execute_script' = FALSE
      BY <3>3
    <3>4. CASE execute_script' = execute_script
      BY <3>2, <3>4
    <3> QED BY <3>1, <3>3, <3>4
  <2> QED BY <2>1, <2>3, <2>4, SendingType, StackFacts, DoneType DEF TypeOK
<1> QED BY <1>1, <1>2, <1>3, <1>4, <1>5

\* One read of the bot: what is left is what was behind the k messages it found.
LEMMA ReadFacts ==
    ASSUME TypeOK, NEW type, Receive(type)
    PROVE  /\ toBot # <<>> /\ Head(toBot) \in BotLine /\ Head(toBot) = toBot[1]
           /\ Head(toBot).type = type /\ status = "running"
           /\ Len(toBot) \in Nat \ {0}
           /\ \E k \in 1..Len(toBot) :
                  /\ link = "prompt" => k = 1
                  /\ Len(toBot') = Len(toBot) - k
                  /\ \A i \in 1..(Len(toBot) - k) : toBot'[i] = toBot[i + k]
           /\ toBot' \in Seq(BotLine)
           /\ UNCHANGED <<machine, toServer, session, early>>
<1>1. /\ status = "running" /\ toBot # <<>> /\ Head(toBot).type = type
      /\ UNCHANGED <<machine, toServer, session, early>>
  BY DEF Receive
<1>2. PICK k \in 1..Len(toBot) :
         (link = "prompt" => k = 1) /\ toBot' = SubSeq(toBot, k + 1, Len(toBot))
  BY DEF Receive
<1>3. toBot \in Seq(BotLine) /\ Len(toBot) \in Nat \ {0} /\ Head(toBot) = toBot[1]
      /\ Head(toBot) \in BotLine
  BY <1>1 DEF TypeOK, ToBotType
<1>4. /\ toBot' \in Seq(BotLine) /\ Len(toBot') = Len(toBot) - k
      /\ \A i \in 1..(Len(toBot) - k) : toBot'[i] = toBot[i + k]
  <2>1. k + 1 \in 1..(Len(toBot) + 1) /\ Len(toBot) \in ((k + 1) - 1)..Len(toBot)
    BY <1>3
  <2>2. /\ toBot' \in Seq(BotLine) /\ Len(toBot') = Len(toBot) - (k + 1) + 1
        /\ \A i \in 1..(Len(toBot) - (k + 1) + 1) : toBot'[i] = toBot[(k + 1) + i - 1]
    BY <1>2, <1>3, <2>1, SubSeqProperties
  <2> QED BY <1>3, <2>2
<1> QED BY <1>1, <1>2, <1>3, <1>4

LEMMA ReadType ==
    ASSUME TypeOK, NEW type, Receive(type)
    PROVE  /\ MachineType' /\ ToBotType' /\ ToServerType' /\ SessionType'
           /\ Head(toBot) \in BotLine /\ Head(toBot).type = type
           /\ type # Opening => main_info.last \in Players
<1>1. /\ toBot # <<>> /\ Head(toBot) \in BotLine /\ Head(toBot) = toBot[1]
      /\ Head(toBot).type = type
  BY ReadFacts
<1>2. UNCHANGED <<program, cur_cmd, stack, values, ret_to_prev_cmd, toServer, month, ended, gone>>
  BY ReadFacts DEF machine, session
<1>3. MachineType' /\ ToServerType' /\ SessionType'
  <2>1. Element' = Element
    BY <1>2 DEF Element
  <2> QED BY <1>2, <2>1 DEF TypeOK, MachineType, ToServerType, SessionType
<1>4. ToBotType'
  <2>1. Len(toBot) \in Nat \ {0} /\ toBot' \in Seq(BotLine)
    BY ReadFacts
  <2>2. PICK k \in 1..Len(toBot) :
           /\ Len(toBot') = Len(toBot) - k
           /\ \A i \in 1..(Len(toBot) - k) : toBot'[i] = toBot[i + k]
    BY ReadFacts
  <2>3. ASSUME NEW i \in DOMAIN toBot'
        PROVE  toBot'[i].type # Opening
    <3>1. i \in 1..(Len(toBot) - k) /\ i + k \in DOMAIN toBot /\ i + k # 1
      BY <2>1, <2>2 DEF TypeOK, ToBotType
    <3> QED BY <2>2, <3>1 DEF TypeOK, ToBotType
  <2>4. BotLine' = BotLine
    BY DEF BotLine
  <2> QED BY <2>1, <2>3, <2>4 DEF ToBotType
<1>5. type # Opening => main_info.last \in Players
  BY <1>1 DEF TypeOK, KnowsType, Unread
<1> QED BY <1>1, <1>3, <1>4, <1>5

LEMMA ReadsType ==
    ASSUME TypeOK, BotReads
    PROVE  TypeOK'
<1> DEFINE Info == [turn : Int, price : Int, total : Int, alive : Int, last : Int]
           Record == [is : {"none", "known", "freed"}, raw : Int]
<1>1. /\ execute_script \in BOOLEAN /\ main_info \in Info /\ p_info \in [Players -> Record]
  BY DEF TypeOK, KnowsType
<1>2. ASSUME NEW type, Receive(type),
             execute_script' \in BOOLEAN, main_info' \in Info, main_info'.last \in Players,
             p_info' \in [Players -> Record]
      PROVE  TypeOK'
  BY <1>2, ReadType DEF TypeOK, KnowsType
<1>3. MyId \in Players /\ MaxPlayers \in Int /\ Players \subseteq Int /\ 1 \in 1..MaxMonth
  BY PlayerNumbers, BotAssumption
<1>4. CASE Starting
  <2>1. Receive(Opening) /\ Head(toBot) \in BotLine
    BY <1>4, ReadType DEF Starting, Opening
  <2>2. Stock(MyId, 1) \in Nat
    BY <1>3, BotAssumption
  <2>3. /\ main_info' = [turn |-> 1, price |-> Head(toBot).price,
                         total |-> MaxPlayers, alive |-> MaxPlayers, last |-> MyId]
        /\ p_info' = [p_info EXCEPT ![MyId] = [is |-> "known", raw |-> Stock(MyId, 1)]]
        /\ execute_script' = TRUE
    BY <1>4 DEF Starting
  <2>4. main_info' \in Info /\ main_info'.last = MyId
    BY <1>3, <2>1, <2>3 DEF BotLine
  <2>5. p_info' \in [Players -> Record]
    <3> DEFINE stock == Stock(MyId, 1)
    <3>1. stock \in Int /\ p_info' = [p_info EXCEPT ![MyId] = [is |-> "known", raw |-> stock]]
      BY <2>2, <2>3
    <3> HIDE DEF stock
    <3> QED BY <1>1, <3>1
  <2> HIDE DEF Info, Record
  <2> QED BY <1>2, <1>3, <2>1, <2>3, <2>4, <2>5
<1>5. CASE MonthBegins
  <2>1. Receive("NEW_TURN") /\ Head(toBot) \in BotLine /\ main_info.last \in Players
    BY <1>5, ReadType DEF MonthBegins, Opening
  <2>2. /\ main_info' = [main_info EXCEPT !.turn = Head(toBot).n, !.price = Head(toBot).price]
        /\ execute_script' = TRUE /\ p_info' = p_info
    BY <1>5 DEF MonthBegins
  <2>3. Head(toBot).n \in Int /\ Head(toBot).price \in Int
    BY <2>1 DEF BotLine
  <2>4. main_info' \in Info /\ main_info'.last \in Players
    BY <1>1, <2>1, <2>2, <2>3
  <2> HIDE DEF Info, Record
  <2> QED BY <1>1, <1>2, <2>1, <2>2, <2>4
<1>6. CASE PlayerCommand
  <2>1. /\ Receive("PLAYER_COMMAND") /\ Head(toBot) \in BotLine
        /\ Head(toBot).type = "PLAYER_COMMAND"
    BY <1>6, ReadType DEF PlayerCommand
  <2>2. Head(toBot).n \in Players /\ Head(toBot).price \in Int
    BY <2>1 DEF BotLine
  <2>3. /\ main_info' = [main_info EXCEPT !.last = Head(toBot).n]
        /\ p_info' = p_info \/
           p_info' = [p_info EXCEPT ![Head(toBot).n] = [is |-> "known", raw |-> Head(toBot).price]]
        /\ execute_script' = execute_script
    BY <1>6 DEF PlayerCommand
  <2>4. main_info' \in Info /\ main_info'.last \in Players
    BY <1>1, <1>3, <2>2, <2>3
  <2>5. p_info' \in [Players -> Record]
    BY <1>1, <2>2, <2>3
  <2>6. execute_script' \in BOOLEAN
    BY <1>1, <2>3
  <2> HIDE DEF Info, Record
  <2> QED BY <1>2, <2>1, <2>4, <2>5, <2>6
<1>7. CASE LostAlivePlayer
  <2> DEFINE q == Head(toBot).n
  <2>1. Receive("LOST_ALIVE_PLAYER") /\ main_info.last \in Players
    BY <1>7, ReadType DEF LostAlivePlayer, Opening
  <2>2. /\ main_info' = [main_info EXCEPT !.alive = @ - 1]
        /\ p_info' = p_info \/
           p_info' = [p_info EXCEPT ![q].is = IF @ = "none" THEN @ ELSE "freed"]
        /\ execute_script' = execute_script
    BY <1>7 DEF LostAlivePlayer
  <2> HIDE DEF q
  <2>3. main_info' \in Info /\ main_info'.last \in Players
    BY <1>1, <2>1, <2>2
  <2>4. p_info' \in [Players -> Record]
    BY <1>1, <2>2
  <2>5. execute_script' \in BOOLEAN
    BY <1>1, <2>2
  <2> HIDE DEF Info, Record
  <2> QED BY <1>2, <2>1, <2>3, <2>4, <2>5
<1>8. CASE AuctionResults
  <2>1. Receive("AUCTION_RESULTS") /\ main_info.last \in Players
    BY <1>8, ReadType DEF AuctionResults, Opening
  <2>2. UNCHANGED <<execute_script, main_info, p_info>>
    BY <1>8 DEF AuctionResults, knows
  <2>3. execute_script' \in BOOLEAN
    BY <1>1, <2>2
  <2> HIDE DEF Info, Record
  <2> QED BY <1>1, <1>2, <2>1, <2>2, <2>3
<1>9. CASE StopScript
  <2>1. PICK type \in Stopping : Receive(type)
    BY <1>9 DEF StopScript
  <2>2. main_info.last \in Players
    BY <2>1, ReadType DEF Opening, Stopping
  <2>3. execute_script' = FALSE /\ UNCHANGED <<main_info, p_info>>
    BY <1>9 DEF StopScript
  <2> HIDE DEF Info, Record
  <2> QED BY <1>1, <1>2, <2>1, <2>2, <2>3
<1> QED BY <1>4, <1>5, <1>6, <1>7, <1>8, <1>9 DEF BotReads

LEMMA EvaluateType == ASSUME TypeOK, Evaluate PROVE TypeOK'
BY MovesType, SaysType DEF Evaluate

-----------------------------------------------------------------------------
(* The lines of the server.                                                *)

\* All it says after the start of the game, and what of it does not resume the script.
AfterOpening == {l \in BotLine : l.type # Opening}
Plain        == {l \in AfterOpening : l.type # "NEW_TURN"}

LEMMA PlainAfterOpening == Plain \subseteq AfterOpening /\ AfterOpening \subseteq BotLine
BY DEF Plain, AfterOpening

LEMMA AnswerLines ==
    ASSUME TypeOK, NEW line \in ServerLine
    PROVE  Answered(line) \in Seq(Plain)
<1>1. ASSUME NEW type \in {"WAIT_FOR_NEXT_TURN", "TURN_COMMAND_SUCCESS"}
      PROVE  Line(type) \in Plain
  BY <1>1 DEF Line, Plain, AfterOpening, BotLine, Spoken, Stopping, Opening
<1>2. ASSUME line.n \in Present
      PROVE  [type |-> "PLAYER_COMMAND", n |-> line.n, price |-> Stock(line.n, month)] \in Plain
  <2>1. line.n \in Players /\ month \in 1..MaxMonth
    BY <1>2 DEF Present, TypeOK, SessionType
  <2> DEFINE stock == Stock(line.n, month)
  <2>2. stock \in Nat
    BY <2>1, BotAssumption
  <2> HIDE DEF stock
  <2>3. stock \in Int
    BY <2>2
  <2>5. line.n \in Nat
    BY <2>1, PlayerNumbers
  <2>4. [type |-> "PLAYER_COMMAND", n |-> line.n, price |-> stock] \in Plain
    BY <2>1, <2>3, <2>5 DEF Plain, AfterOpening, BotLine, Spoken, Opening
  <2> QED BY <2>4 DEF stock
<1> QED BY <1>1, <1>2 DEF Answered

LEMMA DepartureLine ==
    ASSUME NEW q \in Players, NEW alive
    PROVE  Departure(q, alive) \in Plain
<1>1. q \in Nat
  BY PlayerNumbers
<1> QED BY <1>1 DEF Departure, Line, LineOf, Plain, AfterOpening, BotLine, Spoken, Stopping, Opening

LEMMA NewTurnLine ==
    ASSUME NEW m \in 1..MaxMonth
    PROVE  NewTurn(m) \in AfterOpening
<1> DEFINE price == Price(m)
<1>1. price \in Int /\ m \in Nat
  BY BotAssumption
<1> HIDE DEF price
<1>2. [type |-> "NEW_TURN", n |-> m, price |-> price] \in AfterOpening
  BY <1>1 DEF AfterOpening, BotLine, Spoken, Opening
<1> QED BY <1>2 DEF NewTurn, price

\* The end of a month: the results, and then its leavers and the new month, or that
\* the bot is a bankrupt itself.
MonthLines(bankrots, quits) ==
    IF MyId \in bankrots THEN <<Line("PLAYER_BANKROT")>>
    ELSE [k \in DOMAIN quits |-> Departure(quits[k], Alive - k)] \o <<NewTurn(month + 1)>>

Results == LineOf("AUCTION_RESULTS", Ready)

LEMMA EndMonthFacts ==
    ASSUME TypeOK, EndMonth
    PROVE  \E bankrots \in SUBSET Present : \E quits \in [1..Cardinality(bankrots) -> bankrots] :
              /\ gone' = gone \cup bankrots /\ Cardinality(bankrots) \in Nat
              /\ toBot' = IF MyId \in gone THEN toBot
                          ELSE toBot \o <<Results>> \o MonthLines(bankrots, quits)
              /\ early' = (early \/ MyId \in Present \ ended)
              /\ month' = month + 1 /\ ended' = {} /\ month + 1 \in 1..MaxMonth
              /\ UNCHANGED <<machine, knows, status, link, toServer>>
<1>1. /\ month < MaxMonth /\ early' = (early \/ MyId \in Present \ ended)
      /\ month' = month + 1 /\ ended' = {}
      /\ UNCHANGED <<machine, knows, status, link, toServer>>
  BY DEF EndMonth, ServerOnly
<1> DEFINE Ends(bankrots, quits) ==
             /\ gone' = gone \cup bankrots
             /\ toBot' = IF MyId \in gone THEN toBot
                         ELSE toBot \o <<Results>> \o MonthLines(bankrots, quits)
<1>2. PICK bankrots \in SUBSET Present : \E quits \in Ascending(bankrots) : Ends(bankrots, quits)
  BY DEF EndMonth, Results, MonthLines
<1>6. PICK quits \in Ascending(bankrots) : Ends(bankrots, quits)
  BY <1>2
<1>3. quits \in [1..Cardinality(bankrots) -> bankrots]
  BY DEF Ascending
<1>4. month + 1 \in 1..MaxMonth
  BY <1>1, BotAssumption DEF TypeOK, SessionType
<1>5. Cardinality(bankrots) \in Nat
  BY PlayersFinite DEF Present
<1> QED BY <1>1, <1>3, <1>4, <1>5, <1>6

\* The lines that tell the bot of the bankrupts.
LEMMA LeaversLines ==
    ASSUME NEW bankrots \in SUBSET Players, NEW n \in Nat, NEW quits \in [1..n -> bankrots],
           NEW alive
    PROVE  [k \in DOMAIN quits |-> Departure(quits[k], alive - k)] \in Seq(Plain)
<1>1. \A k \in 1..n : Departure(quits[k], alive - k) \in Plain
  BY DepartureLine
<1>2. DOMAIN quits = 1..n
  OBVIOUS
<1> QED BY <1>1, <1>2

LEMMA MonthLinesType ==
    ASSUME TypeOK, NEW bankrots \in SUBSET Present, Cardinality(bankrots) \in Nat,
           NEW quits \in [1..Cardinality(bankrots) -> bankrots], month + 1 \in 1..MaxMonth
    PROVE  Results \in Plain /\ MonthLines(bankrots, quits) \in Seq(AfterOpening)
<1>1. Results \in Plain
  <2>1. Ready \in Nat
    BY PlayersFinite DEF TypeOK, SessionType, Ready
  <2> QED BY <2>1 DEF Results, LineOf, Plain, AfterOpening, BotLine, Spoken, Opening
<1>2. <<Line("PLAYER_BANKROT")>> \in Seq(AfterOpening)
  <2>1. Line("PLAYER_BANKROT") \in AfterOpening
    BY DEF Line, AfterOpening, BotLine, Spoken, Stopping, Opening
  <2> QED BY <2>1
<1>3. [k \in DOMAIN quits |-> Departure(quits[k], Alive - k)] \o <<NewTurn(month + 1)>> \in Seq(AfterOpening)
  <2> DEFINE leavers == [k \in DOMAIN quits |-> Departure(quits[k], Alive - k)]
             turn == NewTurn(month + 1)
  <2>1. leavers \in Seq(Plain)
    BY LeaversLines DEF Present
  <2>2. turn \in AfterOpening
    BY NewTurnLine
  <2> HIDE DEF leavers, turn
  <2>3. leavers \in Seq(AfterOpening)
    BY <2>1, PlainAfterOpening
  <2>4. leavers \o <<turn>> \in Seq(AfterOpening)
    BY <2>2, <2>3
  <2> QED BY <2>4 DEF leavers, turn
<1> QED BY <1>1, <1>2, <1>3 DEF MonthLines

\* A server that adds such lines, and leaves the bot as it is, keeps the types.
LEMMA AddedType ==
    ASSUME TypeOK, NEW more \in Seq(AfterOpening), toBot' = toBot \o more,
           UNCHANGED <<machine, knows>>, toServer' \in Seq(ServerLine), SessionType'
    PROVE  TypeOK'
<1>1. UNCHANGED <<program, cur_cmd, stack, values, ret_to_prev_cmd, execute_script, main_info, p_info>>
  BY DEF machine, knows
<1>2. MachineType'
  <2>1. Element' = Element
    BY <1>1 DEF Element
  <2> QED BY <1>1, <2>1 DEF TypeOK, MachineType
<1>3. toBot \in Seq(BotLine) /\ more \in Seq(BotLine)
  BY PlainAfterOpening DEF TypeOK, ToBotType
<1>4. ToBotType'
  <2>1. toBot' \in Seq(BotLine) /\ BotLine' = BotLine
    BY <1>3 DEF BotLine
  <2>2. ASSUME NEW i \in DOMAIN toBot', toBot'[i].type = Opening
        PROVE  i = 1
    <3>1. CASE i \in DOMAIN toBot
      <4>1. toBot'[i] = toBot[i]
        BY <1>3, <3>1
      <4> QED BY <2>2, <3>1, <4>1 DEF TypeOK, ToBotType
    <3>2. CASE i \notin DOMAIN toBot
      <4>1. i - Len(toBot) \in 1..Len(more) /\ toBot'[i] = more[i - Len(toBot)]
        BY <1>3, <3>2
      <4>2. more[i - Len(toBot)] \in AfterOpening
        BY <4>1
      <4> QED BY <2>2, <4>1, <4>2 DEF AfterOpening
    <3> QED BY <3>1, <3>2
  <2> QED BY <2>1, <2>2 DEF ToBotType
<1>5. Unread => Unread'
  BY <1>3 DEF Unread
<1>6. KnowsType'
  BY <1>1, <1>5 DEF TypeOK, KnowsType
<1>7. ToServerType'
  BY DEF ToServerType, ServerLine
<1> QED BY <1>2, <1>4, <1>6, <1>7 DEF TypeOK

LEMMA ServerType ==
    ASSUME TypeOK, Server
    PROVE  TypeOK'
<1>1. SessionType'
  BY SessionStep DEF TypeOK, Next
<1>2. toServer \in Seq(ServerLine)
  BY DEF TypeOK, ToServerType
<1>3. CASE ServerReads
  <2>1. PICK k \in 1..Len(toServer) : toServer' = SubSeq(toServer, k + 1, Len(toServer))
    BY <1>3 DEF ServerReads
  <2>2. toServer' \in Seq(ServerLine)
    <3>1. Len(toServer) \in Int /\ k + 1 \in Int /\ k + 1 >= 1
      BY <1>2
    <3>2. \A i \in (k + 1)..Len(toServer) : toServer[i] \in ServerLine
      BY <1>2, <3>1
    <3> QED BY <2>1, <3>1, <3>2, SubSeqProperties
  <2>3. Head(toServer) \in ServerLine
    BY <1>2, <1>3 DEF ServerReads
  <2>4. toBot' = toBot \o Answered(Head(toServer)) /\ UNCHANGED <<machine, knows>>
    BY <1>3 DEF ServerReads, ServerOnly
  <2>5. Answered(Head(toServer)) \in Seq(AfterOpening)
    BY <2>3, AnswerLines, PlainAfterOpening
  <2> QED BY <1>1, <2>2, <2>4, <2>5, AddedType
<1>4. ASSUME UNCHANGED <<machine, knows, lines>>
      PROVE  TypeOK'
  <2>1. toBot' = toBot \o <<>> /\ UNCHANGED toServer
    BY <1>4 DEF lines, TypeOK, ToBotType
  <2>2. <<>> \in Seq(AfterOpening)
    OBVIOUS
  <2> QED BY <1>1, <1>2, <1>4, <2>1, <2>2, AddedType
<1>5. CASE NextPass
  BY <1>4, <1>5 DEF NextPass, ServerOnly
<1>6. CASE EndMonth
  <2>1. PICK bankrots \in SUBSET Present :
          \E quits \in [1..Cardinality(bankrots) -> bankrots] :
              /\ gone' = gone \cup bankrots /\ Cardinality(bankrots) \in Nat
              /\ toBot' = IF MyId \in gone THEN toBot
                          ELSE toBot \o <<Results>> \o MonthLines(bankrots, quits)
              /\ month + 1 \in 1..MaxMonth
              /\ UNCHANGED <<machine, knows, toServer>>
    BY <1>6, EndMonthFacts
  <2>2. PICK quits \in [1..Cardinality(bankrots) -> bankrots] :
          /\ Cardinality(bankrots) \in Nat
          /\ toBot' = IF MyId \in gone THEN toBot
                      ELSE toBot \o <<Results>> \o MonthLines(bankrots, quits)
          /\ month + 1 \in 1..MaxMonth
          /\ UNCHANGED <<machine, knows, toServer>>
    BY <2>1
  <2>3. CASE MyId \in gone
    BY <1>4, <2>2, <2>3 DEF lines
  <2>4. CASE MyId \notin gone
    <3> DEFINE more == MonthLines(bankrots, quits)
    <3>1. Results \in AfterOpening /\ more \in Seq(AfterOpening)
      BY <2>2, MonthLinesType, PlainAfterOpening
    <3>2. toBot' = toBot \o <<Results>> \o more
      BY <2>2, <2>4
    <3> HIDE DEF more
    <3>3. toBot' = toBot \o (<<Results>> \o more)
      <4>1. toBot \in Seq(BotLine) /\ <<Results>> \in Seq(BotLine) /\ more \in Seq(BotLine)
        BY <3>1, PlainAfterOpening DEF TypeOK, ToBotType
      <4> QED BY <3>2, <4>1
    <3>4. <<Results>> \o more \in Seq(AfterOpening)
      BY <3>1, Pushed
    <3> QED BY <1>1, <1>2, <2>2, <3>3, <3>4, AddedType
  <2> QED BY <2>3, <2>4
<1>7. ASSUME NEW p \in Players, OtherTurns(p)
      PROVE  TypeOK'
  BY <1>4, <1>7 DEF OtherTurns, ServerOnly
<1>8. ASSUME NEW p \in Players, OtherLeaves(p)
      PROVE  TypeOK'
  <2>1. CASE MyId \in gone
    BY <1>4, <1>8, <2>1 DEF OtherLeaves, ServerOnly, lines
  <2>2. CASE MyId \notin gone
    <3> DEFINE line == Departure(p, Alive - 1)
    <3>1. toBot' = Append(toBot, line) /\ UNCHANGED <<machine, knows, toServer>>
      BY <1>8, <2>2 DEF OtherLeaves, ServerOnly
    <3>2. line \in AfterOpening
      BY DepartureLine, PlainAfterOpening
    <3> HIDE DEF line
    <3>3. toBot' = toBot \o <<line>> /\ <<line>> \in Seq(AfterOpening)
      BY <3>1, <3>2 DEF TypeOK, ToBotType
    <3> QED BY <1>1, <1>2, <3>1, <3>3, AddedType
  <2> QED BY <2>1, <2>2
<1> QED BY <1>3, <1>5, <1>6, <1>7, <1>8 DEF Server

LEMMA InitType == ASSUME Init PROVE TypeOK
<1>1. program \in Programs /\ cur_cmd = 1 /\ stack = <<>> /\ ret_to_prev_cmd = FALSE
      /\ values = [k \in 1..Len(program.names) |-> 0] /\ execute_script = FALSE
      /\ main_info = [turn |-> -1, price |-> -1, total |-> -1, alive |-> -1, last |-> -1]
      /\ p_info = [p \in Players |-> [is |-> "none", raw |-> 0]] /\ toServer = <<>>
  BY DEF Init
<1>2. MachineType
  <2>1. stack \in Seq(Element)
    BY <1>1
  <2>2. cur_cmd \in Nat \ {0} /\ values \in [1..Len(program.names) -> Int]
    BY <1>1
  <2>3. ret_to_prev_cmd \in BOOLEAN
    BY <1>1
  <2> QED BY <1>1, <2>1, <2>2, <2>3 DEF MachineType
<1>3. toBot \in Seq(BotLine) /\ Len(toBot) = 1 /\ toBot[1].type = Opening
  <2> DEFINE price == Price(1)
  <2>1. price \in Int
    BY BotAssumption
  <2>2. toBot = <<[type |-> Opening, n |-> 1, price |-> price]>>
    BY DEF Init, NewTurn, Opening
  <2> HIDE DEF price
  <2>3. [type |-> Opening, n |-> 1, price |-> price] \in BotLine
    BY <2>1 DEF BotLine, Spoken, Opening
  <2> QED BY <2>2, <2>3
<1>4. ToBotType /\ Unread
  <2>1. toBot # <<>> /\ \A i \in DOMAIN toBot : i = 1
    <3>1. toBot \in Seq(BotLine) /\ Len(toBot) = 1
      BY <1>3
    <3>2. DOMAIN toBot = 1..Len(toBot) /\ toBot # <<>>
      BY <3>1, LenProperties, EmptySeq
    <3>3. \A i \in 1..1 : i = 1
      OBVIOUS
    <3> QED BY <3>1, <3>2, <3>3
  <2> QED BY <1>3, <2>1 DEF ToBotType, Unread
<1>5. KnowsType
  <2>1. execute_script \in BOOLEAN /\ ~execute_script
    BY <1>1
  <2>2. main_info \in [turn : Int, price : Int, total : Int, alive : Int, last : Int]
    BY <1>1
  <2>3. p_info \in [Players -> [is : {"none", "known", "freed"}, raw : Int]]
    BY <1>1
  <2> QED BY <1>4, <2>1, <2>2, <2>3 DEF KnowsType
<1>6. ToServerType
  BY <1>1 DEF ToServerType
<1> QED BY <1>2, <1>4, <1>5, <1>6, SessionInit DEF TypeOK

LEMMA StepType == ASSUME TypeOK, [Next]_vars PROVE TypeOK'
<1>1. CASE UNCHANGED vars
  <2>1. UNCHANGED <<machine, knows, toServer, month, ended, gone, toBot>>
    BY <1>1 DEF vars, lines, session
  <2>2. toBot' = toBot \o <<>> /\ <<>> \in Seq(AfterOpening) /\ SessionType'
    BY <2>1 DEF TypeOK, ToBotType, SessionType
  <2> QED BY <2>1, <2>2, AddedType DEF TypeOK, ToServerType
<1> QED BY <1>1, ReadsType, EvaluateType, ServerType DEF Next

\* Whatever program the compiler made and whatever the server says in between, what
\* stands on the stack is an element of the compiler or a number, an address there is
\* one of a variable, the next element is one of the code or lies behind it, and once
\* the script runs the player last told of is a player (Evaluate of the elements in
\* PolizItem.cpp, bot_check_server_response).
THEOREM BotTypeCorrect == Spec => []TypeOK
<1>1. Init => TypeOK
  BY InitType
<1>2. TypeOK /\ [Next]_vars => TypeOK'
  BY StepType
<1> QED BY <1>1, <1>2, PTL DEF Spec

-----------------------------------------------------------------------------
(* Who plays.  A reading of the bot lags behind the session by the leavings  *)
(* that are still on their way: what it believes is those who play and the   *)
(* lost players it has yet to read of.                                       *)

LossesIn(s) == {i \in DOMAIN s : s[i].type = "LOST_ALIVE_PLAYER"}

\* The start of the game, while unread, will say that all play.
Believed == IF Unread THEN MaxPlayers ELSE main_info.alive

KInv ==
    link = "prompt" /\ status = "running" /\ MyId \in Present /\ Alive > 1 =>
        Believed = Alive + Cardinality(LossesIn(toBot))

LEMMA LossesFinite ==
    ASSUME NEW s, Len(s) \in Nat, DOMAIN s = 1..Len(s)
    PROVE  IsFiniteSet(LossesIn(s)) /\ Cardinality(LossesIn(s)) \in Nat
<1>1. IsFiniteSet(1..Len(s))
  BY FS_Interval
<1>2. LossesIn(s) \subseteq 1..Len(s)
  BY DEF LossesIn
<1> QED BY <1>1, <1>2, FS_Subset, FS_CardinalityType

\* What is lost in two sequences, one behind the other.
LEMMA LossesOfBoth ==
    ASSUME NEW s \in Seq(BotLine), NEW t \in Seq(BotLine)
    PROVE  Cardinality(LossesIn(s \o t)) = Cardinality(LossesIn(s)) + Cardinality(LossesIn(t))
<1> DEFINE n == Len(s)
           S == LossesIn(s)
           T == LossesIn(t)
           Shifted == {n + j : j \in T}
           shift == [j \in T |-> n + j]
<1>1. /\ n \in Nat /\ Len(t) \in Nat /\ DOMAIN s = 1..n /\ DOMAIN t = 1..Len(t)
      /\ s \o t \in Seq(BotLine) /\ DOMAIN (s \o t) = 1..(n + Len(t))
      /\ \A i \in 1..n : (s \o t)[i] = s[i]
      /\ \A j \in 1..Len(t) : (s \o t)[n + j] = t[j]
  OBVIOUS
<1>2. /\ IsFiniteSet(S) /\ IsFiniteSet(T) /\ Cardinality(S) \in Nat /\ Cardinality(T) \in Nat
      /\ S \subseteq 1..n /\ T \subseteq 1..Len(t)
  BY <1>1, LossesFinite DEF LossesIn
<1>3. LossesIn(s \o t) = S \cup Shifted
  <2>1. ASSUME NEW i \in LossesIn(s \o t)
        PROVE  i \in S \cup Shifted
    <3>1. i \in 1..(n + Len(t)) /\ (s \o t)[i].type = "LOST_ALIVE_PLAYER"
      BY <1>1, <2>1 DEF LossesIn
    <3>2. CASE i \in 1..n
      BY <1>1, <3>1, <3>2 DEF LossesIn
    <3>3. CASE i \notin 1..n
      <4>1. i - n \in 1..Len(t) /\ n + (i - n) = i
        BY <1>1, <3>1, <3>3
      <4>2. i - n \in T
        BY <1>1, <3>1, <4>1 DEF LossesIn
      <4> QED BY <4>1, <4>2
    <3> QED BY <3>2, <3>3
  <2>2. ASSUME NEW i \in S
        PROVE  i \in LossesIn(s \o t)
    BY <1>1, <2>2 DEF LossesIn
  <2>3. ASSUME NEW j \in T
        PROVE  n + j \in LossesIn(s \o t)
    <3>1. j \in 1..Len(t) /\ t[j].type = "LOST_ALIVE_PLAYER"
      BY <1>1, <2>3 DEF LossesIn
    <3>2. n + j \in 1..(n + Len(t)) /\ (s \o t)[n + j] = t[j]
      BY <1>1, <3>1
    <3> QED BY <1>1, <3>1, <3>2 DEF LossesIn
  <2> QED BY <2>1, <2>2, <2>3
<1> HIDE DEF S, T
<1>4. IsFiniteSet(Shifted) /\ Cardinality(Shifted) = Cardinality(T)
  <2>1. shift \in [T -> Shifted]
    BY <1>1, <1>2
  <2>2. ASSUME NEW i \in T, NEW j \in T, shift[i] = shift[j]
        PROVE  i = j
    <3>1. i \in Nat /\ j \in Nat /\ n + i = n + j
      BY <1>1, <1>2, <2>2
    <3> QED BY <1>1, <3>1
  <2>3. \A i \in Shifted : \E j \in T : shift[j] = i
    OBVIOUS
  <2>4. shift \in Injection(T, Shifted) /\ shift \in Surjection(T, Shifted)
    BY <2>1, <2>2, <2>3 DEF Injection, IsInjective, Surjection
  <2>5. shift \in Bijection(T, Shifted)
    BY <2>4 DEF Bijection
  <2> HIDE DEF shift, Shifted
  <2> QED BY <1>2, <2>5, FS_Bijection DEF ExistsBijection
<1>5. S \cap Shifted = {}
  <2>1. ASSUME NEW i \in Shifted
        PROVE  i \notin S
    <3>1. PICK j \in T : i = n + j
      OBVIOUS
    <3>2. j \in Nat \ {0} /\ n \in Nat
      BY <1>1, <1>2
    <3>3. i > n
      BY <3>1, <3>2
    <3> QED BY <1>1, <1>2, <3>3
  <2> QED BY <2>1
<1> HIDE DEF Shifted
<1>6. Cardinality(S \cup Shifted) = Cardinality(S) + Cardinality(Shifted) - Cardinality(S \cap Shifted)
  BY <1>2, <1>4, FS_Union
<1>7. Cardinality(LossesIn(s \o t)) = Cardinality(S) + Cardinality(T)
  <2>1. Cardinality(S \cap Shifted) = 0
    BY <1>5, FS_EmptySet
  <2>2. Cardinality(S \cup Shifted) = Cardinality(S) + Cardinality(T)
    BY <1>2, <1>4, <1>6, <2>1
  <2>3. LossesIn(s \o t) = S \cup Shifted
    BY <1>3
  <2> QED BY <2>2, <2>3
<1> QED BY <1>7 DEF S, T

\* One line, and lines that are all losses.
LEMMA LossesOfOne ==
    ASSUME NEW line \in BotLine
    PROVE  Cardinality(LossesIn(<<line>>)) = IF line.type = "LOST_ALIVE_PLAYER" THEN 1 ELSE 0
<1>1. LossesIn(<<line>>) = IF line.type = "LOST_ALIVE_PLAYER" THEN {1} ELSE {}
  BY DEF LossesIn
<1> QED BY <1>1, FS_Singleton, FS_EmptySet

LEMMA LossesOfAll ==
    ASSUME NEW n \in Nat, NEW s, DOMAIN s = 1..n,
           \A k \in 1..n : s[k].type = "LOST_ALIVE_PLAYER"
    PROVE  Cardinality(LossesIn(s)) = n
<1>1. LossesIn(s) = 1..n
  BY DEF LossesIn
<1>2. Cardinality(1..n) = n
  BY FS_Interval
<1> QED BY <1>1, <1>2

LEMMA AliveLess ==
    ASSUME SessionType, NEW Q \in SUBSET Present, gone' = gone \cup Q
    PROVE  /\ Alive' = Alive - Cardinality(Q)
           /\ Alive \in Nat /\ Alive' \in Nat /\ Cardinality(Q) \in Nat
           /\ Present' = Present \ Q
<1>1. Present' = Present \ Q /\ Present \subseteq Players
  BY DEF Present
<1>2. IsFiniteSet(Present) /\ IsFiniteSet(Q) /\ Cardinality(Q) \in Nat /\ Alive \in Nat
  BY <1>1, PlayersFinite DEF Alive
<1>3. Cardinality(Present \ Q) = Cardinality(Present) - Cardinality(Present \cap Q)
      /\ Present \cap Q = Q
  BY <1>2, FS_Difference
<1>4. Cardinality(Present \ Q) \in Nat
  BY <1>1, PlayersFinite
<1> QED BY <1>1, <1>2, <1>3, <1>4 DEF Alive

\* One message read: the rest is what it believed, but for a loss that it was.
LEMMA LossesRead ==
    ASSUME TypeOK, NEW type, Receive(type), link = "prompt"
    PROVE  /\ ~Unread' /\ (Unread <=> type = Opening)
           /\ Cardinality(LossesIn(toBot')) \in Nat
           /\ Cardinality(LossesIn(toBot)) =
                 Cardinality(LossesIn(toBot')) + (IF type = "LOST_ALIVE_PLAYER" THEN 1 ELSE 0)
<1> DEFINE h == Head(toBot)
<1>1. /\ toBot # <<>> /\ h \in BotLine /\ h = toBot[1] /\ h.type = type
      /\ Len(toBot) \in Nat \ {0} /\ toBot' \in Seq(BotLine)
  BY ReadFacts
<1>2. Len(toBot') = Len(toBot) - 1 /\ \A i \in 1..(Len(toBot) - 1) : toBot'[i] = toBot[i + 1]
  BY ReadFacts
<1>3. toBot \in Seq(BotLine) /\ \A i \in DOMAIN toBot : toBot[i].type = Opening => i = 1
  BY DEF TypeOK, ToBotType
<1> HIDE DEF h
<1>4. toBot = <<h>> \o toBot'
  <2> DEFINE w == <<h>> \o toBot'
  <2>1. w \in Seq(BotLine) /\ Len(w) = Len(toBot)
    BY <1>1, <1>2
  <2>2. ASSUME NEW i \in 1..Len(toBot)
        PROVE  w[i] = toBot[i]
    <3>1. w[1] = h
      BY <1>1
    <3>2. CASE i # 1
      <4>1. i - 1 \in 1..(Len(toBot) - 1) /\ i - 1 + 1 = i
        BY <1>1, <3>2
      <4>2. w[i] = toBot'[i - 1]
        BY <1>1, <1>2, <4>1
      <4> QED BY <1>2, <4>1, <4>2
    <3> QED BY <1>1, <3>1, <3>2
  <2> HIDE DEF w
  <2>3. w = toBot
    BY <1>3, <2>1, <2>2, SeqEqual
  <2> QED BY <2>3 DEF w
<1>5. Cardinality(LossesIn(<<h>> \o toBot')) =
         Cardinality(LossesIn(<<h>>)) + Cardinality(LossesIn(toBot'))
  <2>1. <<h>> \in Seq(BotLine)
    BY <1>1
  <2> QED BY <1>1, <2>1, LossesOfBoth
<1>6. Cardinality(LossesIn(<<h>>)) = IF type = "LOST_ALIVE_PLAYER" THEN 1 ELSE 0
  BY <1>1, LossesOfOne
<1>7. Cardinality(LossesIn(toBot')) \in Nat
  BY <1>1, LossesFinite
<1>8. Unread <=> type = Opening
  BY <1>1 DEF Unread
<1>9. ~Unread'
  <2> SUFFICES ASSUME toBot' # <<>> PROVE toBot'[1].type # Opening
    BY DEF Unread
  <2>1. 1 \in 1..(Len(toBot) - 1) /\ 2 \in DOMAIN toBot
    BY <1>1, <1>2, <1>3
  <2> QED BY <1>2, <1>3, <2>1
<1> QED BY <1>4, <1>5, <1>6, <1>7, <1>8, <1>9

\* Lines added: the start stays unread, and the losses among them are to be read.
LEMMA LossesAdded ==
    ASSUME TypeOK, NEW more \in Seq(AfterOpening), toBot' = toBot \o more, UNCHANGED main_info
    PROVE  /\ Believed' = Believed
           /\ Cardinality(LossesIn(toBot')) =
                 Cardinality(LossesIn(toBot)) + Cardinality(LossesIn(more))
<1>1. toBot \in Seq(BotLine) /\ more \in Seq(BotLine)
  BY PlainAfterOpening DEF TypeOK, ToBotType
<1>2. Cardinality(LossesIn(toBot \o more)) =
         Cardinality(LossesIn(toBot)) + Cardinality(LossesIn(more))
  BY <1>1, LossesOfBoth
<1>3. Unread' <=> Unread
  <2>1. CASE toBot = <<>>
    <3>1. toBot' = more
      BY <1>1, <2>1
    <3>2. ~Unread'
      BY <3>1, Popped DEF Unread, AfterOpening
    <3> QED BY <2>1, <3>2 DEF Unread
  <2>2. CASE toBot # <<>>
    <3>1. toBot' # <<>> /\ toBot'[1] = toBot[1]
      BY <1>1, <2>2
    <3> QED BY <2>2, <3>1 DEF Unread
  <2> QED BY <2>1, <2>2
<1> QED BY <1>2, <1>3 DEF Believed

LEMMA NoLosses ==
    ASSUME NEW s, \A i \in DOMAIN s : s[i].type # "LOST_ALIVE_PLAYER"
    PROVE  Cardinality(LossesIn(s)) = 0
<1>1. LossesIn(s) = {}
  BY DEF LossesIn
<1> QED BY <1>1, FS_EmptySet

LEMMA EvaluateFacts ==
    ASSUME Evaluate
    PROVE  status = "running" /\ execute_script /\ UNCHANGED <<toBot, session, early, main_info, p_info>>
BY DEF Evaluate, PushConst, OpGo, OpIfThen, Assign, Arithmetic, SimpleFunction, Question,
       Answer, PrintStack, Unused, SendOffer, SendWork, SendTurn, Evaluating, Quiet, Terminate, knows

LEMMA KInvReads ==
    ASSUME TypeOK, KInv, BotReads
    PROVE  KInv'
<1>1. SUFFICES ASSUME link' = "prompt", status' = "running", MyId \in Present', Alive' > 1
               PROVE  Believed' = Alive' + Cardinality(LossesIn(toBot'))
  BY DEF KInv
<1>2. PICK type \in Spoken :
         /\ Receive(type)
         /\ type = Opening => main_info'.alive = MaxPlayers
         /\ type = "LOST_ALIVE_PLAYER" => main_info'.alive = main_info.alive - 1
         /\ type \notin {Opening, "LOST_ALIVE_PLAYER"} => main_info'.alive = main_info.alive
  <2>1. main_info \in [turn : Int, price : Int, total : Int, alive : Int, last : Int]
    BY DEF TypeOK, KnowsType
  <2>2. CASE Starting
    BY <2>2 DEF Starting, Spoken, Opening
  <2>3. CASE MonthBegins
    BY <2>1, <2>3 DEF MonthBegins, Spoken, Opening
  <2>4. CASE PlayerCommand
    BY <2>1, <2>4 DEF PlayerCommand, Spoken, Opening
  <2>5. CASE LostAlivePlayer
    BY <2>1, <2>5 DEF LostAlivePlayer, Spoken, Opening
  <2>6. CASE AuctionResults
    BY <2>6 DEF AuctionResults, knows, Spoken, Opening
  <2>7. CASE StopScript
    BY <2>7 DEF StopScript, Stopping, Spoken, Opening
  <2> QED BY <2>2, <2>3, <2>4, <2>5, <2>6, <2>7 DEF BotReads
<1>3. status = "running" /\ UNCHANGED session
  BY <1>2, ReadFacts
<1>4. link = "prompt" /\ MyId \in Present /\ Alive > 1 /\ Alive' = Alive
  BY <1>1, <1>3 DEF session, Present, Alive
<1>5. Believed = Alive + Cardinality(LossesIn(toBot))
  BY <1>3, <1>4 DEF KInv
<1>6. /\ ~Unread' /\ (Unread <=> type = Opening) /\ Cardinality(LossesIn(toBot')) \in Nat
      /\ Cardinality(LossesIn(toBot)) =
            Cardinality(LossesIn(toBot')) + (IF type = "LOST_ALIVE_PLAYER" THEN 1 ELSE 0)
  BY <1>2, <1>4, LossesRead
<1>7. main_info.alive \in Int /\ Alive \in Nat
  BY PlayersFinite DEF TypeOK, KnowsType, SessionType, Alive, Present
<1>8. Believed' = main_info'.alive
  BY <1>6 DEF Believed
<1>9. CASE type = Opening
  BY <1>2, <1>4, <1>5, <1>6, <1>8, <1>9 DEF Believed, Opening
<1>10. CASE type # Opening
  <2>1. Believed = main_info.alive
    BY <1>6, <1>10 DEF Believed
  <2> QED BY <1>2, <1>4, <1>5, <1>6, <1>7, <1>8, <1>10, <2>1
<1> QED BY <1>9, <1>10

\* What the server adds, a loss for everyone who leaves, if there is to be told of it.
LEMMA KInvAdded ==
    ASSUME TypeOK, KInv, UNCHANGED <<main_info, status, link>>,
           NEW Q \in SUBSET Present, gone' = gone \cup Q,
           NEW more \in Seq(AfterOpening), toBot' = toBot \o more,
           Alive' > 1 => Cardinality(LossesIn(more)) = Cardinality(Q)
    PROVE  KInv'
<1>1. /\ Alive' = Alive - Cardinality(Q) /\ Alive \in Nat /\ Alive' \in Nat
      /\ Cardinality(Q) \in Nat /\ Present' = Present \ Q
  BY AliveLess DEF TypeOK
<1>2. /\ Believed' = Believed
      /\ Cardinality(LossesIn(toBot')) =
            Cardinality(LossesIn(toBot)) + Cardinality(LossesIn(more))
  BY LossesAdded
<1>3. Cardinality(LossesIn(toBot)) \in Nat
  BY LossesFinite DEF TypeOK, ToBotType
<1>4. SUFFICES ASSUME link' = "prompt", status' = "running", MyId \in Present', Alive' > 1
               PROVE  Believed' = Alive' + Cardinality(LossesIn(toBot'))
  BY DEF KInv
<1>5. link = "prompt" /\ status = "running" /\ MyId \in Present /\ Alive > 1
  BY <1>1, <1>4
<1>6. Believed = Alive + Cardinality(LossesIn(toBot))
  BY <1>5 DEF KInv
<1>7. Cardinality(LossesIn(more)) = Cardinality(Q)
  BY <1>4
<1> QED BY <1>1, <1>2, <1>3, <1>6, <1>7

\* A bot that has left is told nothing more, and nothing is asked of it.
LEMMA KInvGone ==
    ASSUME TypeOK, MyId \in gone, gone \subseteq gone'
    PROVE  KInv'
BY DEF KInv, Present

LEMMA AnswersNoLosses ==
    ASSUME NEW line, NEW i \in DOMAIN Answered(line)
    PROVE  Answered(line)[i].type # "LOST_ALIVE_PLAYER"
BY DEF Answered, Line

\* The bankrupts of a month's end are told one by one while more than one stays.
LEMMA MonthLosses ==
    ASSUME TypeOK, NEW bankrots \in SUBSET Present, Cardinality(bankrots) \in Nat,
           NEW quits \in [1..Cardinality(bankrots) -> bankrots], month + 1 \in 1..MaxMonth,
           MyId \notin bankrots, Alive - Cardinality(bankrots) > 1
    PROVE  Cardinality(LossesIn(<<Results>> \o MonthLines(bankrots, quits))) = Cardinality(bankrots)
<1> DEFINE n == Cardinality(bankrots)
           leavers == [k \in DOMAIN quits |-> Departure(quits[k], Alive - k)]
           turn == NewTurn(month + 1)
<1>1. n \in Nat /\ Alive \in Nat
  BY PlayersFinite DEF TypeOK, SessionType, Alive, Present
<1>2. leavers \in Seq(BotLine) /\ DOMAIN leavers = 1..n
  <2>1. bankrots \in SUBSET Players
    BY DEF Present
  <2>2. leavers \in Seq(Plain)
    BY <1>1, <2>1, LeaversLines
  <2>3. DOMAIN leavers = 1..n
    OBVIOUS
  <2> HIDE DEF leavers
  <2> QED BY <2>2, <2>3, PlainAfterOpening
<1>3. \A k \in 1..n : leavers[k].type = "LOST_ALIVE_PLAYER"
  <2> SUFFICES ASSUME NEW k \in 1..n PROVE leavers[k].type = "LOST_ALIVE_PLAYER"
    OBVIOUS
  <2>1. ~(Alive - k <= 1) /\ leavers[k] = Departure(quits[k], Alive - k)
    BY <1>1
  <2> QED BY <2>1 DEF Departure, LineOf
<1>4. Results \in BotLine /\ turn \in BotLine
  BY MonthLinesType, NewTurnLine, PlainAfterOpening
<1>5. Results.type = "AUCTION_RESULTS" /\ turn.type = "NEW_TURN"
  BY DEF Results, LineOf, NewTurn
<1>6. MonthLines(bankrots, quits) = leavers \o <<turn>>
  BY DEF MonthLines
<1> HIDE DEF n, leavers, turn
<1>7. Cardinality(LossesIn(leavers)) = n
  BY <1>1, <1>2, <1>3, LossesOfAll
<1>8. Cardinality(LossesIn(<<Results>>)) = 0 /\ Cardinality(LossesIn(<<turn>>)) = 0
  BY <1>4, <1>5, LossesOfOne
<1>9. Cardinality(LossesIn(leavers \o <<turn>>)) = n
  <2>1. <<turn>> \in Seq(BotLine)
    BY <1>4
  <2>2. Cardinality(LossesIn(leavers \o <<turn>>)) =
           Cardinality(LossesIn(leavers)) + Cardinality(LossesIn(<<turn>>))
    BY <1>2, <2>1, LossesOfBoth
  <2> QED BY <1>1, <1>7, <1>8, <2>2
<1>10. Cardinality(LossesIn(<<Results>> \o (leavers \o <<turn>>))) = n
  <2>1. <<Results>> \in Seq(BotLine) /\ leavers \o <<turn>> \in Seq(BotLine)
    BY <1>2, <1>4
  <2>2. Cardinality(LossesIn(<<Results>> \o (leavers \o <<turn>>))) =
           Cardinality(LossesIn(<<Results>>)) + Cardinality(LossesIn(leavers \o <<turn>>))
    BY <2>1, LossesOfBoth
  <2> QED BY <1>1, <1>8, <1>9, <2>2
<1> QED BY <1>6, <1>10 DEF n

LEMMA KInvServer ==
    ASSUME TypeOK, KInv, Server
    PROVE  KInv'
<1> toBot \in Seq(BotLine)
  BY DEF TypeOK, ToBotType
<1>1. ASSUME UNCHANGED <<main_info, status, link, gone, toBot>>
      PROVE  KInv'
  BY <1>1 DEF KInv, Believed, Unread, Present, Alive
<1>2. UNCHANGED <<main_info, status, link>>
  BY DEF Server, ServerReads, NextPass, EndMonth, OtherTurns, OtherLeaves, ServerOnly, knows
<1>3. CASE ServerReads
  <2> DEFINE more == Answered(Head(toServer))
  <2>1. toBot' = toBot \o more /\ gone' = gone \cup {} /\ toServer # <<>>
    BY <1>3 DEF ServerReads
  <2>2. more \in Seq(AfterOpening)
    <3>1. Head(toServer) \in ServerLine
      BY <2>1 DEF TypeOK, ToServerType
    <3> QED BY <3>1, AnswerLines, PlainAfterOpening
  <2>3. Cardinality(LossesIn(more)) = 0
    BY AnswersNoLosses, NoLosses
  <2>4. Cardinality({}) = 0
    BY FS_EmptySet
  <2> HIDE DEF more
  <2> QED BY <1>2, <2>1, <2>2, <2>3, <2>4, KInvAdded
<1>4. CASE NextPass
  BY <1>1, <1>2, <1>4 DEF NextPass, lines
<1>5. CASE EndMonth
  <2>1. PICK bankrots \in SUBSET Present :
          \E quits \in [1..Cardinality(bankrots) -> bankrots] :
              /\ gone' = gone \cup bankrots /\ Cardinality(bankrots) \in Nat
              /\ toBot' = IF MyId \in gone THEN toBot
                          ELSE toBot \o <<Results>> \o MonthLines(bankrots, quits)
              /\ month + 1 \in 1..MaxMonth
    BY <1>5, EndMonthFacts
  <2>2. PICK quits \in [1..Cardinality(bankrots) -> bankrots] :
          /\ gone' = gone \cup bankrots /\ Cardinality(bankrots) \in Nat
          /\ toBot' = IF MyId \in gone THEN toBot
                      ELSE toBot \o <<Results>> \o MonthLines(bankrots, quits)
          /\ month + 1 \in 1..MaxMonth
    BY <2>1
  <2>3. CASE MyId \in gone
    BY <2>2, <2>3, KInvGone
  <2>4. CASE MyId \in bankrots
    BY <2>2, <2>4 DEF KInv, Present
  <2>5. CASE MyId \notin gone \cup bankrots
    <3> DEFINE more == MonthLines(bankrots, quits)
    <3>1. Results \in AfterOpening /\ more \in Seq(AfterOpening)
      BY <2>2, MonthLinesType, PlainAfterOpening
    <3>2. toBot' = toBot \o <<Results>> \o more
      BY <2>2, <2>5
    <3>3. Alive' = Alive - Cardinality(bankrots)
      BY <2>2, AliveLess DEF TypeOK
    <3>4. Alive' > 1 => Cardinality(LossesIn(<<Results>> \o more)) = Cardinality(bankrots)
      BY <2>2, <2>5, <3>3, MonthLosses
    <3> HIDE DEF more
    <3>5. toBot' = toBot \o (<<Results>> \o more)
      <4>1. <<Results>> \in Seq(BotLine) /\ more \in Seq(BotLine)
        BY <3>1, PlainAfterOpening
      <4> QED BY <3>2, <4>1
    <3>6. <<Results>> \o more \in Seq(AfterOpening)
      BY <3>1, Pushed
    <3> QED BY <1>2, <2>2, <3>4, <3>5, <3>6, KInvAdded
  <2> QED BY <2>3, <2>4, <2>5
<1>6. ASSUME NEW p \in Players, OtherTurns(p)
      PROVE  KInv'
  BY <1>1, <1>2, <1>6 DEF OtherTurns, lines
<1>7. ASSUME NEW p \in Players, OtherLeaves(p)
      PROVE  KInv'
  <2>1. p \in Present /\ gone' = gone \cup {p}
    BY <1>7 DEF OtherLeaves
  <2>2. CASE MyId \in gone
    BY <2>1, <2>2, KInvGone
  <2>3. CASE MyId \notin gone
    <3> DEFINE line == Departure(p, Alive - 1)
    <3>1. toBot' = Append(toBot, line)
      BY <1>7, <2>3 DEF OtherLeaves
    <3>2. line \in AfterOpening /\ Cardinality({p}) = 1
      BY DepartureLine, PlainAfterOpening, FS_Singleton
    <3>3. Alive' = Alive - 1
      BY <2>1, <3>2, AliveLess DEF TypeOK
    <3>4. Alive' > 1 => Cardinality(LossesIn(<<line>>)) = 1
      <4>1. Alive' > 1 => line.type = "LOST_ALIVE_PLAYER"
        BY <3>3 DEF Departure, LineOf
      <4> QED BY <3>2, <4>1, LossesOfOne, PlainAfterOpening
    <3> HIDE DEF line
    <3>5. toBot' = toBot \o <<line>> /\ <<line>> \in Seq(AfterOpening)
      BY <3>1, <3>2
    <3> QED BY <1>2, <2>1, <3>2, <3>4, <3>5, KInvAdded
  <2> QED BY <2>2, <2>3
<1> QED BY <1>3, <1>4, <1>5, <1>6, <1>7 DEF Server

LEMMA KInvStep == ASSUME TypeOK, KInv, [Next]_vars PROVE KInv'
<1>1. CASE Evaluate
  <2>1. status = "running" /\ UNCHANGED <<toBot, main_info, link, gone>>
    BY <1>1, EvaluateFacts DEF session
  <2> QED BY <2>1 DEF KInv, Believed, Unread, Present, Alive
<1>2. CASE UNCHANGED vars
  <2>1. UNCHANGED <<toBot, main_info, link, gone, status>>
    BY <1>2 DEF vars, knows, session, lines
  <2> QED BY <2>1 DEF KInv, Believed, Unread, Present, Alive
<1> QED BY <1>1, <1>2, KInvReads, KInvServer DEF Next

LEMMA KInvInit == ASSUME Init PROVE KInv
<1>1. toBot = <<[NewTurn(1) EXCEPT !.type = "STARTING_GAME_INFORMATION"]>> /\ gone = {}
  BY DEF Init
<1>2. toBot[1].type = Opening /\ toBot # <<>>
  BY <1>1 DEF NewTurn, Opening
<1>3. LossesIn(toBot) = {}
  BY <1>1 DEF LossesIn, NewTurn
<1>4. Alive = MaxPlayers
  <2>1. Present = 1..MaxPlayers /\ MaxPlayers \in Nat
    BY <1>1, BotAssumption DEF Present, Players
  <2>2. Cardinality(1..MaxPlayers) = MaxPlayers
    BY <2>1, FS_Interval
  <2> QED BY <2>1, <2>2 DEF Alive
<1>5. Believed = MaxPlayers /\ Cardinality(LossesIn(toBot)) = 0 /\ MaxPlayers \in Nat
  BY <1>2, <1>3, FS_EmptySet, BotAssumption DEF Believed, Unread
<1> QED BY <1>4, <1>5 DEF KInv

\* A bot that has read all it was told knows how many play, whatever the order of the
\* leavings, the bankruptcies and its own reads: ?active_players is the server's
\* alive_players (bot_check_server_response, MulticastActionsExec::LostAlivePlayer).
THEOREM BotKnowsWhoPlays == Spec => []KnowsWhoPlays
<1>1. Init => TypeOK /\ KInv
  BY InitType, KInvInit
<1>2. TypeOK /\ KInv /\ [Next]_vars => (TypeOK /\ KInv)'
  BY StepType, KInvStep
<1>3. TypeOK /\ KInv => KnowsWhoPlays
  <2> SUFFICES ASSUME TypeOK, KInv, link = "prompt", toBot = <<>>, status = "running",
                      MyId \in Present, Alive > 1
               PROVE  main_info.alive = Alive
    BY DEF KnowsWhoPlays
  <2>1. Believed = Alive + Cardinality(LossesIn(toBot)) /\ Believed = main_info.alive
    BY DEF KInv, Believed, Unread
  <2>2. Cardinality(LossesIn(toBot)) = 0
    BY NoLosses
  <2>3. Alive \in Nat
    BY PlayersFinite DEF TypeOK, SessionType, Alive, Present
  <2> QED BY <2>1, <2>2, <2>3
<1> QED BY <1>1, <1>2, <1>3, PTL DEF Spec

-----------------------------------------------------------------------------
(* Script and session in step.  While the script runs nothing that resumes it *)
(* is on its way and the turn is still the bot's; a "turn" sent is the last   *)
(* line behind it, so that the read that takes it takes them all.             *)

ResumesIn(s) == {i \in DOMAIN s : s[i].type \in {"NEW_TURN", "STARTING_GAME_INFORMATION"}}
TurnsIn(s)   == {i \in DOMAIN s : s[i].type = "turn"}

\* The turn is sent, or counted.
TurnOver == TurnsIn(toServer) # {} \/ MyId \in ended

InStep ==
    ~early =>
        /\ \A i, j \in ResumesIn(toBot) : i = j
        /\ execute_script => ResumesIn(toBot) = {}
        /\ TurnOver => ~execute_script /\ ResumesIn(toBot) = {}
        /\ \A i \in TurnsIn(toServer) : i = Len(toServer)
        /\ MyId \in ended => toServer = <<>>

\* A read leaves of what resumes what was behind it.
LEMMA ResumesRead ==
    ASSUME TypeOK, NEW type, Receive(type), \A i, j \in ResumesIn(toBot) : i = j
    PROVE  /\ \A i, j \in ResumesIn(toBot') : i = j
           /\ ResumesIn(toBot) = {} => ResumesIn(toBot') = {}
           /\ type \in {"NEW_TURN", Opening} =>
                  ResumesIn(toBot') = {} /\ ResumesIn(toBot) # {}
<1>1. /\ toBot \in Seq(BotLine) /\ toBot' \in Seq(BotLine) /\ toBot # <<>>
      /\ Len(toBot) \in Nat \ {0} /\ toBot[1].type = type
  BY ReadFacts DEF TypeOK, ToBotType
<1>2. PICK k \in 1..Len(toBot) :
         /\ Len(toBot') = Len(toBot) - k
         /\ \A i \in 1..(Len(toBot) - k) : toBot'[i] = toBot[i + k]
  BY ReadFacts
<1>3. ASSUME NEW i \in ResumesIn(toBot')
      PROVE  i + k \in ResumesIn(toBot) /\ i \in Nat \ {0}
  <2>1. i \in 1..(Len(toBot) - k) /\ toBot'[i].type \in {"NEW_TURN", "STARTING_GAME_INFORMATION"}
    BY <1>1, <1>2, <1>3 DEF ResumesIn
  <2>2. i + k \in DOMAIN toBot /\ toBot'[i] = toBot[i + k]
    BY <1>1, <1>2, <2>1
  <2> QED BY <2>1, <2>2 DEF ResumesIn
<1>4. ASSUME NEW i \in ResumesIn(toBot'), NEW j \in ResumesIn(toBot')
      PROVE  i = j
  <2>1. i + k = j + k /\ i \in Nat /\ j \in Nat
    BY <1>3
  <2> QED BY <2>1
<1>5. ASSUME type \in {"NEW_TURN", Opening}
      PROVE  1 \in ResumesIn(toBot) /\ ResumesIn(toBot') = {}
  <2>1. 1 \in ResumesIn(toBot)
    BY <1>1, <1>5 DEF ResumesIn, Opening
  <2>2. ASSUME NEW i \in ResumesIn(toBot')
        PROVE  FALSE
    <3>1. i + k = 1 /\ i \in Nat \ {0} /\ k \in Nat \ {0}
      BY <1>1, <1>3, <2>1
    <3> QED BY <3>1
  <2> QED BY <2>1, <2>2
<1> QED BY <1>3, <1>4, <1>5

\* Lines added that resume nothing, and one behind them that may.
LEMMA ResumesAdded ==
    ASSUME NEW s \in Seq(BotLine), NEW more \in Seq(Plain)
    PROVE  ResumesIn(s \o more) = ResumesIn(s)
<1>1. /\ more \in Seq(BotLine)
      /\ \A i \in 1..Len(more) :
             more[i].type \notin {"NEW_TURN", "STARTING_GAME_INFORMATION"}
  <2>1. \A i \in 1..Len(more) : more[i] \in Plain
    BY ElementOfSeq
  <2> QED BY <2>1, PlainAfterOpening DEF Plain, AfterOpening, Opening
<1>2. /\ Len(s) \in Nat /\ Len(more) \in Nat /\ DOMAIN s = 1..Len(s)
      /\ DOMAIN (s \o more) = 1..(Len(s) + Len(more))
      /\ \A i \in 1..Len(s) : (s \o more)[i] = s[i]
      /\ \A i \in 1..(Len(s) + Len(more)) :
             i > Len(s) => i - Len(s) \in 1..Len(more) /\ (s \o more)[i] = more[i - Len(s)]
  BY <1>1
<1>3. ASSUME NEW i \in ResumesIn(s \o more)
      PROVE  i \in ResumesIn(s)
  <2>1. i \in 1..(Len(s) + Len(more))
        /\ (s \o more)[i].type \in {"NEW_TURN", "STARTING_GAME_INFORMATION"}
    BY <1>2, <1>3 DEF ResumesIn
  <2>2. ~(i > Len(s))
    BY <1>1, <1>2, <2>1
  <2>3. i \in 1..Len(s)
    BY <1>2, <2>1, <2>2
  <2> QED BY <1>2, <2>1, <2>3 DEF ResumesIn
<1>4. ASSUME NEW i \in ResumesIn(s)
      PROVE  i \in ResumesIn(s \o more)
  <2>1. i \in 1..Len(s) /\ i \in 1..(Len(s) + Len(more))
    BY <1>2, <1>4 DEF ResumesIn
  <2> QED BY <1>2, <1>4, <2>1 DEF ResumesIn
<1> QED BY <1>3, <1>4

LEMMA ResumesOneAdded ==
    ASSUME NEW s \in Seq(BotLine), ResumesIn(s) = {}, NEW line \in BotLine
    PROVE  \A i, j \in ResumesIn(s \o <<line>>) : i = j
<1>1. /\ Len(s) \in Nat /\ DOMAIN s = 1..Len(s)
      /\ DOMAIN (s \o <<line>>) = 1..(Len(s) + 1)
      /\ \A i \in 1..Len(s) : (s \o <<line>>)[i] = s[i]
  OBVIOUS
<1>2. ASSUME NEW i \in ResumesIn(s \o <<line>>)
      PROVE  i = Len(s) + 1
  BY <1>1, <1>2 DEF ResumesIn
<1> QED BY <1>2

LEMMA InStepReads ==
    ASSUME TypeOK, InStep, BotReads
    PROVE  InStep'
<1>1. SUFFICES ASSUME ~early' PROVE InStep'
  BY DEF InStep
<1>2. PICK type \in Spoken :
         /\ Receive(type)
         /\ \/ type \in {"NEW_TURN", Opening}
            \/ execute_script' = execute_script
            \/ execute_script' = FALSE
  BY DEF BotReads, Starting, MonthBegins, PlayerCommand, LostAlivePlayer, AuctionResults,
         StopScript, Spoken, Stopping, Opening, knows
<1>3. UNCHANGED <<toServer, early, ended>>
  BY <1>2, ReadFacts DEF session
<1>4. /\ \A i, j \in ResumesIn(toBot) : i = j
      /\ execute_script => ResumesIn(toBot) = {}
      /\ TurnOver => ~execute_script /\ ResumesIn(toBot) = {}
      /\ \A i \in TurnsIn(toServer) : i = Len(toServer)
      /\ MyId \in ended => toServer = <<>>
  BY <1>1, <1>3 DEF InStep
<1>5. /\ \A i, j \in ResumesIn(toBot') : i = j
      /\ ResumesIn(toBot) = {} => ResumesIn(toBot') = {}
      /\ type \in {"NEW_TURN", Opening} => ResumesIn(toBot') = {} /\ ResumesIn(toBot) # {}
  BY <1>2, <1>4, ResumesRead
<1>6. TurnOver' <=> TurnOver
  BY <1>3 DEF TurnOver
<1>7. CASE type \in {"NEW_TURN", Opening}
  BY <1>3, <1>4, <1>5, <1>6, <1>7 DEF InStep
<1>8. CASE execute_script' = execute_script
  BY <1>3, <1>4, <1>5, <1>6, <1>8 DEF InStep
<1>9. CASE execute_script' = FALSE
  BY <1>3, <1>4, <1>5, <1>6, <1>9 DEF InStep
<1> QED BY <1>2, <1>7, <1>8, <1>9

\* What the machine sends: orders and questions, or its turn, which stops the script.
LEMMA SaysWhat ==
    ASSUME TypeOK, Evaluate
    PROVE  \/ UNCHANGED <<toServer, execute_script>>
           \/ /\ UNCHANGED execute_script
              /\ \E more \in Seq(ServerLine) :
                    /\ toServer' = toServer \o more
                    /\ \A i \in DOMAIN more : more[i].type # "turn"
           \/ toServer' = Append(toServer, Line("turn")) /\ execute_script' = FALSE
<1> DEFINE Goes(more) ==
        /\ more \in Seq(ServerLine) /\ toServer' = toServer \o more
        /\ \A i \in DOMAIN more : more[i].type # "turn"
<1>1. ASSUME Terminate \/ Quiet
      PROVE  UNCHANGED <<toServer, execute_script>>
  BY <1>1 DEF Terminate, Quiet, knows
<1>2. CASE PushConst \/ OpGo \/ OpIfThen \/ Assign \/ Arithmetic \/ SimpleFunction
           \/ PrintStack \/ Unused
  BY <1>1, <1>2 DEF PushConst, OpGo, OpIfThen, Assign, Arithmetic, SimpleFunction,
                    PrintStack, Unused
<1>3. CASE Answer
  BY <1>3 DEF Answer, knows
<1>4. ASSUME NEW line \in ServerLine, line.type # "turn", toServer' = Append(toServer, line)
      PROVE  \E more : Goes(more)
  <2>1. toServer' = toServer \o <<line>> /\ <<line>> \in Seq(ServerLine)
    BY <1>4 DEF TypeOK, ToServerType
  <2>2. \A i \in DOMAIN <<line>> : <<line>>[i].type # "turn"
    BY <1>4
  <2>3. Goes(<<line>>)
    BY <2>1, <2>2
  <2> HIDE DEF Goes
  <2> QED BY <2>3
<1>5. CASE Question
  <2>1. CASE Quiet
    BY <1>1, <2>1
  <2>2. CASE /\ stack # <<>> /\ stack[1].op = "int"
             /\ toServer' = Append(toServer, LineOf("player", stack[1].n)) /\ UNCHANGED knows
    <3>1. LineOf("player", stack[1].n) \in ServerLine
      <4>1. stack[1].n \in Int
        BY <2>2, StackFacts DEF Element
      <4> QED BY <4>1 DEF LineOf, ServerLine
    <3>2. LineOf("player", stack[1].n).type = "player"
      BY DEF LineOf
    <3>3. \E more : Goes(more)
      BY <1>4, <2>2, <3>1, <3>2
    <3> HIDE DEF Goes
    <3> QED BY <2>2, <3>3 DEF knows, Goes
  <2> QED BY <1>5, <2>1, <2>2 DEF Question
<1>6. CASE SendOffer
  <2>1. CASE Terminate
    BY <1>1, <2>1
  <2>2. CASE ~Terminate
    <3> DEFINE line == [type |-> Here.op, n |-> Number(1), price |-> Number(2)]
    <3>1. /\ toServer' = Append(toServer, line) /\ UNCHANGED knows /\ Evaluating(Offers)
          /\ HasNumber(stack, 1) /\ HasNumber(stack, 2)
      BY <1>6, <2>2 DEF SendOffer
    <3>2. Here.op \in Offers /\ Number(1) \in Int /\ Number(2) \in Int
      BY <3>1, HereElement, NumberType DEF Number
    <3>3. line \in ServerLine /\ line.type # "turn"
      BY <3>2 DEF ServerLine, Offers
    <3> HIDE DEF line
    <3>4. \E more : Goes(more)
      BY <1>4, <3>1, <3>3
    <3> HIDE DEF Goes
    <3> QED BY <3>1, <3>4 DEF knows, Goes
  <2> QED BY <2>1, <2>2
<1>7. CASE SendWork
  <2>1. CASE Terminate
    BY <1>1, <2>1
  <2>2. CASE ~Terminate
    <3> DEFINE orders == [k \in 1..Number(1) |-> Line(Here.op)]
               n == IF Number(1) < 0 THEN 0 ELSE Number(1)
    <3>1. /\ toServer' = toServer \o orders /\ UNCHANGED knows /\ Evaluating(Works)
          /\ HasNumber(stack, 1)
      BY <1>7, <2>2 DEF SendWork
    <3>2. Here.op \in Works /\ Number(1) \in Int
      BY <3>1, HereElement, NumberType DEF Number
    <3>3. Line(Here.op) \in ServerLine /\ Line(Here.op).type # "turn"
      BY <3>2 DEF Line, ServerLine, Works
    <3>4. n \in Nat /\ 1..Number(1) = 1..n
      BY <3>2
    <3>5. orders \in [1..n -> ServerLine] /\ \A i \in DOMAIN orders : orders[i].type # "turn"
      BY <3>3, <3>4
    <3> HIDE DEF orders, n
    <3>6. Goes(orders)
      BY <3>1, <3>4, <3>5
    <3> HIDE DEF Goes
    <3> QED BY <3>1, <3>6 DEF knows, Goes
  <2> QED BY <2>1, <2>2
<1>8. CASE SendTurn
  BY <1>8 DEF SendTurn
<1> QED BY <1>2, <1>3, <1>5, <1>6, <1>7, <1>8 DEF Evaluate

LEMMA TurnsAdded ==
    ASSUME NEW s \in Seq(ServerLine), TurnsIn(s) = {}
    PROVE  /\ \A more \in Seq(ServerLine) :
                  (\A i \in DOMAIN more : more[i].type # "turn") => TurnsIn(s \o more) = {}
           /\ \A line \in ServerLine :
                  \A i \in TurnsIn(Append(s, line)) : i = Len(Append(s, line))
<1>1. Len(s) \in Nat /\ \A i \in 1..Len(s) : s[i].type # "turn"
  BY DEF TurnsIn
<1>2. ASSUME NEW more \in Seq(ServerLine), \A i \in DOMAIN more : more[i].type # "turn"
      PROVE  TurnsIn(s \o more) = {}
  <2>1. ASSUME NEW i \in DOMAIN (s \o more)
        PROVE  (s \o more)[i].type # "turn"
    <3>1. CASE i <= Len(s)
      BY <1>1, <2>1, <3>1
    <3>2. CASE i > Len(s)
      <4>1. i - Len(s) \in 1..Len(more) /\ (s \o more)[i] = more[i - Len(s)]
        BY <1>1, <2>1, <3>2
      <4> QED BY <1>2, <4>1
    <3> QED BY <1>1, <2>1, <3>1, <3>2
  <2> QED BY <2>1 DEF TurnsIn
<1>3. ASSUME NEW line \in ServerLine, NEW i \in TurnsIn(Append(s, line))
      PROVE  i = Len(Append(s, line))
  <2>1. i \in 1..(Len(s) + 1) /\ Append(s, line)[i].type = "turn"
        /\ Len(Append(s, line)) = Len(s) + 1
    BY <1>1, <1>3 DEF TurnsIn
  <2>2. i \in 1..Len(s) => Append(s, line)[i] = s[i]
    BY <1>1
  <2> QED BY <1>1, <2>1, <2>2
<1> QED BY <1>2, <1>3

LEMMA InStepEvaluate ==
    ASSUME TypeOK, InStep, Evaluate
    PROVE  InStep'
<1>1. SUFFICES ASSUME ~early' PROVE InStep'
  BY DEF InStep
<1>2. execute_script /\ UNCHANGED <<toBot, early, ended>>
  BY EvaluateFacts DEF session
<1>3. /\ ResumesIn(toBot) = {} /\ TurnsIn(toServer) = {} /\ MyId \notin ended
  BY <1>1, <1>2 DEF InStep, TurnOver
<1>4. toServer \in Seq(ServerLine)
  BY DEF TypeOK, ToServerType
<1>5. ResumesIn(toBot') = {} /\ MyId \notin ended'
  BY <1>2, <1>3
<1>6. CASE TurnsIn(toServer') = {}
  BY <1>5, <1>6 DEF InStep, TurnOver
<1>7. CASE toServer' = Append(toServer, Line("turn")) /\ execute_script' = FALSE
  <2>1. Line("turn") \in ServerLine
    BY DEF Line, ServerLine
  <2>2. \A i \in TurnsIn(toServer') : i = Len(toServer')
    BY <1>3, <1>4, <1>7, <2>1, TurnsAdded
  <2> QED BY <1>5, <1>7, <2>2 DEF InStep
<1>8. CASE UNCHANGED toServer
  BY <1>3, <1>6, <1>8
<1>9. ASSUME NEW more \in Seq(ServerLine), toServer' = toServer \o more,
             \A i \in DOMAIN more : more[i].type # "turn"
      PROVE  InStep'
  BY <1>3, <1>4, <1>6, <1>9, TurnsAdded
<1> QED BY <1>7, <1>8, <1>9, SaysWhat

\* The server takes a line, or several, of which only the last may be the turn.
LEMMA InStepServerReads ==
    ASSUME TypeOK, InStep, ServerReads
    PROVE  InStep'
<1>1. SUFFICES ASSUME ~early' PROVE InStep'
  BY DEF InStep
<1>2. /\ toServer # <<>> /\ UNCHANGED <<early, execute_script>>
      /\ toBot' = toBot \o Answered(Head(toServer))
      /\ ended' = IF Head(toServer).type = "turn" THEN ended \cup {MyId} ELSE ended
  BY DEF ServerReads, ServerOnly, knows
<1>3. PICK k \in 1..Len(toServer) : toServer' = SubSeq(toServer, k + 1, Len(toServer))
  BY DEF ServerReads
<1>4. toServer \in Seq(ServerLine) /\ toBot \in Seq(BotLine) /\ Len(toServer) \in Nat \ {0}
  BY <1>2 DEF TypeOK, ToServerType, ToBotType
<1>5. /\ \A i, j \in ResumesIn(toBot) : i = j
      /\ execute_script => ResumesIn(toBot) = {}
      /\ TurnOver => ~execute_script /\ ResumesIn(toBot) = {}
      /\ \A i \in TurnsIn(toServer) : i = Len(toServer)
      /\ MyId \notin ended
  BY <1>1, <1>2 DEF InStep
<1>6. ResumesIn(toBot') = ResumesIn(toBot)
  <2>1. Head(toServer) \in ServerLine
    BY <1>2, <1>4
  <2>2. Answered(Head(toServer)) \in Seq(Plain)
    BY <2>1, AnswerLines
  <2> QED BY <1>2, <1>4, <2>2, ResumesAdded
<1>7. /\ Len(toServer') = Len(toServer) - k /\ toServer' \in Seq(ServerLine)
      /\ \A i \in 1..(Len(toServer) - k) : toServer'[i] = toServer[i + k]
  <2>1. Len(toServer) \in Int /\ k + 1 \in Int /\ k + 1 >= 1
    BY <1>4
  <2>2. \A i \in (k + 1)..Len(toServer) : toServer[i] \in ServerLine
    BY <1>4, <2>1
  <2>3. /\ SubSeq(toServer, k + 1, Len(toServer)) \in Seq(ServerLine)
        /\ Len(SubSeq(toServer, k + 1, Len(toServer))) =
              IF k + 1 <= Len(toServer) THEN Len(toServer) - (k + 1) + 1 ELSE 0
        /\ \A i \in 1..(Len(toServer) - (k + 1) + 1) :
              SubSeq(toServer, k + 1, Len(toServer))[i] = toServer[(k + 1) + i - 1]
    BY <2>1, <2>2, SubSeqProperties
  <2> QED BY <1>3, <1>4, <2>3
<1>8. ASSUME NEW i \in TurnsIn(toServer')
      PROVE  i + k \in TurnsIn(toServer) /\ i = Len(toServer')
  <2>1. i \in 1..(Len(toServer) - k) /\ toServer'[i].type = "turn"
    BY <1>4, <1>7, <1>8 DEF TurnsIn
  <2>2. i + k \in DOMAIN toServer /\ toServer[i + k].type = "turn"
    BY <1>4, <1>7, <2>1
  <2>3. i + k \in TurnsIn(toServer)
    BY <2>2 DEF TurnsIn
  <2>4. i + k = Len(toServer)
    BY <1>5, <2>3
  <2>5. i = Len(toServer')
    <3>1. i \in Nat /\ k \in Nat /\ Len(toServer) \in Nat /\ Len(toServer') = Len(toServer) - k
      BY <1>4, <1>7, <2>1
    <3> QED BY <2>4, <3>1
  <2> QED BY <2>3, <2>5
<1>9. CASE Head(toServer).type = "turn"
  <2>1. 1 \in TurnsIn(toServer)
    BY <1>2, <1>4, <1>9 DEF TurnsIn
  <2>2. Len(toServer) = 1
    BY <1>5, <2>1
  <2>3. toServer' = <<>>
    BY <1>4, <1>7, <2>2, EmptySeq
  <2>4. ~execute_script /\ ResumesIn(toBot) = {}
    BY <1>5, <2>1 DEF TurnOver
  <2> QED BY <1>2, <1>6, <1>8, <2>3, <2>4 DEF InStep
<1>10. CASE Head(toServer).type # "turn"
  <2>1. MyId \notin ended'
    BY <1>2, <1>5, <1>10
  <2>2. TurnOver' => TurnOver
    BY <1>8, <2>1 DEF TurnOver
  <2> QED BY <1>2, <1>5, <1>6, <1>8, <2>1, <2>2 DEF InStep
<1> QED BY <1>9, <1>10

\* A month that does not end without the bot ends after the bot's turn, and resumes
\* the script once.
LEMMA InStepEndMonth ==
    ASSUME TypeOK, InStep, EndMonth
    PROVE  InStep'
<1>1. SUFFICES ASSUME ~early' PROVE InStep'
  BY DEF InStep
<1>2. PICK bankrots \in SUBSET Present :
        \E quits \in [1..Cardinality(bankrots) -> bankrots] :
            /\ Cardinality(bankrots) \in Nat
            /\ toBot' = IF MyId \in gone THEN toBot
                        ELSE toBot \o <<Results>> \o MonthLines(bankrots, quits)
            /\ early' = (early \/ MyId \in Present \ ended)
            /\ ended' = {} /\ month + 1 \in 1..MaxMonth
            /\ UNCHANGED <<knows, toServer>>
  BY EndMonthFacts
<1>3. PICK quits \in [1..Cardinality(bankrots) -> bankrots] :
        /\ Cardinality(bankrots) \in Nat
        /\ toBot' = IF MyId \in gone THEN toBot
                    ELSE toBot \o <<Results>> \o MonthLines(bankrots, quits)
        /\ early' = (early \/ MyId \in Present \ ended)
        /\ ended' = {} /\ month + 1 \in 1..MaxMonth
        /\ UNCHANGED <<knows, toServer>>
  BY <1>2
<1>4. ~early /\ MyId \notin Present \ ended /\ UNCHANGED <<execute_script, toServer>>
      /\ MyId \notin ended'
  BY <1>1, <1>3 DEF knows
<1>5. /\ \A i, j \in ResumesIn(toBot) : i = j
      /\ execute_script => ResumesIn(toBot) = {}
      /\ TurnOver => ~execute_script /\ ResumesIn(toBot) = {}
      /\ \A i \in TurnsIn(toServer) : i = Len(toServer)
      /\ MyId \in ended => toServer = <<>>
  BY <1>4 DEF InStep
<1>6. toBot \in Seq(BotLine) /\ MyId \in Players
  BY PlayerNumbers DEF TypeOK, ToBotType
<1>7. CASE MyId \in gone
  <2>1. toBot' = toBot /\ (TurnOver' => TurnOver)
    BY <1>3, <1>4, <1>7 DEF TurnOver
  <2> QED BY <1>4, <1>5, <2>1 DEF InStep
<1>8. CASE MyId \notin gone
  <2>1. MyId \in ended
    BY <1>4, <1>6, <1>8 DEF Present
  <2>2. ~execute_script /\ ResumesIn(toBot) = {} /\ toServer = <<>>
    BY <1>5, <2>1 DEF TurnOver
  <2>3. TurnsIn(toServer') = {} /\ ~execute_script'
    BY <1>4, <2>2 DEF TurnsIn
  <2>4. Results \in Plain
    BY <1>3, MonthLinesType
  <2> DEFINE told == toBot \o <<Results>>
  <2>5. told \in Seq(BotLine) /\ ResumesIn(told) = {}
    <3>1. <<Results>> \in Seq(Plain) /\ <<Results>> \in Seq(BotLine)
      BY <2>4, PlainAfterOpening
    <3>2. told \in Seq(BotLine)
      BY <1>6, <3>1
    <3>3. ResumesIn(told) = ResumesIn(toBot)
      BY <1>6, <3>1, ResumesAdded
    <3> QED BY <2>2, <3>2, <3>3
  <2>6. CASE MyId \in bankrots
    <3> DEFINE line == Line("PLAYER_BANKROT")
    <3>1. toBot' = told \o <<line>>
      BY <1>3, <1>8, <2>6 DEF MonthLines
    <3>2. line \in Plain
      BY DEF Line, Plain, AfterOpening, BotLine, Spoken, Stopping, Opening
    <3> HIDE DEF told, line
    <3>3. <<line>> \in Seq(Plain)
      BY <3>2
    <3>4. ResumesIn(toBot') = {}
      BY <2>5, <3>1, <3>3, ResumesAdded
    <3> QED BY <1>4, <2>3, <3>4 DEF InStep, TurnOver
  <2>7. CASE MyId \notin bankrots
    <3> DEFINE leavers == [k \in DOMAIN quits |-> Departure(quits[k], Alive - k)]
               turn == NewTurn(month + 1)
    <3>1. toBot' = told \o (leavers \o <<turn>>)
      BY <1>3, <1>8, <2>7 DEF MonthLines
    <3>2. leavers \in Seq(Plain)
      <4>1. bankrots \in SUBSET Players
        BY DEF Present
      <4> QED BY <1>3, <4>1, LeaversLines
    <3>3. turn \in BotLine
      BY <1>3, NewTurnLine, PlainAfterOpening
    <3> HIDE DEF told, leavers, turn
    <3>4. told \o leavers \in Seq(BotLine) /\ ResumesIn(told \o leavers) = {}
      <4>1. leavers \in Seq(BotLine)
        BY <3>2, PlainAfterOpening
      <4> QED BY <2>5, <3>2, <4>1, ResumesAdded
    <3>5. toBot' = (told \o leavers) \o <<turn>>
      <4>1. leavers \in Seq(BotLine) /\ <<turn>> \in Seq(BotLine)
        BY <3>2, <3>3, PlainAfterOpening
      <4> QED BY <2>5, <3>1, <4>1
    <3>6. \A i, j \in ResumesIn(toBot') : i = j
      BY <3>3, <3>4, <3>5, ResumesOneAdded
    <3> QED BY <1>4, <2>3, <3>6 DEF InStep, TurnOver
  <2> QED BY <2>6, <2>7
<1> QED BY <1>7, <1>8

LEMMA InStepStep == ASSUME TypeOK, InStep, [Next]_vars PROVE InStep'
<1>1. ASSUME UNCHANGED <<toBot, toServer, execute_script, early>>,
             MyId \in ended <=> MyId \in ended'
      PROVE  InStep'
  BY <1>1 DEF InStep, TurnOver
<1>2. CASE NextPass
  BY <1>1, <1>2 DEF NextPass, ServerOnly, knows, lines
<1>3. ASSUME NEW p \in Players, OtherTurns(p)
      PROVE  InStep'
  <2>1. UNCHANGED <<toBot, toServer, execute_script, early>> /\ ended' = ended \cup {p} /\ p # MyId
    BY <1>3 DEF OtherTurns, ServerOnly, knows, lines
  <2> QED BY <1>1, <2>1
<1>4. ASSUME NEW p \in Players, OtherLeaves(p)
      PROVE  InStep'
  <2>1. UNCHANGED <<toServer, execute_script, early, ended>>
    BY <1>4 DEF OtherLeaves, ServerOnly, knows
  <2> DEFINE line == Departure(p, Alive - 1)
  <2>2. toBot' = toBot \/ toBot' = Append(toBot, line)
    BY <1>4 DEF OtherLeaves
  <2>3. line \in Plain /\ toBot \in Seq(BotLine)
    BY DepartureLine DEF TypeOK, ToBotType
  <2> HIDE DEF line
  <2>4. ResumesIn(toBot') = ResumesIn(toBot)
    <3>1. <<line>> \in Seq(Plain) /\ Append(toBot, line) = toBot \o <<line>>
      BY <2>3, PlainAfterOpening
    <3> QED BY <2>2, <2>3, <3>1, ResumesAdded
  <2> QED BY <2>1, <2>4 DEF InStep, TurnOver
<1>5. CASE UNCHANGED vars
  BY <1>1, <1>5 DEF vars, knows, lines, session
<1> QED BY <1>2, <1>3, <1>4, <1>5, InStepReads, InStepEvaluate, InStepServerReads,
           InStepEndMonth DEF Next, Server

LEMMA InStepInit == ASSUME Init PROVE InStep
<1>1. /\ toBot = <<[NewTurn(1) EXCEPT !.type = "STARTING_GAME_INFORMATION"]>>
      /\ toServer = <<>> /\ execute_script = FALSE /\ ended = {}
  BY DEF Init
<1>2. TurnsIn(toServer) = {} /\ \A i, j \in ResumesIn(toBot) : i = j
  BY <1>1 DEF TurnsIn, ResumesIn
<1> QED BY <1>1, <1>2 DEF InStep, TurnOver

\* Between its turn and the next month the bot sends nothing: the turn is the last
\* line of its month, however the reads merge lines and whatever else is told it.
THEOREM BotQuietAfterTurn == Spec => []QuietAfterTurn
<1>1. Init => TypeOK /\ InStep
  BY InitType, InStepInit
<1>2. TypeOK /\ InStep /\ [Next]_vars => (TypeOK /\ InStep)'
  BY StepType, InStepStep
<1>3. InStep => QuietAfterTurn
  BY DEF InStep, QuietAfterTurn
<1> QED BY <1>1, <1>2, <1>3, PTL DEF Spec

-----------------------------------------------------------------------------
(* Sound programs.  What stands on the stack is always what the code says  *)
(* of the place the machine has come to, or, while a question is asked,    *)
(* that without its operand.                                               *)

Coded == [op : Ops, n : Int]
Kinds == Ops \cup {"nonzero"}

\* Kinds at the place k, from those at the places before it.
Shaped(code, h, k) == IF k = 1 THEN <<>> ELSE Behind(h[k - 1], code[k - 1])

LEMMA ShapeIs ==
    ASSUME NEW code \in Seq(Coded), NEW n \in 1..(Len(code) + 1)
    PROVE  Shape(code)[n] = Shaped(code, Shape(code), n)
<1> DEFINE N == Len(code) + 1
           Form(h) == h = [k \in 1..N |-> Shaped(code, h, k)]
           Upto(h, k) == /\ h = [i \in 1..k |-> h[i]]
                         /\ \A i \in 1..k : h[i] = Shaped(code, h, i)
           Missing == {k \in 1..N : \A h : ~Upto(h, k)}
<1>1. N \in Nat /\ n \in 1..N
  OBVIOUS
<1> HIDE DEF N
<1>2. Missing = {}
  <2> SUFFICES ASSUME Missing # {} PROVE FALSE
    OBVIOUS
  <2>1. PICK x \in Missing : \A y \in Missing : x <= y
    <3>1. Missing \subseteq Nat
      BY <1>1
    <3> HIDE DEF Missing
    <3>2. PICK x \in Missing : \A y \in Missing : ~(<<y, x>> \in OpToRel(<, Nat))
      BY <3>1, NatLessThanWellFounded, WFMin, Zenon
    <3>3. \A y \in Missing : ~(y < x)
      BY <3>1, <3>2 DEF OpToRel
    <3> QED BY <3>1, <3>3
  <2>2. x \in 1..N /\ \A h : ~Upto(h, x)
    BY <2>1
  <2>3. CASE x = 1
    <3> DEFINE h == [i \in 1..1 |-> <<>>]
    <3>1. h = [i \in 1..1 |-> h[i]] /\ \A i \in 1..1 : h[i] = <<>> /\ i = 1
      OBVIOUS
    <3> HIDE DEF h
    <3>2. Upto(h, 1)
      BY <3>1 DEF Shaped
    <3> HIDE DEF Upto
    <3> QED BY <2>2, <2>3, <3>2
  <2>4. CASE x # 1
    <3>1. x - 1 \in 1..N /\ x - 1 < x
      BY <1>1, <2>2, <2>4
    <3>2. x - 1 \notin Missing
      <4> HIDE DEF Missing
      <4> QED BY <1>1, <2>1, <2>2, <3>1
    <3>3. PICK h : Upto(h, x - 1)
      BY <3>1, <3>2
    <3> DEFINE f == [i \in 1..x |-> IF i = x THEN Shaped(code, h, x) ELSE h[i]]
    <3>4. /\ f = [i \in 1..x |-> f[i]] /\ f[x] = Shaped(code, h, x)
          /\ \A i \in 1..(x - 1) : f[i] = h[i] /\ h[i] = Shaped(code, h, i)
      BY <1>1, <2>2, <3>3
    <3> HIDE DEF f
    <3>5. ASSUME NEW i \in 1..x
          PROVE  Shaped(code, h, i) = Shaped(code, f, i)
      <4>1. i # 1 => i - 1 \in 1..(x - 1)
        BY <1>1, <2>2
      <4>2. i # 1 => f[i - 1] = h[i - 1]
        BY <3>4, <4>1
      <4> QED BY <4>2 DEF Shaped
    <3>6. ASSUME NEW i \in 1..x
          PROVE  f[i] = Shaped(code, f, i)
      <4>1. CASE i = x
        BY <3>4, <3>5, <4>1
      <4>2. CASE i # x
        <5>1. i \in 1..(x - 1)
          BY <1>1, <2>2, <4>2
        <5> QED BY <3>4, <3>5, <5>1
      <4> QED BY <4>1, <4>2
    <3>7. Upto(f, x)
      BY <3>4, <3>6
    <3> HIDE DEF Upto
    <3> QED BY <2>2, <3>7
  <2> QED BY <2>3, <2>4
<1>3. PICK h : Upto(h, N)
  BY <1>1, <1>2
<1>4. Form(h)
  BY <1>3, Zenon
<1>5. Form(Shape(code))
  <2>1. Form(CHOOSE g : Form(g))
    <3> HIDE DEF Form
    <3> QED BY <1>4
  <2> QED BY <2>1 DEF Shape, Shaped, N
<1> QED BY <1>1, <1>5, Zenon

\* What a sound program has at each place.
LEMMA SoundCode ==
    ASSUME program \in Programs, program \in Faithful
    PROVE  LET code == program.code
               exits == ToSet(program.starts) \cup {Len(code) + 1}
           IN  /\ code \in Seq(Coded) /\ Len(code) \in Nat /\ DOMAIN code = 1..Len(code)
               /\ exits \subseteq 1..(Len(code) + 1)
               /\ \A k \in exits : Shape(code)[k] = <<>>
               /\ \A k \in DOMAIN code :
                      /\ code[k] \in Coded
                      /\ Takes(Shape(code)[k], code[k].op)
                      /\ Shape(code)[k + 1] = Behind(Shape(code)[k], code[k])
                      /\ code[k].op = "label" => code[k].n \in ToSet(program.starts)
                      /\ code[k].op = "ifthen" => SkipFrom(code, k) \in exits
<1> DEFINE code == program.code
<1>1. code \in Seq(Coded)
  BY ProgramsAssumption, Zenon DEF Executable, Coded
<1>2. Sound(program)
  BY FaithfulAssumption
<1> HIDE DEF code
<1>3. Len(code) \in Nat /\ DOMAIN code = 1..Len(code) /\ \A k \in DOMAIN code : code[k] \in Coded
  BY <1>1
<1>4. ASSUME NEW k \in DOMAIN code
      PROVE  Shape(code)[k + 1] = Behind(Shape(code)[k], code[k])
  <2>1. k + 1 \in 1..(Len(code) + 1) /\ k + 1 # 1 /\ (k + 1) - 1 = k
    BY <1>3
  <2> QED BY <1>1, <2>1, ShapeIs DEF Shaped
<1> QED BY <1>1, <1>2, <1>3, <1>4, Zenon DEF Sound, code

\* The classes of elements are disjoint.
LEMMA OpClasses ==
    ASSUME NEW op
    PROVE  /\ op \in Pushing => op \notin SimpleGF \cup PlayerGF \cup Unary \cup Binary
           /\ op \in SimpleGF => op \notin PlayerGF \cup Unary \cup Binary
           /\ op \in PlayerGF => op \notin Unary \cup Binary
           /\ op \in Unary => op \notin Binary
           /\ op \in Pushing \cup SimpleGF \cup PlayerGF \cup Unary \cup Binary =>
                  op \notin Offers \cup Works \cup {"goto", "ifthen", "assign", "endturn", "print"}
           /\ op \in Offers => op \notin Works
           /\ op \in Offers \cup Works => op \notin {"goto", "ifthen", "assign", "endturn", "print"}
           /\ Dividing \subseteq Binary
BY DEF Pushing, SimpleGF, PlayerGF, Unary, Binary, Dividing, Offers, Works

\* What an element leaves, class by class.
LEMMA BehindWhat ==
    ASSUME NEW kinds, NEW elem
    PROVE  /\ elem.op \in Pushing  => Behind(kinds, elem) = <<Kind(elem)>> \o kinds
           /\ elem.op \in SimpleGF => Behind(kinds, elem) = <<"int">> \o kinds
           /\ elem.op \in PlayerGF \cup Unary => Behind(kinds, elem) = <<"int">> \o Tail(kinds)
           /\ elem.op \in Binary   => Behind(kinds, elem) = <<"int">> \o Tail(Tail(kinds))
           /\ elem.op \in Offers \cup Works \cup {"goto", "ifthen", "assign", "endturn", "print"} =>
                  Behind(kinds, elem) = <<>>
<1>1. elem.op \in Pushing => Behind(kinds, elem) = <<Kind(elem)>> \o kinds
  BY OpClasses DEF Behind
<1>2. elem.op \in SimpleGF => Behind(kinds, elem) = <<"int">> \o kinds
  BY OpClasses DEF Behind
<1>3. elem.op \in PlayerGF \cup Unary => Behind(kinds, elem) = <<"int">> \o Tail(kinds)
  BY OpClasses DEF Behind
<1>4. elem.op \in Binary => Behind(kinds, elem) = <<"int">> \o Tail(Tail(kinds))
  BY OpClasses DEF Behind
<1>5. elem.op \in Offers \cup Works \cup {"goto", "ifthen", "assign", "endturn", "print"} =>
          Behind(kinds, elem) = <<>>
  BY OpClasses DEF Behind
<1> QED BY <1>1, <1>2, <1>3, <1>4, <1>5

\* Kinds are kinds.
LEMMA ShapeType ==
    ASSUME program \in Programs, program \in Faithful
    PROVE  \A k \in 1..(Len(program.code) + 1) : Shape(program.code)[k] \in Seq(Kinds)
<1> DEFINE code == program.code
           T(k) == Shape(code)[k] \in Seq(Kinds)
           Others == {k \in 1..(Len(code) + 1) : ~T(k)}
<1>1. code \in Seq(Coded) /\ Len(code) \in Nat /\ DOMAIN code = 1..Len(code)
  BY SoundCode
<1>2. \A k \in DOMAIN code : /\ code[k] \in Coded
                             /\ Takes(Shape(code)[k], code[k].op)
                             /\ Shape(code)[k + 1] = Behind(Shape(code)[k], code[k])
  BY SoundCode, Zenon
<1> HIDE DEF code
<1> SUFFICES ASSUME Others # {} PROVE FALSE
  BY DEF code
<1>3. PICK x \in Others : \A y \in Others : x <= y
  <2>1. Others \subseteq Nat
    BY <1>1
  <2> HIDE DEF Others
  <2>2. PICK x \in Others : \A y \in Others : ~(<<y, x>> \in OpToRel(<, Nat))
    BY <2>1, NatLessThanWellFounded, WFMin, Zenon
  <2>3. \A y \in Others : ~(y < x)
    BY <2>1, <2>2 DEF OpToRel
  <2> QED BY <2>1, <2>3
<1>4. x \in 1..(Len(code) + 1) /\ ~T(x)
  BY <1>3
<1>5. x # 1
  <2>1. ASSUME x = 1 PROVE FALSE
    <3>1. Shape(code)[1] = <<>>
      BY <1>1, <1>4, <2>1, ShapeIs DEF Shaped
    <3> QED BY <1>4, <2>1, <3>1
  <2> QED BY <2>1
<1>6. x - 1 \in DOMAIN code /\ (x - 1) + 1 = x /\ x - 1 \in 1..(Len(code) + 1) /\ x - 1 < x
  BY <1>1, <1>4, <1>5
<1>7. T(x - 1)
  <2>1. x - 1 \notin Others
    <3> HIDE DEF Others
    <3> QED BY <1>1, <1>3, <1>4, <1>6
  <2> QED BY <1>6, <2>1
<1> DEFINE kinds == Shape(code)[x - 1]
           elem == code[x - 1]
<1>8. kinds \in Seq(Kinds) /\ elem \in Coded /\ Takes(kinds, elem.op)
      /\ Shape(code)[x] = Behind(kinds, elem)
  BY <1>2, <1>6, <1>7
<1> HIDE DEF kinds, elem
<1>9. Kind(elem) \in Kinds /\ "int" \in Kinds /\ <<>> \in Seq(Kinds)
  BY <1>8 DEF Kind, Kinds, Coded, Ops
<1>10. /\ <<Kind(elem)>> \o kinds \in Seq(Kinds) /\ <<"int">> \o kinds \in Seq(Kinds)
  BY <1>8, <1>9, Pushed
<1>11. ASSUME elem.op \in PlayerGF \cup Unary
       PROVE  <<"int">> \o Tail(kinds) \in Seq(Kinds)
  <2>1. kinds # <<>>
    <3>1. Len(kinds) >= 1
      BY <1>8, <1>11 DEF Takes
    <3> QED BY <1>8, <3>1
  <2>2. Tail(kinds) \in Seq(Kinds)
    BY <1>8, <2>1
  <2> QED BY <1>9, <2>2, Pushed
<1>12. ASSUME elem.op \in Binary
       PROVE  <<"int">> \o Tail(Tail(kinds)) \in Seq(Kinds)
  <2>1. Len(kinds) >= 2
    BY <1>8, <1>12 DEF Takes
  <2> DEFINE t == Tail(kinds)
  <2>2. t \in Seq(Kinds) /\ Len(t) # 0
    <3>1. kinds \in Seq(Kinds) /\ Len(kinds) \in Nat
      BY <1>8
    <3>2. kinds # <<>>
      BY <2>1, <3>1
    <3>3. t \in Seq(Kinds) /\ Len(t) = Len(kinds) - 1
      BY <3>1, <3>2, Popped
    <3> HIDE DEF t
    <3> QED BY <2>1, <3>1, <3>3
  <2> HIDE DEF t
  <2>3. Tail(t) \in Seq(Kinds)
    BY <2>2
  <2> QED BY <1>9, <2>3, Pushed DEF t
<1>13. Behind(kinds, elem) \in Seq(Kinds)
  BY <1>9, <1>10, <1>11, <1>12 DEF Behind
<1> QED BY <1>4, <1>8, <1>13

\* An element is of a kind, and a stack of these kinds; a label leads to an operator.
OfKind(elem, kind) ==
    /\ IF kind = "nonzero" THEN elem.op = "int" /\ elem.n # 0 ELSE elem.op = kind
    /\ elem.op = "label" => elem.n \in ToSet(program.starts)

AreOf(s, kinds) == Len(s) = Len(kinds) /\ \A i \in DOMAIN s : OfKind(s[i], kinds[i])

KindsHere == Shape(program.code)[cur_cmd]

InShape ==
    /\ cur_cmd \in 1..(Len(program.code) + 1)
    /\ ret_to_prev_cmd => cur_cmd \in DOMAIN program.code /\ Here.op \in PlayerGF
    /\ AreOf(stack, IF ret_to_prev_cmd THEN Tail(KindsHere) ELSE KindsHere)

\* The bot's records are gone, and so is the game for it.
Broken == status = "undefined" /\ (cur_cmd \in ToSet(program.starts) => stack = <<>>)

ShapeInv == program \in Faithful => Broken \/ (InShape /\ status # "terminated")

LEMMA KindFacts ==
    ASSUME NEW elem, NEW kind, OfKind(elem, kind)
    PROVE  /\ kind \in Integral => elem.op = "int"
           /\ kind \in Readable => elem.op \in {"int", "addr"}
           /\ kind = "nonzero" => elem.op = "int" /\ elem.n # 0
           /\ kind = "addr" => elem.op = "addr"
           /\ kind = "label" => elem.op = "label" /\ elem.n \in ToSet(program.starts)
BY DEF OfKind, Integral, Readable

LEMMA NumbersAreInts == \A n : OfKind(IntElem(n), "int")
BY DEF OfKind, IntElem, Elem

LEMMA AreOfPushed ==
    ASSUME NEW S, NEW s \in Seq(S), NEW e \in S, NEW kinds \in Seq(Kinds), NEW kind \in Kinds,
           AreOf(s, kinds), OfKind(e, kind)
    PROVE  AreOf(<<e>> \o s, <<kind>> \o kinds)
<1>1. /\ Len(<<e>> \o s) = Len(s) + 1 /\ (<<e>> \o s)[1] = e
      /\ \A i \in 1..Len(s) : (<<e>> \o s)[i + 1] = s[i]
      /\ DOMAIN (<<e>> \o s) = 1..(Len(s) + 1)
  OBVIOUS
<1>2. /\ Len(<<kind>> \o kinds) = Len(kinds) + 1 /\ (<<kind>> \o kinds)[1] = kind
      /\ \A i \in 1..Len(kinds) : (<<kind>> \o kinds)[i + 1] = kinds[i]
  OBVIOUS
<1> DEFINE more == <<e>> \o s
           moreKinds == <<kind>> \o kinds
<1>3. Len(s) = Len(kinds) /\ Len(s) \in Nat /\ \A i \in 1..Len(s) : OfKind(s[i], kinds[i])
  BY DEF AreOf
<1> HIDE DEF more, moreKinds
<1>4. ASSUME NEW i \in 1..(Len(s) + 1)
      PROVE  OfKind(more[i], moreKinds[i])
  <2>1. CASE i = 1
    BY <1>1, <1>2, <2>1 DEF more, moreKinds
  <2>2. CASE i # 1
    <3>1. i - 1 \in 1..Len(s) /\ (i - 1) + 1 = i
      BY <1>3, <2>2
    <3>2. more[i] = s[i - 1] /\ moreKinds[i] = kinds[i - 1]
      BY <1>1, <1>2, <1>3, <3>1 DEF more, moreKinds
    <3> QED BY <1>3, <3>1, <3>2
  <2> QED BY <2>1, <2>2
<1> QED BY <1>1, <1>2, <1>3, <1>4 DEF AreOf, more, moreKinds

LEMMA AreOfPopped ==
    ASSUME NEW S, NEW s \in Seq(S), NEW kinds \in Seq(Kinds), AreOf(s, kinds), Len(kinds) >= 1
    PROVE  /\ s # <<>> /\ Len(s) >= 1 /\ OfKind(s[1], kinds[1])
           /\ s[1] \in S /\ Tail(s) \in Seq(S) /\ Tail(kinds) \in Seq(Kinds)
           /\ AreOf(Tail(s), Tail(kinds)) /\ Len(Tail(kinds)) = Len(kinds) - 1
<1>1. Len(s) = Len(kinds) /\ Len(s) \in Nat /\ \A i \in 1..Len(s) : OfKind(s[i], kinds[i])
  BY DEF AreOf
<1>2. s # <<>> /\ kinds # <<>>
  BY <1>1
<1>3. /\ s[1] \in S /\ Tail(s) \in Seq(S) /\ Tail(kinds) \in Seq(Kinds)
      /\ Len(Tail(s)) = Len(s) - 1 /\ Len(Tail(kinds)) = Len(kinds) - 1
  BY <1>2, Popped
<1>4. DOMAIN Tail(s) = 1..(Len(s) - 1)
  BY <1>2
<1>5. \A i \in 1..(Len(s) - 1) : Tail(s)[i] = s[i + 1] /\ Tail(kinds)[i] = kinds[i + 1]
  BY <1>1, <1>2
<1>6. \A i \in 1..(Len(s) - 1) : OfKind(s[i + 1], kinds[i + 1])
  BY <1>1
<1>7. AreOf(Tail(s), Tail(kinds))
  BY <1>1, <1>3, <1>4, <1>5, <1>6 DEF AreOf
<1>8. 1 \in 1..Len(s)
  BY <1>1
<1> QED BY <1>1, <1>2, <1>3, <1>7, <1>8

LEMMA EmptyStack == ASSUME NEW S, NEW s \in Seq(S) PROVE AreOf(s, <<>>) <=> s = <<>>
<1>1. Len(<<>>) = 0 /\ (Len(s) = 0 <=> s = <<>>) /\ DOMAIN s = 1..Len(s) /\ Len(s) \in Nat
  OBVIOUS
<1> QED BY <1>1 DEF AreOf

\* Where an operator begins nothing is on the stack, and no question is asked.
LEMMA StartsEmpty ==
    ASSUME TypeOK, program \in Faithful, InShape, cur_cmd \in ToSet(program.starts)
    PROVE  stack = <<>> /\ ~ret_to_prev_cmd
<1>1. program \in Programs /\ stack \in Seq(Element)
  BY DEF TypeOK, MachineType
<1>2. KindsHere = <<>>
  BY <1>1, SoundCode DEF KindsHere
<1>3. ~ret_to_prev_cmd
  <2> SUFFICES ASSUME ret_to_prev_cmd PROVE FALSE
    OBVIOUS
  <2>1. cur_cmd \in DOMAIN program.code /\ Here.op \in PlayerGF
    BY DEF InShape
  <2>2. Takes(KindsHere, Here.op)
    BY <1>1, <2>1, SoundCode DEF KindsHere, Here
  <2>3. Len(KindsHere) >= 1
    BY <2>1, <2>2 DEF Takes
  <2> QED BY <1>2, <2>3
<1>4. AreOf(stack, <<>>)
  BY <1>2, <1>3, Zenon DEF InShape
<1> QED BY <1>1, <1>3, <1>4, EmptyStack

LEMMA ShapeMeansClean == ASSUME TypeOK, ShapeInv PROVE RunsClean
BY StartsEmpty DEF ShapeInv, RunsClean, Broken

\* What the machine finds when it evaluates an element of a sound program.
LEMMA FoundHere ==
    ASSUME TypeOK, ShapeInv, program \in Faithful, NEW ops, Evaluating(ops)
    PROVE  /\ program \in Programs /\ program' = program
           /\ InShape /\ status = "running" /\ cur_cmd \in Nat
           /\ cur_cmd \in DOMAIN program.code /\ cur_cmd + 1 \in 1..(Len(program.code) + 1)
           /\ Here \in Element /\ Here.op \in ops /\ Kind(Here) \in Kinds
           /\ Takes(KindsHere, Here.op)
           /\ KindsHere \in Seq(Kinds)
           /\ Shape(program.code)[cur_cmd + 1] = Behind(KindsHere, Here)
           /\ ret_to_prev_cmd => Here.op \in PlayerGF
           /\ ~ret_to_prev_cmd => AreOf(stack, KindsHere)
           /\ stack \in Seq(Element)
<1>1. /\ program \in Programs /\ program' = program /\ status = "running"
      /\ cur_cmd <= Len(program.code) /\ Here \in Element /\ Here.op \in ops
      /\ Len(program.code) \in Nat /\ stack \in Seq(Element)
  BY HereElement DEF TypeOK, MachineType, Evaluating
<1>2. InShape
  BY <1>1 DEF ShapeInv, Broken
<1>3. cur_cmd \in 1..Len(program.code)
  BY <1>1, <1>2 DEF InShape
<1>4. cur_cmd \in DOMAIN program.code
  BY <1>1, <1>3, SoundCode, Zenon
<1>5. cur_cmd \in Nat /\ cur_cmd + 1 \in 1..(Len(program.code) + 1)
      /\ cur_cmd \in 1..(Len(program.code) + 1)
  BY <1>1, <1>3
<1>6. /\ Takes(KindsHere, Here.op)
      /\ Shape(program.code)[cur_cmd + 1] = Behind(KindsHere, Here)
  BY <1>1, <1>4, SoundCode, Zenon DEF KindsHere, Here
<1>7. KindsHere \in Seq(Kinds)
  BY <1>1, <1>5, ShapeType, Zenon DEF KindsHere
<1>8. Kind(Here) \in Kinds
  BY <1>1 DEF Kind, Kinds, Element
<1>9. /\ ret_to_prev_cmd => Here.op \in PlayerGF
      /\ ~ret_to_prev_cmd => AreOf(stack, KindsHere)
  BY <1>2, Zenon DEF InShape
<1> QED BY <1>1, <1>2, <1>4, <1>5, <1>6, <1>7, <1>8, <1>9

\* The machine goes where its stack fits.
LEMMA ArrivesInShape ==
    ASSUME TypeOK, program \in Faithful, program' = program, status' = "running",
           NEW p \in 1..(Len(program.code) + 1), cur_cmd' = p, ~ret_to_prev_cmd',
           AreOf(stack', Shape(program.code)[p])
    PROVE  ShapeInv'
<1>1. KindsHere' = Shape(program.code)[p]
  BY DEF KindsHere
<1>2. AreOf(stack, KindsHere)'
  BY <1>1 DEF AreOf, OfKind
<1>3. InShape'
  BY <1>2 DEF InShape
<1> QED BY <1>3 DEF ShapeInv

LEMMA DoneInShape ==
    ASSUME TypeOK, ShapeInv, program \in Faithful, NEW ops, Evaluating(ops),
           NEW s, NEW v, Done(s, v), ~ret_to_prev_cmd, AreOf(s, Behind(KindsHere, Here))
    PROVE  ShapeInv'
<1>1. /\ cur_cmd + 1 \in 1..(Len(program.code) + 1) /\ program' = program /\ status = "running"
      /\ Shape(program.code)[cur_cmd + 1] = Behind(KindsHere, Here)
  BY FoundHere
<1>2. stack' = s /\ cur_cmd' = cur_cmd + 1 /\ ~ret_to_prev_cmd' /\ status' = "running"
  BY <1>1 DEF Done
<1> QED BY <1>1, <1>2, ArrivesInShape, Zenon

\* An operator that is over leaves nothing.
LEMMA OverInShape ==
    ASSUME TypeOK, ShapeInv, program \in Faithful, NEW v,
           NEW ops, ops \subseteq Offers \cup Works \cup {"goto", "ifthen", "assign", "endturn", "print"},
           Evaluating(ops), NEW s \in Seq(Element), s = <<>>, Done(s, v)
    PROVE  ShapeInv'
<1>1. Here.op \in ops /\ (ret_to_prev_cmd => Here.op \in PlayerGF)
  BY FoundHere
<1>2. Behind(KindsHere, Here) = <<>> /\ ~ret_to_prev_cmd
  BY <1>1, BehindWhat, OpClasses
<1>3. AreOf(s, Behind(KindsHere, Here))
  BY <1>2, EmptyStack
<1> QED BY <1>2, <1>3, DoneInShape

LEMMA PushesInShape ==
    ASSUME TypeOK, ShapeInv, program \in Faithful, PushConst \/ SimpleFunction
    PROVE  ShapeInv'
<1>1. CASE PushConst
  <2>1. Evaluating(Pushing) /\ Done(<<Here>> \o stack, values)
    BY <1>1 DEF PushConst, Pushing
  <2>2. /\ Here \in Element /\ Here.op \in Pushing /\ Kind(Here) \in Kinds
        /\ KindsHere \in Seq(Kinds) /\ stack \in Seq(Element) /\ program \in Programs
        /\ cur_cmd \in DOMAIN program.code
    BY <2>1, FoundHere
  <2>3. ~ret_to_prev_cmd /\ AreOf(stack, KindsHere)
    BY <2>1, <2>2, FoundHere, OpClasses
  <2>4. OfKind(Here, Kind(Here))
    <3>1. Here.op = "label" => Here.n \in ToSet(program.starts)
      BY <2>2, SoundCode, Zenon DEF Here
    <3>2. Here.op # "nonzero"
      BY <2>2 DEF Pushing
    <3> QED BY <3>1, <3>2 DEF OfKind, Kind
  <2>5. AreOf(<<Here>> \o stack, <<Kind(Here)>> \o KindsHere)
    BY <2>2, <2>3, <2>4, AreOfPushed
  <2>6. AreOf(<<Here>> \o stack, Behind(KindsHere, Here))
    BY <2>2, <2>5, BehindWhat
  <2> QED BY <2>1, <2>3, <2>6, DoneInShape
<1>2. CASE SimpleFunction
  <2> DEFINE e == IntElem(Told(Here.op))
  <2>1. Evaluating(SimpleGF) /\ Done(<<e>> \o stack, values)
    BY <1>2 DEF SimpleFunction
  <2>2. /\ Here.op \in SimpleGF /\ KindsHere \in Seq(Kinds) /\ stack \in Seq(Element)
    BY <2>1, FoundHere
  <2>3. ~ret_to_prev_cmd /\ AreOf(stack, KindsHere)
    BY <2>1, <2>2, FoundHere, OpClasses
  <2>4. OfKind(e, "int") /\ "int" \in Kinds
    BY NumbersAreInts DEF Kinds, Ops
  <2> HIDE DEF e
  <2>5. stack \in Seq(Element \cup {e}) /\ e \in Element \cup {e}
    BY <2>2
  <2>6. AreOf(<<e>> \o stack, <<"int">> \o KindsHere)
    BY <2>2, <2>3, <2>4, <2>5, AreOfPushed
  <2>7. AreOf(<<e>> \o stack, Behind(KindsHere, Here))
    BY <2>2, <2>6, BehindWhat
  <2> QED BY <2>1, <2>3, <2>7, DoneInShape
<1> QED BY <1>1, <1>2

LEMMA NothingLeft == ASSUME NEW S, NEW s \in Seq(S), Len(s) = 0 PROVE s = <<>>
OBVIOUS

LEMMA JumpsInShape ==
    ASSUME TypeOK, ShapeInv, program \in Faithful, OpGo \/ OpIfThen
    PROVE  ShapeInv'
<1> DEFINE ops == {"goto", "ifthen"}
           end == Len(program.code) + 1
           exits == ToSet(program.starts) \cup {end}
<1>1. Evaluating({"goto"}) \/ Evaluating({"ifthen"})
  BY DEF OpGo, OpIfThen
<1>2. Evaluating(ops)
  BY <1>1 DEF Evaluating
<1>3. /\ program \in Programs /\ program' = program /\ status = "running"
      /\ cur_cmd \in DOMAIN program.code /\ cur_cmd + 1 \in 1..end
      /\ Takes(KindsHere, Here.op) /\ Here.op \in ops
      /\ KindsHere \in Seq(Kinds) /\ stack \in Seq(Element)
      /\ Shape(program.code)[cur_cmd + 1] = Behind(KindsHere, Here)
  BY <1>2, FoundHere
<1>4. ~ret_to_prev_cmd /\ AreOf(stack, KindsHere) /\ Behind(KindsHere, Here) = <<>>
  BY <1>2, <1>3, FoundHere, OpClasses, BehindWhat
<1>5. Len(KindsHere) = 1
  BY <1>3 DEF Takes
<1>6. /\ stack # <<>> /\ OfKind(stack[1], KindsHere[1])
      /\ Tail(stack) \in Seq(Element) /\ AreOf(Tail(stack), Tail(KindsHere))
      /\ Tail(KindsHere) \in Seq(Kinds) /\ Len(Tail(KindsHere)) = 0
  <2>1. Len(KindsHere) >= 1 /\ Len(KindsHere) - 1 = 0
    BY <1>5
  <2> QED BY <1>3, <1>4, <2>1, AreOfPopped
<1>7. Tail(KindsHere) = <<>>
  BY <1>6, NothingLeft
<1>8. AreOf(Tail(stack), <<>>)
  BY <1>6, <1>7
<1>9. /\ exits \subseteq 1..end
      /\ \A k \in exits : Shape(program.code)[k] = <<>>
      /\ Here.op = "label" => Here.n \in ToSet(program.starts)
      /\ Here.op = "ifthen" => SkipFrom(program.code, cur_cmd) \in exits
  BY <1>3, SoundCode, Zenon DEF Here
<1>10. CASE OpGo
  <2>1. Evaluating({"goto"})
    BY <1>10 DEF OpGo
  <2>2. Here.op = "goto"
    BY <2>1 DEF Evaluating, Here
  <2>3. KindsHere[1] = "label"
    BY <1>3, <2>2 DEF Takes
  <2>4. stack[1].op = "label" /\ stack[1].n \in ToSet(program.starts)
    BY <1>6, <2>3 DEF OfKind
  <2>5. cur_cmd' = stack[1].n /\ stack' = Tail(stack) /\ UNCHANGED <<ret_to_prev_cmd, status>>
    BY <1>6, <1>10, <2>4 DEF OpGo
  <2>6. stack[1].n \in 1..end /\ Shape(program.code)[stack[1].n] = <<>>
    BY <1>9, <2>4
  <2>7. AreOf(stack', Shape(program.code)[stack[1].n])
    BY <1>8, <2>5, <2>6
  <2> QED BY <1>3, <1>4, <2>5, <2>6, <2>7, ArrivesInShape
<1>11. CASE OpIfThen
  <2>1. Evaluating({"ifthen"})
    BY <1>11 DEF OpIfThen
  <2>2. Here.op = "ifthen"
    BY <2>1 DEF Evaluating, Here
  <2>3. KindsHere[1] \in Integral
    BY <1>3, <2>2 DEF Takes
  <2>4. stack[1].op = "int"
    BY <1>6, <2>3 DEF OfKind, Integral
  <2> DEFINE next == IF stack[1].n # 0 THEN cur_cmd + 1 ELSE SkipFrom(program.code, cur_cmd)
  <2>5. cur_cmd' = next /\ stack' = Tail(stack) /\ UNCHANGED <<ret_to_prev_cmd, status>>
    BY <1>6, <1>11, <2>4 DEF OpIfThen
  <2>6. next \in 1..end /\ Shape(program.code)[next] = <<>>
    <3>1. cur_cmd + 1 \in 1..end /\ Shape(program.code)[cur_cmd + 1] = <<>>
      BY <1>3, <1>4
    <3>2. SkipFrom(program.code, cur_cmd) \in exits
      BY <1>9, <2>2
    <3>3. /\ SkipFrom(program.code, cur_cmd) \in 1..end
          /\ Shape(program.code)[SkipFrom(program.code, cur_cmd)] = <<>>
      BY <1>9, <3>2
    <3> QED BY <3>1, <3>3
  <2> HIDE DEF next
  <2>7. AreOf(stack', Shape(program.code)[next])
    BY <1>8, <2>5, <2>6
  <2> QED BY <1>3, <1>4, <2>5, <2>6, <2>7, ArrivesInShape
<1> QED BY <1>10, <1>11

\* Two operands are on the stack.
LEMMA TwoOperands ==
    ASSUME NEW s \in Seq(Element), NEW kinds \in Seq(Kinds), AreOf(s, kinds), Len(kinds) >= 2
    PROVE  /\ Len(s) >= 2 /\ OfKind(s[1], kinds[1]) /\ OfKind(s[2], kinds[2])
           /\ s[1] \in Element /\ s[2] \in Element
           /\ Tail(Tail(s)) \in Seq(Element) /\ Tail(Tail(kinds)) \in Seq(Kinds)
           /\ AreOf(Tail(Tail(s)), Tail(Tail(kinds)))
<1> DEFINE t == Tail(s)
           k == Tail(kinds)
<1>1. /\ Len(s) >= 1 /\ OfKind(s[1], kinds[1]) /\ s[1] \in Element
      /\ t \in Seq(Element) /\ k \in Seq(Kinds) /\ AreOf(t, k) /\ Len(k) = Len(kinds) - 1
  <2>1. Len(kinds) >= 1
    OBVIOUS
  <2> QED BY <2>1, AreOfPopped
<1>2. Len(s) = Len(kinds) /\ Len(kinds) \in Nat
  BY DEF AreOf
<1>3. t[1] = s[2] /\ k[1] = kinds[2]
  BY <1>2
<1> HIDE DEF t, k
<1>4. Len(k) >= 1
  BY <1>1, <1>2
<1>5. /\ OfKind(t[1], k[1]) /\ t[1] \in Element
      /\ Tail(t) \in Seq(Element) /\ Tail(k) \in Seq(Kinds) /\ AreOf(Tail(t), Tail(k))
  BY <1>1, <1>4, AreOfPopped
<1> QED BY <1>1, <1>2, <1>3, <1>5 DEF t, k

LEMMA OrdersInShape ==
    ASSUME TypeOK, ShapeInv, program \in Faithful,
           Assign \/ PrintStack \/ Unused \/ SendOffer \/ SendWork \/ SendTurn
    PROVE  ShapeInv'
<1> DEFINE closing == Offers \cup Works \cup {"goto", "ifthen", "assign", "endturn", "print"}
<1>0. <<>> \in Seq(Element)
  OBVIOUS
<1>1. ASSUME NEW ops, ops \subseteq closing, Evaluating(ops), NEW v, Done(<<>>, v)
      PROVE  ShapeInv'
  <2> HIDE DEF closing
  <2>1. ops \subseteq Offers \cup Works \cup {"goto", "ifthen", "assign", "endturn", "print"}
    BY <1>1 DEF closing
  <2> QED BY <1>0, <1>1, <2>1, OverInShape
<1>2. ASSUME NEW ops, ops \subseteq closing, Evaluating(ops)
      PROVE  /\ Takes(KindsHere, Here.op) /\ Here.op \in ops /\ ~ret_to_prev_cmd
             /\ KindsHere \in Seq(Kinds) /\ stack \in Seq(Element) /\ AreOf(stack, KindsHere)
             /\ Len(stack) = Len(KindsHere)
  <2>1. /\ Takes(KindsHere, Here.op) /\ Here.op \in ops
        /\ KindsHere \in Seq(Kinds) /\ stack \in Seq(Element)
    BY <1>2, FoundHere
  <2>2. Here.op \notin PlayerGF
    BY <1>2, <2>1, OpClasses
  <2>3. ~ret_to_prev_cmd
    BY <1>2, <2>2, FoundHere
  <2>4. AreOf(stack, KindsHere)
    BY <1>2, <2>3, FoundHere
  <2> QED BY <2>1, <2>3, <2>4 DEF AreOf
<1>3. CASE Assign
  <2>1. Evaluating({"assign"}) /\ {"assign"} \subseteq closing
    BY <1>3 DEF Assign
  <2>2. /\ Takes(KindsHere, "assign") /\ KindsHere \in Seq(Kinds) /\ stack \in Seq(Element)
        /\ AreOf(stack, KindsHere) /\ Len(stack) = Len(KindsHere)
    <3> HIDE DEF closing
    <3>1. Here.op = "assign"
      BY <2>1, <1>2
    <3> QED BY <2>1, <1>2, <3>1
  <2>3. Len(KindsHere) = 2 /\ KindsHere[1] = "addr" /\ KindsHere[2] \in Integral
    BY <2>2 DEF Takes
  <2>4. /\ Len(stack) >= 2 /\ OfKind(stack[1], "addr") /\ OfKind(stack[2], KindsHere[2])
        /\ Tail(Tail(stack)) \in Seq(Element)
    BY <2>2, <2>3, TwoOperands
  <2>5. stack[1].op = "addr" /\ stack[2].op = "int"
    BY <2>3, <2>4 DEF OfKind, Integral
  <2>6. Done(Tail(Tail(stack)), [values EXCEPT ![stack[1].n] = stack[2].n])
    BY <1>3, <2>4, <2>5 DEF Assign
  <2>7. Tail(Tail(stack)) = <<>>
    <3>1. stack \in Seq(Element) /\ Len(stack) = 2
      BY <2>2, <2>3
    <3> DEFINE t == Tail(stack)
    <3>2. t \in Seq(Element) /\ Len(t) = 1
      BY <3>1
    <3> HIDE DEF t
    <3>3. Tail(t) \in Seq(Element) /\ Len(Tail(t)) = 0
      BY <3>2
    <3>4. Tail(t) = <<>>
      BY <3>3, NothingLeft
    <3> QED BY <3>4 DEF t
  <2> QED BY <1>1, <2>1, <2>6, <2>7
<1>4. CASE PrintStack
  <2>1. Evaluating({"print"}) /\ {"print"} \subseteq closing /\ Done(<<>>, values)
    BY <1>4 DEF PrintStack
  <2> QED BY <1>1, <2>1
<1>5. CASE Unused
  <2>1. Evaluating(Offers \cup Works) /\ Offers \cup Works \subseteq closing /\ Done(<<>>, values)
    BY <1>5 DEF Unused
  <2> QED BY <1>1, <2>1
<1>6. CASE SendOffer
  <2>1. Evaluating(Offers) /\ Offers \subseteq closing
    BY <1>6 DEF SendOffer
  <2>2. /\ Takes(KindsHere, Here.op) /\ Here.op \in Offers
        /\ KindsHere \in Seq(Kinds) /\ stack \in Seq(Element) /\ AreOf(stack, KindsHere)
    BY <2>1, <1>2
  <2>3. Len(KindsHere) >= 2 /\ KindsHere[1] \in Readable /\ KindsHere[2] \in Readable
    BY <2>2 DEF Takes
  <2>4. Len(stack) >= 2 /\ OfKind(stack[1], KindsHere[1]) /\ OfKind(stack[2], KindsHere[2])
    BY <2>2, <2>3, TwoOperands
  <2>5. Len(stack) \in Nat
    BY <2>2
  <2>6. HasNumber(stack, 1) /\ HasNumber(stack, 2)
    BY <2>3, <2>4, <2>5 DEF HasNumber, OfKind, Readable, Integral
  <2>7. Done(<<>>, values)
    BY <1>6, <2>6 DEF SendOffer
  <2> QED BY <1>1, <2>1, <2>7
<1>7. CASE SendWork
  <2>1. Evaluating(Works) /\ Works \subseteq closing
    BY <1>7 DEF SendWork
  <2>2. /\ Takes(KindsHere, Here.op) /\ Here.op \in Works
        /\ KindsHere \in Seq(Kinds) /\ stack \in Seq(Element) /\ AreOf(stack, KindsHere)
    BY <2>1, <1>2
  <2>3. Len(KindsHere) >= 1 /\ KindsHere[1] \in Readable
    BY <2>2 DEF Takes
  <2>4. Len(stack) >= 1 /\ OfKind(stack[1], KindsHere[1])
    BY <2>2, <2>3, AreOfPopped
  <2>5. HasNumber(stack, 1)
    BY <2>3, <2>4 DEF HasNumber, OfKind, Readable, Integral
  <2>6. Done(<<>>, values)
    BY <1>7, <2>5 DEF SendWork
  <2> QED BY <1>1, <2>1, <2>6
<1>8. CASE SendTurn
  <2>1. Evaluating({"endturn"}) /\ {"endturn"} \subseteq closing /\ Done(<<>>, values)
    BY <1>8 DEF SendTurn
  <2> QED BY <1>1, <2>1
<1> QED BY <1>3, <1>4, <1>5, <1>6, <1>7, <1>8

LEMMA ArithmeticInShape ==
    ASSUME TypeOK, ShapeInv, program \in Faithful, Arithmetic
    PROVE  ShapeInv'
<1> DEFINE op == Here.op
           rest == IF op \in Binary THEN Tail(Tail(stack)) ELSE Tail(stack)
           restKinds == IF op \in Binary THEN Tail(Tail(KindsHere)) ELSE Tail(KindsHere)
<1>1. Evaluating(Unary \cup Binary)
  BY DEF Arithmetic
<1>2. /\ Takes(KindsHere, op) /\ op \in Unary \cup Binary
      /\ KindsHere \in Seq(Kinds) /\ stack \in Seq(Element)
  BY <1>1, FoundHere
<1>3. ~ret_to_prev_cmd /\ AreOf(stack, KindsHere)
  BY <1>1, <1>2, FoundHere, OpClasses
<1>4. Len(KindsHere) >= 1 /\ KindsHere[1] \in Readable
  BY <1>2 DEF Takes
<1>5. /\ Len(stack) >= 1 /\ OfKind(stack[1], KindsHere[1])
      /\ Tail(stack) \in Seq(Element) /\ Tail(KindsHere) \in Seq(Kinds)
      /\ AreOf(Tail(stack), Tail(KindsHere))
  BY <1>2, <1>3, <1>4, AreOfPopped
<1>6. HasNumber(stack, 1)
  BY <1>4, <1>5 DEF HasNumber, OfKind, Readable, Integral
<1>7. ASSUME op \in Binary
      PROVE  /\ HasNumber(stack, 2) /\ (op \in Dividing => NumberOf(stack[2], values) # 0)
             /\ rest \in Seq(Element) /\ restKinds \in Seq(Kinds) /\ AreOf(rest, restKinds)
  <2>1. /\ Len(KindsHere) >= 2 /\ KindsHere[2] \in Readable
        /\ op \in Dividing => KindsHere[2] = "nonzero"
    BY <1>2, <1>7 DEF Takes
  <2>2. /\ Len(stack) >= 2 /\ OfKind(stack[2], KindsHere[2])
        /\ Tail(Tail(stack)) \in Seq(Element) /\ Tail(Tail(KindsHere)) \in Seq(Kinds)
        /\ AreOf(Tail(Tail(stack)), Tail(Tail(KindsHere)))
    BY <1>2, <1>3, <2>1, TwoOperands
  <2>3. HasNumber(stack, 2)
    BY <2>1, <2>2 DEF HasNumber, OfKind, Readable, Integral
  <2>4. op \in Dividing => NumberOf(stack[2], values) # 0
    BY <2>1, <2>2 DEF OfKind, NumberOf
  <2> QED BY <1>7, <2>2, <2>3, <2>4
<1>8. op \notin Binary => rest \in Seq(Element) /\ restKinds \in Seq(Kinds) /\ AreOf(rest, restKinds)
  BY <1>5
<1>9. ~Throws(op, stack, values)
  BY <1>6, <1>7, OpClasses DEF Throws
<1>10. Done(Calculated(op, stack, values), values)
  BY <1>9 DEF Arithmetic
<1> HIDE DEF rest, restKinds
<1>11. \E n : Calculated(op, stack, values) = <<IntElem(n)>> \o rest
  <2>1. CASE op \in Binary
    <3>1. op # "!" /\ op # "-U"
      BY <2>1 DEF Binary, Dividing
    <3>2. Calculated(op, stack, values)
            = <<IntElem(Result(op, NumberOf(stack[1], values), NumberOf(stack[2], values)))>> \o rest
      BY <2>1, <3>1 DEF Calculated, rest
    <3> QED BY <3>2
  <2>2. CASE op = "!"
    <3>1. op \notin Binary
      BY <2>2 DEF Binary, Dividing
    <3>2. Calculated(op, stack, values) = <<IntElem(Not(NumberOf(stack[1], values)))>> \o rest
      BY <2>2, <3>1 DEF Calculated, rest
    <3> QED BY <3>2
  <2>3. CASE op = "-U"
    <3>1. op \notin Binary
      BY <2>3 DEF Binary, Dividing
    <3>2. Calculated(op, stack, values) = <<IntElem(UnMinus(NumberOf(stack[1], values)))>> \o rest
      BY <2>3, <3>1 DEF Calculated, rest
    <3> QED BY <3>2
  <2> QED BY <1>2, <2>1, <2>2, <2>3 DEF Unary
<1>12. PICK n : Calculated(op, stack, values) = <<IntElem(n)>> \o rest
  BY <1>11
<1>13. Behind(KindsHere, Here) = <<"int">> \o restKinds
  <2>1. CASE op \in Binary
    BY <2>1, BehindWhat DEF restKinds
  <2>2. CASE op \notin Binary
    BY <1>2, <2>2, BehindWhat DEF restKinds
  <2> QED BY <2>1, <2>2
<1>14. AreOf(<<IntElem(n)>> \o rest, <<"int">> \o restKinds)
  <2> DEFINE e == IntElem(n)
             more == Element \cup {e}
  <2>1. OfKind(e, "int") /\ "int" \in Kinds
    BY NumbersAreInts DEF Kinds, Ops
  <2>2. rest \in Seq(Element) /\ restKinds \in Seq(Kinds) /\ AreOf(rest, restKinds)
    BY <1>7, <1>8
  <2> HIDE DEF e
  <2>3. rest \in Seq(more) /\ e \in more
    BY <2>2
  <2> HIDE DEF more
  <2>4. AreOf(<<e>> \o rest, <<"int">> \o restKinds)
    BY <2>1, <2>2, <2>3, AreOfPushed
  <2> QED BY <2>4 DEF e
<1>15. AreOf(Calculated(op, stack, values), Behind(KindsHere, Here))
  BY <1>12, <1>13, <1>14
<1> QED BY <1>1, <1>3, <1>10, <1>15, DoneInShape

LEMMA QuestionInShape ==
    ASSUME TypeOK, ShapeInv, program \in Faithful, Question
    PROVE  ShapeInv'
<1>1. Evaluating(PlayerGF) /\ ~ret_to_prev_cmd
  BY DEF Question
<1>2. /\ Takes(KindsHere, Here.op) /\ Here.op \in PlayerGF /\ program' = program
      /\ KindsHere \in Seq(Kinds) /\ stack \in Seq(Element) /\ AreOf(stack, KindsHere)
      /\ cur_cmd \in DOMAIN program.code /\ InShape /\ status = "running"
  BY <1>1, FoundHere
<1>3. Len(KindsHere) >= 1 /\ KindsHere[1] \in Integral
  BY <1>2 DEF Takes
<1>4. stack # <<>> /\ OfKind(stack[1], KindsHere[1]) /\ AreOf(Tail(stack), Tail(KindsHere))
  BY <1>2, <1>3, AreOfPopped
<1>5. stack[1].op = "int"
  BY <1>3, <1>4 DEF OfKind, Integral
<1>6. stack' = Tail(stack) /\ ret_to_prev_cmd' = TRUE /\ UNCHANGED <<cur_cmd, status>>
  BY <1>4, <1>5 DEF Question
<1>7. KindsHere' = KindsHere /\ Here' = Here
  BY <1>2, <1>6 DEF KindsHere, Here
<1>8. AreOf(stack', Tail(KindsHere'))
  BY <1>4, <1>6, <1>7
<1>9. AreOf(stack, Tail(KindsHere))'
  BY <1>2, <1>8 DEF AreOf, OfKind
<1>10. InShape'
  <2>1. cur_cmd \in 1..(Len(program.code) + 1)
    BY <1>2 DEF InShape
  <2> QED BY <1>2, <1>6, <1>7, <1>9, <2>1 DEF InShape
<1> QED BY <1>2, <1>6, <1>10 DEF ShapeInv

LEMMA AnswerInShape ==
    ASSUME TypeOK, ShapeInv, program \in Faithful, Answer
    PROVE  ShapeInv'
<1>1. Evaluating(PlayerGF) /\ ret_to_prev_cmd /\ ret_to_prev_cmd' = FALSE
  BY DEF Answer
<1>2. /\ Takes(KindsHere, Here.op) /\ Here.op \in PlayerGF /\ program' = program
      /\ program \in Programs
      /\ KindsHere \in Seq(Kinds) /\ stack \in Seq(Element) /\ InShape /\ status = "running"
      /\ Shape(program.code)[cur_cmd + 1] = Behind(KindsHere, Here)
      /\ cur_cmd + 1 \in 1..(Len(program.code) + 1)
  BY <1>1, FoundHere
<1>3. AreOf(stack, Tail(KindsHere))
  BY <1>1, <1>2 DEF InShape
<1>4. Len(KindsHere) >= 1 /\ Tail(KindsHere) \in Seq(Kinds)
  <2>1. Len(KindsHere) >= 1
    BY <1>2 DEF Takes
  <2>2. KindsHere # <<>>
    BY <1>2, <2>1
  <2> QED BY <1>2, <2>1, <2>2, Popped
<1>5. CASE p_info[main_info.last].is = "known"
  <2> DEFINE e == IntElem(p_info[main_info.last].raw)
             more == Element \cup {e}
  <2>1. stack' = <<e>> \o stack /\ cur_cmd' = cur_cmd + 1 /\ status' = "running"
    BY <1>2, <1>5 DEF Answer
  <2>2. OfKind(e, "int") /\ "int" \in Kinds
    BY NumbersAreInts DEF Kinds, Ops
  <2> HIDE DEF e
  <2>3. stack \in Seq(more) /\ e \in more
    BY <1>2
  <2> HIDE DEF more
  <2>4. AreOf(<<e>> \o stack, <<"int">> \o Tail(KindsHere))
    BY <1>3, <1>4, <2>2, <2>3, AreOfPushed
  <2>5. Behind(KindsHere, Here) = <<"int">> \o Tail(KindsHere)
    BY <1>2, BehindWhat
  <2>6. AreOf(stack', Shape(program.code)[cur_cmd + 1])
    BY <1>2, <2>1, <2>4, <2>5
  <2> QED BY <1>1, <1>2, <2>1, <2>6, ArrivesInShape
<1>6. CASE p_info[main_info.last].is # "known"
  <2>1. status' = "undefined" /\ UNCHANGED <<stack, cur_cmd>>
    BY <1>6 DEF Answer
  <2>2. cur_cmd \notin ToSet(program.starts)
    BY <1>1, <1>2, StartsEmpty
  <2> QED BY <1>2, <2>1, <2>2 DEF ShapeInv, Broken
<1> QED BY <1>5, <1>6

\* What leaves the machine alone does not bring it to an exception either.
LEMMA MachineAlone ==
    ASSUME TypeOK, ShapeInv, UNCHANGED machine, status' = status \/ status' = "undefined"
    PROVE  ShapeInv'
<1>1. UNCHANGED <<program, cur_cmd, stack, ret_to_prev_cmd>>
  BY DEF machine
<1>2. InShape' <=> InShape
  <2>1. KindsHere' = KindsHere /\ Here' = Here
    BY <1>1 DEF KindsHere, Here
  <2>2. AreOf(stack, IF ret_to_prev_cmd THEN Tail(KindsHere) ELSE KindsHere)'
          <=> AreOf(stack, IF ret_to_prev_cmd THEN Tail(KindsHere) ELSE KindsHere)
    BY <1>1, <2>1 DEF AreOf, OfKind
  <2> QED BY <1>1, <2>1, <2>2 DEF InShape
<1>3. SUFFICES ASSUME program \in Faithful
               PROVE  Broken' \/ (InShape' /\ status' # "terminated")
  BY <1>1 DEF ShapeInv
<1>4. CASE Broken
  BY <1>1, <1>4 DEF Broken
<1>5. CASE InShape /\ status # "terminated"
  <2>1. cur_cmd \in ToSet(program.starts) => stack = <<>>
    BY <1>3, <1>5, StartsEmpty
  <2> QED BY <1>1, <1>2, <1>5, <2>1 DEF Broken
<1> QED BY <1>3, <1>4, <1>5 DEF ShapeInv

LEMMA ShapeStep == ASSUME TypeOK, ShapeInv, [Next]_vars PROVE ShapeInv'
<1>1. CASE Evaluate
  <2>1. program' = program
    BY <1>1 DEF Evaluate, PushConst, OpGo, OpIfThen, Assign, Arithmetic, SimpleFunction, Question,
                Answer, PrintStack, Unused, SendOffer, SendWork, SendTurn, Evaluating
  <2>2. program \notin Faithful => ShapeInv'
    BY <2>1 DEF ShapeInv
  <2>3. ASSUME program \in Faithful
        PROVE  ShapeInv'
    BY <1>1, <2>3, PushesInShape, JumpsInShape, OrdersInShape, ArithmeticInShape,
       QuestionInShape, AnswerInShape DEF Evaluate
  <2> QED BY <2>2, <2>3
<1>2. CASE BotReads
  <2>1. UNCHANGED machine /\ (status' = status \/ status' = "undefined")
    BY <1>2 DEF BotReads, Starting, MonthBegins, PlayerCommand, LostAlivePlayer, AuctionResults,
                StopScript, Receive
  <2> QED BY <2>1, MachineAlone
<1>3. CASE Server
  <2>1. UNCHANGED machine /\ status' = status
    BY <1>3 DEF Server, ServerReads, NextPass, EndMonth, OtherTurns, OtherLeaves, ServerOnly
  <2> QED BY <2>1, MachineAlone
<1>4. CASE UNCHANGED vars
  <2>1. UNCHANGED machine /\ status' = status
    BY <1>4 DEF vars
  <2> QED BY <2>1, MachineAlone
<1> QED BY <1>1, <1>2, <1>3, <1>4 DEF Next

LEMMA ShapeInit == ASSUME Init PROVE ShapeInv
<1>1. /\ program \in Programs /\ cur_cmd = 1 /\ stack = <<>> /\ ~ret_to_prev_cmd
      /\ status = "running"
  BY DEF Init
<1>2. SUFFICES ASSUME program \in Faithful PROVE InShape
  BY <1>1 DEF ShapeInv
<1>3. program.code \in Seq(Coded) /\ Len(program.code) \in Nat
  BY <1>1, <1>2, SoundCode
<1>4. 1 \in 1..(Len(program.code) + 1)
  BY <1>3
<1>5. KindsHere = <<>>
  BY <1>1, <1>3, <1>4, ShapeIs DEF KindsHere, Shaped
<1>6. AreOf(stack, KindsHere)
  <2>1. <<>> \in Seq(Element)
    OBVIOUS
  <2> QED BY <1>1, <1>5, <2>1, EmptyStack
<1> QED BY <1>1, <1>4, <1>6 DEF InShape

\* A program whose elements find on the stack, in the order of the code, what they
\* take never ends in an exception and begins every operator with an empty stack,
\* however its questions are delayed, crossed or never answered.
THEOREM BotRunsClean == Spec => []RunsClean
<1>1. Init => TypeOK /\ ShapeInv
  BY InitType, ShapeInit
<1>2. TypeOK /\ ShapeInv /\ [Next]_vars => (TypeOK /\ ShapeInv)'
  BY StepType, ShapeStep
<1>3. TypeOK /\ ShapeInv => RunsClean
  BY ShapeMeansClean
<1> QED BY <1>1, <1>2, <1>3, PTL DEF Spec
=============================================================================
