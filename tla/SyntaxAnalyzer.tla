--------------------------- MODULE SyntaxAnalyzer ---------------------------
(***************************************************************************)
(* The bot's compiler: SyntaxAnalyzer::Run reads the lexems of a game      *)
(* script one operator at a time and appends its Polish notation to the    *)
(* list the stack machine executes.  Variables get addresses when they are *)
(* first assigned, and a label is known once its operator is compiled.     *)
(*                                                                         *)
(* A lexem has a type and a text; an integer has its value in n.  Places   *)
(* in the script and in the list are positions, one behind the end being   *)
(* the null pointer.  "undefined" is the dereference of a null pointer.    *)
(***************************************************************************)
EXTENDS Poliz, FiniteSets, SequencesExt

CONSTANT Scripts      \* the scripts, sequences of lexems

\* The words and signs of the language.  No number, variable or ":=" is one.
Reserved == {"if", "then", "goto", "print", "buy", "sell", "prod", "build", "endturn",
             "(", ")", ";", ",", ":"} \cup GameFunctions \cup Unary \cup Binary

ASSUME ScriptsAssumption ==
    \A l \in Scripts :
        /\ l \in Seq([type : STRING, text : STRING, n : Int])
        /\ \A k \in DOMAIN l :
              l[k].type \in {"integer", "variable", "assign"} => l[k].text \notin Reserved

VARIABLES
    lexems,           \* the script
    list,             \* the position of the next operator
    operators_list,   \* what has been compiled
    vars_list,        \* the names of the variables, in the order of their addresses
    labels_list,      \* the labels, and the positions of their operators
    status,           \* "reading", "accepted", "refused" or "undefined"
    starts            \* history: where every operator begins in operators_list

tables == <<vars_list, labels_list>>
vars == <<lexems, list, operators_list, tables, status, starts>>

Init ==
    /\ lexems \in Scripts /\ list = 1 /\ operators_list = <<>>
    /\ vars_list = <<>> /\ labels_list = <<>>
    /\ status = "reading" /\ starts = <<>>

-----------------------------------------------------------------------------
(***************************************************************************)
(* Lexems.                                                                 *)
(***************************************************************************)
At(l, i) == IF i \in DOMAIN l THEN l[i] ELSE [type |-> "none", text |-> "", n |-> 0]

\* The first of the given words from i on.
NextWord(l, i, words) ==
    LET found == {j \in i..Len(l) : l[j].text \in words}
    IN  IF found = {} THEN Len(l) + 1 ELSE Min(found)

\* The first lexem from i on that is not the given parenthesis.
Behind(l, i, paren) ==
    Min({j \in i..Len(l) : l[j].text # paren} \cup {Max({i, Len(l) + 1})})

AddressOf(names, text) == SelectInSeq(names, LAMBDA name : name = text)

-----------------------------------------------------------------------------
(***************************************************************************)
(* The operands.  Each is recognised ("yes"), not recognised ("no"), or    *)
(* runs the compiler into undefined behaviour; words are what it leaves to *)
(* be translated.                                                          *)
(***************************************************************************)
No      == [is |-> "no", kind |-> "none", words |-> <<>>]
Crashed == [No EXCEPT !.is = "undefined"]
Yes(kind, words) == [is |-> "yes", kind |-> kind, words |-> words]

\* A variable in as many opening as closing parentheses.  What follows is not
\* looked at, and the first lexem is what will be looked up.
VarRValue(l, i) ==
    LET name == Behind(l, i, "(")
        rest == Behind(l, name + 1, ")")
    IN  IF i > Len(l) THEN No
        ELSE IF name > Len(l) THEN Crashed
        ELSE IF l[name].type = "variable" /\ name - i = rest - name - 1 THEN Yes("rvalue", <<l[i]>>)
        ELSE No

\* The minus before a number, unless a number is before it, is the unary one.
IsUnMinus(l, j) ==
    /\ l[j].text = "-" /\ At(l, j + 1).type = "integer"
    /\ j > 1 /\ l[j - 1].type # "integer"

\* The lexical analyzer makes two lexems of "!=".
ALOperations == (Binary \ {"!="}) \cup {"!"}

Priority(op) ==
    CASE op \in Unary                -> 6
      [] op \in Dividing \cup {"*"} -> 5
      [] op \in {"+", "-"}           -> 4
      [] op \in {"<", ">"}           -> 3
      [] op = "="                    -> 2
      [] op \in {"&", "|"}           -> 1

Operation(text) == [type |-> "delimiter", text |-> text, n |-> 0]
Operations(texts) == [k \in 1..Len(texts) |-> Operation(texts[k])]

\* The operators above the last opening parenthesis are put out.
ClosingParen(s) ==
    LET open == SelectLastInSeq(s.ops, LAMBDA op : op = "(")
    IN  IF open = 0 THEN [s EXCEPT !.is = "no"]
        ELSE [s EXCEPT !.ops = SubSeq(s.ops, 1, open - 1),
                       !.out = @ \o Operations(Reverse(SubSeq(s.ops, open + 1, Len(s.ops))))]

\* An operator waits above operators of lower priority.  One that does not
\* bind tighter than the last empties the stack: both priorities are then
\* computed from wrong arguments, are -1 and stay so.
ALOperator(s, op) ==
    IF Last(s.ops) = "(" \/ Priority(Last(s.ops)) < Priority(op)
    THEN [s EXCEPT !.ops = Append(@, op)]
    ELSE [s EXCEPT !.is = "undefined"]

\* A lexem of an expression.  Behind a single number anything ends it.
ArithmeticLexem(s, l, j) ==
    IF s.is # "reading" THEN s
    ELSE IF s.ops = <<>> THEN [s EXCEPT !.is = "no"]
    ELSE IF l[j].type \in {"integer", "variable"} THEN [s EXCEPT !.out = Append(@, l[j])]
    ELSE IF l[j].text = "(" THEN [s EXCEPT !.ops = Append(@, "(")]
    ELSE IF l[j].text = ")" THEN ClosingParen(s)
    ELSE IF l[j].text \in ALOperations
         THEN ALOperator(s, IF IsUnMinus(l, j) THEN "-U" ELSE l[j].text)
    ELSE IF Len(s.out) = 1 /\ s.out[1].type = "integer" THEN [s EXCEPT !.is = "over"]
    ELSE [s EXCEPT !.is = "no"]

\* What has been read of an expression before its lexem j.
ReadTo(l, i, j) ==
    LET read[k \in i..j] ==
            IF k = i THEN [is |-> "reading", ops |-> <<"(">>, out |-> <<>>]
            ELSE ArithmeticLexem(read[k - 1], l, k - 1)
    IN  read[j]

\* Mutant: the operators that wait at the end of an expression are dropped.
Postfix_Unflushed(s, cut) ==
    IF s.is = "no" THEN No
    ELSE IF s.is = "undefined" \/ s.ops = <<>> THEN Crashed
    ELSE IF s.out # <<>> THEN Yes("arithmetic", s.out)
    ELSE No

\* The operators that still wait are put out.  When the script is cut off there
\* is no line number for them.
Postfix(s, cut) ==
    LET whole == ClosingParen(s)
    IN  IF s.is = "no" THEN No
        ELSE IF s.is = "undefined" \/ s.ops = <<>> THEN Crashed
        ELSE IF Last(s.ops) # "(" /\ cut /\ s.is # "over" THEN Crashed
        ELSE IF whole.ops = <<>> /\ whole.out # <<>> THEN Yes("arithmetic", whole.out)
        ELSE No

\* An arithmetic expression, put into postfix order up to a ";" or a "then".
EndOf(l, i) == NextWord(l, i, {";", "then"})

Arithmetic(l, i) ==
    IF i > Len(l) THEN No ELSE Postfix(ReadTo(l, i, EndOf(l, i)), EndOf(l, i) > Len(l))

\* Reading an expression rewrites its unary minuses in the script, where they
\* are no operations when the expression is read again.
Rewritten(l, i) ==
    LET end    == EndOf(l, i)
        New(j) == IF ReadTo(l, i, j).is = "reading" /\ IsUnMinus(l, j)
                  THEN [l[j] EXCEPT !.text = "-U"] ELSE l[j]
    IN  SubSeq(l, 1, i - 1) \o [k \in 1..(end - i) |-> New(i + k - 1)] \o SubSeq(l, end, Len(l))

OrElse(a, b) == IF a.is = "no" THEN b ELSE a

\* A game function; the only argument that is taken is one without arguments
\* of its own.  (No script here has empty parentheses.)
Asking(arg, l, j) ==
    IF arg.is # "yes" THEN arg
    ELSE IF arg.kind = "game" /\ At(l, j + 3).text = ")" THEN Yes("game", Append(arg.words, l[j]))
    ELSE No

isValidGameFunction(text) == text \in GameFunctions

GameStatement(l, i) ==
    LET game[j \in 1..(Len(l) + 2)] ==
            IF At(l, j).text \in SimpleGF THEN Yes("game", <<l[j]>>)
            ELSE IF ~isValidGameFunction(At(l, j).text) \/ At(l, j + 1).text # "(" \/ j + 2 > Len(l)
                 THEN No
            ELSE Asking(OrElse(VarRValue(l, j + 2),
                               OrElse(game[j + 2], Arithmetic(l, j + 2))), l, j)
    IN  IF i > Len(l) THEN No ELSE game[i]

Condition(l, i) == OrElse(Arithmetic(l, i), GameStatement(l, i))
Operand(l, i)   == OrElse(VarRValue(l, i), Condition(l, i))

-----------------------------------------------------------------------------
(***************************************************************************)
(* Translation of an operand.                                              *)
(***************************************************************************)
\* The address of a variable, or 0.  A parenthesis before the variable is looked
\* up in its place, and not found.
TransformRVal(word, names) == AddrElem(AddressOf(names, word.text))

ProcessArithmeticLexem(word, names) ==
    CASE word.type = "integer"  -> IntElem(word.n)
      [] word.type = "variable" -> TransformRVal(word, names)
      [] OTHER                  -> Elem(word.text, 0)

\* The argument that isCorrectGameStatement lets pass is a function again.
ProcessGameLexemArgument(word) == Elem(word.text, 0)

ProcessGameLexem(words) ==
    [k \in 1..(Len(words) - 1) |-> ProcessGameLexemArgument(words[k])]
        \o <<Elem(Last(words).text, 0)>>

Translated(operand, names) ==
    CASE operand.kind = "rvalue" -> <<TransformRVal(operand.words[1], names)>>
      [] operand.kind = "arithmetic" ->
            [k \in 1..Len(operand.words) |-> ProcessArithmeticLexem(operand.words[k], names)]
      [] operand.kind = "game" -> ProcessGameLexem(operand.words)

Declared(operand, names) == AddrElem(0) \notin ToSet(Translated(operand, names))

-----------------------------------------------------------------------------
(***************************************************************************)
(* The operators.  A compiled one has its code, the position behind it and *)
(* the variables known then; a refused one may have declared one, too.     *)
(***************************************************************************)
Compiled(code, next, names) == [is |-> "ok", code |-> code, next |-> next, names |-> names]
Refused(names)   == [is |-> "no", code |-> <<>>, next |-> 0, names |-> names]
Undefined(names) == [is |-> "undefined", code |-> <<>>, next |-> 0, names |-> names]

AssignedValue(value, l, i, names) ==
    LET end   == NextWord(l, i + 3, {";"})
        known == IF l[i].text \in ToSet(names) THEN names ELSE Append(names, l[i].text)
    IN  IF value.is = "undefined" THEN Undefined(names)
        ELSE IF value.is = "no" \/ end > Len(l) THEN Refused(names)
        ELSE IF ~Declared(value, known) THEN Refused(known)
        ELSE Compiled(Translated(value, known)
                        \o <<AddrElem(AddressOf(known, l[i].text)), Elem("assign", 0)>>,
                      end + 1, known)

isCorrectVarLValueStatement(lexem) == lexem.type = "variable"

AssignOperator(l, i, names) ==
    IF ~isCorrectVarLValueStatement(At(l, i)) \/ At(l, i + 1).type # "assign" THEN Refused(names)
    ELSE AssignedValue(Operand(l, i + 2), l, i, names)

\* The word "goto" itself is not looked at.
GoOperator(l, i, names, labels) ==
    LET known == {k \in 1..Len(labels) : labels[k].name = At(l, i + 1).text}
    IN  IF known = {} \/ At(l, i + 2).text # ";" THEN Refused(names)
        ELSE Compiled(<<LabelElem(labels[Min(known)].oper), Elem("goto", 0)>>, i + 3, names)

EndturnOperator(l, i, names) ==
    IF At(l, i + 1).text # ";" THEN Refused(names)
    ELSE Compiled(<<Elem("endturn", 0)>>, i + 2, names)

\* prod and build: the operand is one lexem.
Amount(amount, l, i, names) ==
    IF amount.is = "undefined" THEN Undefined(names)
    ELSE IF amount.is = "no" \/ At(l, i + 2).text # ";" \/ ~Declared(amount, names)
         THEN Refused(names)
    ELSE Compiled(Append(Translated(amount, names), Elem(l[i].text, 0)), i + 3, names)

BuildOperator(l, i, names) == Amount(Operand(l, i + 1), l, i, names)
ProdOperator(l, i, names)  == Amount(Operand(l, i + 1), l, i, names)

-----------------------------------------------------------------------------
(***************************************************************************)
(* buy and sell.  The two operands are to be left on the stack with the    *)
(* first on the top, so their elements are put out backwards.              *)
(***************************************************************************)
\* The second operand is a variable: it is put out before the first.
VariableFirst(code, buf) == code \o Reverse(buf)

\* The second operand is an expression: both lists are joined and turned round.
TurnedRound(buf, code) == Reverse(buf \o code)

isSimpleGF(elem) == elem.op \in SimpleGF

\* The second operand is a function.  A function with an argument is put out with
\* the argument, behind it.
Backwards(code) ==
    LET Emitted(k) ==
            IF code[k].op = "int" THEN <<code[k]>>
            ELSE IF ~isSimpleGF(code[k]) THEN <<>>
            ELSE IF k = Len(code) \/ isSimpleGF(code[k + 1]) THEN <<code[k]>>
            ELSE <<code[k], code[k + 1]>>
    IN  FlattenSeq([k \in 1..Len(code) |-> Emitted(Len(code) + 1 - k)])

\* Mutant: the operands are put out in the order of the script.
TradeCode_InOrder(l, i, names, amount, price) ==
    LET first == Translated(amount, names)
        code  == Translated(price, names)
    IN  first \o code \o <<Elem(l[i].text, 0)>>

\* A variable as the first operand goes to the front at once.
TradeCode(l, i, names, amount, price) ==
    LET first == Translated(amount, names)
        code  == Translated(price, names)
        front == IF amount.kind = "rvalue" THEN first ELSE <<>>
        buf   == IF amount.kind = "rvalue" THEN <<>> ELSE first
    IN  front \o (CASE price.kind = "rvalue"     -> VariableFirst(code, buf)
                    [] price.kind = "arithmetic" -> TurnedRound(buf, code)
                    [] price.kind = "game"       -> Backwards(buf \o code))
              \o <<Elem(l[i].text, 0)>>

\* The second operand is one lexem, before a ";".
PriceEnds(price, comma, l, names) ==
    price.is = "yes" /\ At(l, comma + 2).text = ";" /\ Declared(price, names)

\* With two variables there is no list to turn round.
AmountAndPrice(amount, price, comma, l, i, names) ==
    IF amount.is = "undefined" THEN Undefined(names)
    ELSE IF amount.is = "no" \/ ~Declared(amount, names) THEN Refused(names)
    ELSE IF price.is = "undefined" THEN Undefined(names)
    ELSE IF ~PriceEnds(price, comma, l, names) THEN Refused(names)
    ELSE IF amount.kind = "rvalue" /\ price.kind = "rvalue" THEN Undefined(names)
    ELSE Compiled(TradeCode(l, i, names, amount, price), comma + 3, names)

CommaBehind(l, i) == NextWord(l, i + 2, {","})

Trade(l, i, names) ==
    LET comma == CommaBehind(l, i)
    IN  AmountAndPrice(Operand(l, i + 1), Operand(l, comma + 1), comma, l, i, names)

BuyOperator(l, i, names)  == Trade(l, i, names)
SellOperator(l, i, names) == Trade(l, i, names)

-----------------------------------------------------------------------------
(***************************************************************************)
(* print.  Every item is one lexem; variables go to the front, and a list  *)
(* of nothing else is refused.                                             *)
(***************************************************************************)
\* Variables are put out at once, all else waits to be turned round.
ItemCode(s, item, names) ==
    LET code == Translated(item, names)
    IN  IF item.kind = "rvalue" THEN [s EXCEPT !.ret = @ \o code]
        ELSE [s EXCEPT !.buf = @ \o code]

PrintItem(s, item, l, j, names) ==
    IF s.is # "reading" THEN s
    ELSE IF l[j].type = "string" THEN [s EXCEPT !.buf = Append(@, StrElem(l[j].n))]
    ELSE IF item.is = "undefined" THEN [s EXCEPT !.is = "undefined"]
    ELSE IF item.is = "no"
         THEN CASE l[j].text = "," -> s
                [] l[j].text = ";" -> [s EXCEPT !.is = IF s.buf = <<>> THEN "no" ELSE "ok",
                                                !.next = j + 1]
                [] OTHER           -> [s EXCEPT !.is = "no"]
    ELSE IF At(l, j + 1).text \notin {";", ","} \/ ~Declared(item, names)
         THEN [s EXCEPT !.is = "no"]
    ELSE ItemCode(s, item, names)

PrintItems(l, i, names) ==
    LET read[j \in i..Len(l)] ==
            IF j = i THEN [is |-> "reading", ret |-> <<>>, buf |-> <<>>, next |-> 0]
            ELSE PrintItem(read[j - 1], Operand(l, j), l, j, names)
    IN  read[Len(l)]

Printed(s, names) ==
    CASE s.is = "ok" -> Compiled(s.ret \o Reverse(s.buf) \o <<Elem("print", 0)>>, s.next, names)
      [] s.is = "undefined" -> Undefined(names)
      [] OTHER -> Refused(names)

PrintOperator(l, i, names) == Printed(PrintItems(l, i, names), names)

GameOperators == {"print", "buy", "sell", "prod", "build", "endturn"}
isValidGameOperator(text) == text \in GameOperators

GameOperator(l, i, names) ==
    LET word == At(l, i).text
    IN  CASE word = "endturn"           -> EndturnOperator(l, i, names)
          [] word = "build"             -> BuildOperator(l, i, names)
          [] word = "prod"              -> ProdOperator(l, i, names)
          [] word = "sell"              -> SellOperator(l, i, names)
          [] word = "buy"               -> BuyOperator(l, i, names)
          [] word = "print"             -> PrintOperator(l, i, names)
          [] OTHER                      -> Refused(names)

-----------------------------------------------------------------------------
(***************************************************************************)
(* if and labels.  What an operator is made of is found by trying.         *)
(***************************************************************************)
\* The first attempt that is not refused; the variables a refused assignment has
\* declared stay.
BodyAfter(assign, l, i, labels) ==
    OrElse(assign, OrElse(GoOperator(l, i, assign.names, labels),
                          GameOperator(l, i, assign.names)))

Body(l, i, names, labels) == BodyAfter(AssignOperator(l, i, names), l, i, labels)

Conditional(cond, body, found, names) ==
    IF cond.is = "undefined" THEN Undefined(names)
    ELSE IF cond.is = "no" \/ ~Declared(cond, names) \/ ~found THEN Refused(names)
    ELSE IF body.is # "ok" THEN body
    ELSE [body EXCEPT !.code = Translated(cond, names) \o <<Elem("ifthen", 0)>> \o @]

\* The word "if" is not looked at, and "then" is sought up to the script's end.
IfOperator(l, i, names, labels) ==
    LET then == NextWord(l, i + 2, {"then"})
    IN  Conditional(Condition(l, i + 1), Body(l, then + 1, names, labels), then < Len(l), names)

\* A labelled game operator is tried as an if first, which rewrites what is
\* behind its word.
IfOrGame(if, l, i) == OrElse(if, GameOperator(Rewritten(l, i + 1), i, if.names))

LabelledAfter(assign, l, i, labels) ==
    OrElse(assign, OrElse(GoOperator(l, i, assign.names, labels),
                          IfOrGame(IfOperator(l, i, assign.names, labels), l, i)))

LabelOperator(l, i, names, labels) ==
    IF At(l, i + 1).text # ":" \/ i + 2 > Len(l) THEN Refused(names)
    ELSE LabelledAfter(AssignOperator(l, i + 2, names), l, i + 2, labels)

-----------------------------------------------------------------------------
(***************************************************************************)
(* Run: one pass of its loop for every operator.                           *)
(***************************************************************************)
\* What the operator read at the head of the list makes of it.
Proceed(result) ==
    /\ lexems' = lexems
    /\ \/ /\ result.is = "ok"
          /\ operators_list' = operators_list \o result.code
          /\ starts' = Append(starts, Len(operators_list) + 1)
          /\ list' = result.next /\ status' = status
       \/ /\ result.is = "no"
          /\ operators_list' = <<>> /\ starts' = <<>>
          /\ status' = "refused" /\ list' = list
       \/ /\ result.is = "undefined"
          /\ status' = "undefined"
          /\ UNCHANGED <<list, operators_list, starts>>
    /\ vars_list' = result.names

Reading == status = "reading" /\ list <= Len(lexems)

\* A label is known, once, from the end of its own operator on.
Label ==
    /\ Reading /\ lexems[list].type = "label"
    /\ \E result \in {LabelOperator(lexems, list, vars_list, labels_list)} :
          LET new == /\ result.is = "ok"
                     /\ \A k \in 1..Len(labels_list) : labels_list[k].name # lexems[list].text
          IN  /\ Proceed(result)
              /\ labels_list' =
                   IF new THEN Append(labels_list, [name |-> lexems[list].text,
                                                    oper |-> Len(operators_list) + 1])
                   ELSE labels_list

Assign ==
    /\ Reading /\ lexems[list].type = "variable"
    /\ Proceed(AssignOperator(lexems, list, vars_list))
    /\ UNCHANGED labels_list

If ==
    /\ Reading /\ lexems[list].text = "if"
    /\ Proceed(IfOperator(lexems, list, vars_list, labels_list))
    /\ UNCHANGED labels_list

Game ==
    /\ Reading /\ isValidGameOperator(lexems[list].text)
    /\ Proceed(GameOperator(lexems, list, vars_list))
    /\ UNCHANGED labels_list

\* The first operator of a script cannot be a goto.
Goto ==
    /\ Reading /\ lexems[list].text = "goto"
    /\ Proceed(IF starts = <<>> THEN Refused(vars_list)
               ELSE GoOperator(lexems, list, vars_list, labels_list))
    /\ UNCHANGED labels_list

Unknown ==
    /\ Reading
    /\ lexems[list].type \notin {"label", "variable"}
    /\ lexems[list].text \notin GameOperators \cup {"if", "goto"}
    /\ Proceed(Refused(vars_list))
    /\ UNCHANGED labels_list

Finish ==
    /\ status = "reading" /\ list > Len(lexems)
    /\ status' = "accepted"
    /\ UNCHANGED <<lexems, list, operators_list, tables, starts>>

Next == Label \/ Assign \/ If \/ Game \/ Goto \/ Unknown \/ Finish

Fairness == WF_vars(Next)
Spec == Init /\ [][Next]_vars /\ Fairness
=============================================================================
