---------------------- MODULE SyntaxAnalyzerProperties ----------------------
(***************************************************************************)
(* What the compiler of the game scripts is to guarantee.                  *)
(***************************************************************************)
EXTENDS SyntaxAnalyzer

-----------------------------------------------------------------------------
(***************************************************************************)
(* How a script is written down, as symbols, and what the lexical analyser *)
(* makes of it.                                                            *)
(***************************************************************************)
Lexer == INSTANCE LexemAnalyzer

Sym(c) == Lexer!Symbol(c, "", 0)
Blank  == Sym("blank")

WordClass(text) ==
    CASE text \in {"+", "-", "*", "/", "%", "<", ">", ",", ";"} -> "operator"
      [] text = "="                -> "equals"
      [] text \in {"&", "|", "!"} -> "logic"
      [] text \in {"(", ")"}      -> "paren"
      [] text = ":"                -> "colon"
      [] OTHER                     -> "letters"

Spelled(lexem) ==
    CASE lexem.type = "integer"  -> <<Lexer!Symbol("digits", "", lexem.n)>>
      [] lexem.type = "string"   -> <<Sym("quote"), Blank, Lexer!Symbol("other", "", lexem.n), Sym("quote")>>
      [] lexem.type = "assign"   -> <<Sym("colon"), Sym("equals")>>
      [] lexem.type = "word"     -> <<Lexer!Symbol(WordClass(lexem.text), lexem.text, 0)>>
      [] OTHER                   ->
            <<Sym("sigil"), Lexer!Symbol("letters", lexem.text, 0), Sym("underscore"), Sym("digits")>>

TypeRead(lexem) ==
    CASE lexem.type = "integer" -> "INTEGER"
      [] lexem.type = "string"  -> "STRING"
      [] lexem.type = "assign"  -> "ASSIGN"
      [] lexem.type = "word"    ->
            IF WordClass(lexem.text) = "letters" THEN "KEYWORD" ELSE "DELIMITER"
      [] OTHER -> "IDENTIFIER"

AsRead(l) == [k \in 1..Len(l) |-> [type |-> TypeRead(l[k]), text |-> Spelled(l[k])]]

IsColon(lexem) == lexem.text = ":"
NeedsEnd(lexem) == TypeRead(lexem) \in {"INTEGER", "KEYWORD", "IDENTIFIER"}

\* A script with blanks between its lexems, except before the colon of a label
\* and at the places of tight.
File(l, tight) ==
    FlattenSeq([k \in 1..Len(l) |->
        LET blank == k \notin tight /\ (k < Len(l) => ~IsColon(l[k + 1]))
        IN  Spelled(l[k]) \o (IF blank THEN <<Blank>> ELSE <<>>)])

\* The places where a blank may be left out: behind what is no word, and behind a
\* word before an operation, a comma, a semicolon or, for a name, a parenthesis.
NoBlank(l) ==
    {k \in 1..(Len(l) - 1) :
        \/ IsColon(l[k + 1])
        \/ ~NeedsEnd(l[k])
        \/ /\ l[k + 1].type = "word"
           /\ \/ WordClass(l[k + 1].text) \in {"operator", "equals"}
              \/ TypeRead(l[k]) = "IDENTIFIER" /\ WordClass(l[k + 1].text) = "paren"}

\* The lexical analyser gives the compiler the lexems of the script, however many
\* of the blanks that may be left out are left out; where a blank is needed and
\* missing, between a variable and := or a number and ) too, it gives something
\* else; and a word that ends the file without a blank is lost (Run, is_delimiter_symbol).
ReadsAsWritten ==
    list = 1 /\ status = "reading" =>
        LET free == NoBlank(lexems)
        IN  /\ Lexer!Run(File(lexems, {})) = AsRead(lexems)
            /\ Lexer!Run(File(lexems, free)) = AsRead(lexems)
            /\ \A k \in 1..(Len(lexems) - 1) :
                  LET first == IF IsColon(lexems[k]) THEN k - 1 ELSE k
                      near  == SubSeq(lexems, first, k + 1)
                  IN  k \in free <=> Lexer!Run(File(near, {k - first + 1})) = AsRead(near)
            /\ Lexer!Run(File(lexems, {Len(lexems)}))
                  = AsRead(IF NeedsEnd(Last(lexems)) THEN Front(lexems) ELSE lexems)

-----------------------------------------------------------------------------
\* Wherever a jump leads and wherever a false condition skips to, an operator
\* begins or the program is over; and a condition skips its own operator only
\* (label_insert, PolizOpGo and the list of terminators in PolizOpIfThen).
LandsOnOperators ==
    status = "accepted" =>
        \A k \in 1..Len(operators_list) :
            LET elem == operators_list[k]
                own  == CHOOSE j \in 1..Len(starts) :
                          /\ starts[j] <= k
                          /\ \A i \in 1..Len(starts) : starts[i] <= k => i <= j
            IN  /\ elem.op = "label" => elem.n \in ToSet(starts)
                /\ elem.op = "ifthen" =>
                      SkipFrom(operators_list, k)
                        = IF own = Len(starts) THEN Len(operators_list) + 1 ELSE starts[own + 1]

-----------------------------------------------------------------------------
Pops(op) ==
    CASE op \in {"ifthen", "goto", "prod", "build"} \cup Unary \cup PlayerGF -> 1
      [] op \in {"assign", "buy", "sell"} \cup Binary -> 2
      [] OTHER -> 0

Pushes(op) ==
    IF op \in {"int", "addr", "label", "str"} \cup GameFunctions \cup Unary \cup Binary THEN 1 ELSE 0

\* The height of the stack behind an element, or -1 once something is missing
\* or too much: an order refuses to work with more than its operands.
HeightBehind(h, op) ==
    IF \/ h < Pops(op)
       \/ op \in {"ifthen", "goto", "assign"} \cup (GameOperators \ {"print"}) /\ h # Pops(op)
    THEN -1
    ELSE IF op = "print" THEN 0 ELSE h - Pops(op) + Pushes(op)

\* The height behind every element of a code, on a stack that was empty before it.
Heights(code) ==
    LET height[k \in 0..Len(code)] ==
            IF k = 0 THEN 0 ELSE HeightBehind(height[k - 1], code[k].op)
    IN  height

CodeOf(k) ==
    SubSeq(operators_list, starts[k],
           IF k = Len(starts) THEN Len(operators_list) ELSE starts[k + 1] - 1)

\* Where an operand of an expression ends and where one begins.
OperandEnds(l, j) == l[j].type \in {"integer", "variable"} \/ l[j].text = ")"

OperandBegins(l, j) ==
    \/ l[j].type \in {"integer", "variable"} \/ l[j].text \in {"(", "!"}
    \/ IsUnMinus(l, j)

\* What the compiler does not ask for.  Two operands have an operation between them,
\* and an operation has its operands; a minus between a variable or a parenthesis and
\* a number is compiled as the sign of the number, so it counts as none.  What a label
\* is before does not begin like an expression: its first word is skipped as if it
\* were "if".  The first operand of an order is a function or one lexem before a
\* comma: a longer one passes when a comma is sought in the operator behind it, or
\* when the order has a label and its unary minus has been rewritten.
IllFormed(l) ==
    \E j \in 1..(Len(l) - 1) :
        \/ OperandEnds(l, j) /\ OperandBegins(l, j + 1)
        \/ l[j].text \in ALOperations /\ ~OperandBegins(l, j + 1)
        \/ l[j].text = "(" /\ ~OperandBegins(l, j + 1) /\ ~isValidGameFunction(l[j + 1].text)
        \/ /\ l[j + 1].text \in ALOperations \ {"!"} /\ ~IsUnMinus(l, j + 1)
           /\ ~OperandEnds(l, j)
        \/ l[j].text = ":" /\ OperandEnds(l, j + 1) /\ At(l, j + 2).type # "assign"
        \/ /\ l[j].text \in {"buy", "sell"}
           /\ ~isValidGameFunction(l[j + 1].text) /\ At(l, j + 2).text # ","

\* In every script that is accepted and not ill-formed, every operator finds on the
\* stack exactly what it takes and leaves the stack empty, so none is confused by the
\* one before it: an order with a wrong number of operands sends nothing, and neither
\* does an endturn that finds any (EvaluateFun of PolizBuy, PolizSell, PolizProd,
\* PolizBuild, PolizEndturn).
BalancedOperators ==
    ~IllFormed(lexems) =>
        \A k \in 1..Len(starts) : Heights(CodeOf(k))[Len(CodeOf(k))] = 0

-----------------------------------------------------------------------------
Linked == INSTANCE ListsProperties

Elements(s, Name(_)) == [k \in 1..Len(s) |-> [id |-> k, name |-> Name(s[k])]]

\* The lists in memory are the sequences the rest of this model takes them for,
\* at every length a script has: in order both ways, without a node lost or
\* dangling after the first, the last or another one is deleted; what is looked
\* up is the first of that name; a variable's address is its alone; and so for
\* the building sites and the requests of the game (pi_, ll_, label_ and op_
\* functions, List<Item<BuildsData>>, List<Item<MarketData>>).
ListsAreSequences ==
    status # "reading" =>
        /\ Linked!ElementsHold(Elements(operators_list, LAMBDA elem : elem.op))
        /\ Linked!LexemsHold(Elements(lexems, LAMBDA lexem : lexem.text))
        /\ Linked!LabelsHold(Elements(labels_list, LAMBDA label : label.name))
        /\ Linked!StackHolds(Elements(operators_list, LAMBDA elem : elem.op))
        /\ Linked!OperandsHold(Elements(operators_list, LAMBDA elem : elem.op))
        /\ Linked!AddressesHold(Elements(vars_list, LAMBDA name : name))
        /\ Linked!SitesHold(Len(starts))
        /\ Linked!RequestsHold(Len(starts))

=============================================================================
