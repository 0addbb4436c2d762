--------------------------- MODULE ScriptLanguage ---------------------------
(***************************************************************************)
(* The game scripts as their author means them: expressions and operators  *)
(* as trees, the lexems they are written with, and the code that does what *)
(* they say.  It is the reference the compiler is checked against, and the *)
(* source of the programs the bot is run with.                             *)
(***************************************************************************)
EXTENDS Poliz, SequencesExt

Lexem(type, text)   == [type |-> type, text |-> text, n |-> 0]
Word(text)          == Lexem("word", text)
IntLexem(n)         == [type |-> "integer", text |-> "number", n |-> n]

\* Expressions.  A chain is a1 o1 a2 o2 ... with the operations binding tighter
\* from left to right.
Num(n)           == [e |-> "number", n |-> n]
Var(name)        == [e |-> "variable", name |-> name]
Fun(f)           == [e |-> "function", f |-> f]
Ask(f, arg)      == [e |-> "ask", f |-> f, arg |-> arg]
Chain(args, ops) == [e |-> "chain", args |-> args, ops |-> ops]
Paren(a)         == [e |-> "paren", a |-> a]
Un(op, a)        == [e |-> "unary", op |-> op, a |-> a]

RECURSIVE Words(_)
Words(x) ==
    CASE x.e = "number"   -> <<IntLexem(x.n)>>
      [] x.e = "variable" -> <<Lexem("variable", x.name)>>
      [] x.e = "function" -> <<Lexem("function", x.f)>>
      [] x.e = "string"   -> <<[type |-> "string", text |-> "quoted", n |-> x.n]>>
      [] x.e = "ask"      -> <<Lexem("function", x.f), Word("(")>> \o Words(x.arg) \o <<Word(")")>>
      [] x.e = "paren"    -> <<Word("(")>> \o Words(x.a) \o <<Word(")")>>
      [] x.e = "unary"    -> <<Word(IF x.op = "-U" THEN "-" ELSE x.op)>> \o Words(x.a)
      [] x.e = "chain"    ->
            FlattenSeq([k \in 1..Len(x.args) |->
                IF k = 1 THEN Words(x.args[1]) ELSE <<Word(x.ops[k - 1])>> \o Words(x.args[k])])

RECURSIVE Code(_, _)
Code(x, names) ==
    CASE x.e = "number"   -> <<IntElem(x.n)>>
      [] x.e = "variable" -> <<Elem("addr", SelectInSeq(names, LAMBDA v : v = x.name))>>
      [] x.e = "function" -> <<Elem(x.f, 0)>>
      [] x.e = "string"   -> <<Elem("str", x.n)>>
      [] x.e = "ask"      -> Code(x.arg, names) \o <<Elem(x.f, 0)>>
      [] x.e = "paren"    -> Code(x.a, names)
      [] x.e = "unary"    -> Code(x.a, names) \o <<Elem(x.op, 0)>>
      [] x.e = "chain"    ->
            FlattenSeq([k \in 1..Len(x.args) |-> Code(x.args[k], names)])
                \o Reverse([k \in 1..Len(x.ops) |-> Elem(x.ops[k], 0)])

-----------------------------------------------------------------------------
(***************************************************************************)
(* Operators, with the label "" where there is none.                       *)
(***************************************************************************)
Text(n)            == [e |-> "string", n |-> n]
AssignTo(name, x)  == [s |-> "assign", label |-> "", name |-> name, x |-> x]
GotoTo(name)       == [s |-> "goto", label |-> "", name |-> name]
IfThen(x, body)    == [s |-> "if", label |-> "", x |-> x, body |-> body]
Order(word, args)  == [s |-> "order", label |-> "", word |-> word, args |-> args]
Show(items)       == Order("print", items)
Endturn            == Order("endturn", <<>>)
Labelled(name, st) == [st EXCEPT !.label = name]

Separated(args) ==
    FlattenSeq([k \in 1..Len(args) |->
        IF k = 1 THEN Words(args[1]) ELSE <<Word(",")>> \o Words(args[k])])

RECURSIVE Written(_)
Written(st) ==
    (IF st.label = "" THEN <<>> ELSE <<Lexem("label", st.label), Word(":")>>)
    \o (CASE st.s = "assign" ->
                <<Lexem("variable", st.name), Lexem("assign", ":=")>> \o Words(st.x) \o <<Word(";")>>
          [] st.s = "goto"  -> <<Word("goto"), Lexem("label", st.name), Word(";")>>
          [] st.s = "if"    -> <<Word("if")>> \o Words(st.x) \o <<Word("then")>> \o Written(st.body)
          [] st.s = "order" -> <<Word(st.word)>> \o Separated(st.args) \o <<Word(";")>>)

\* The first operand is on the top of the stack when the order is given.
RECURSIVE Meaning(_, _, _)
Meaning(st, names, labels) ==
    CASE st.s = "assign" ->
            Code(st.x, names) \o <<Elem("addr", SelectInSeq(names, LAMBDA v : v = st.name)),
                                   Elem("assign", 0)>>
      [] st.s = "goto"  -> <<Elem("label", labels[st.name]), Elem("goto", 0)>>
      [] st.s = "if"    ->
            Code(st.x, names) \o <<Elem("ifthen", 0)>> \o Meaning(st.body, names, labels)
      [] st.s = "order" ->
            FlattenSeq(Reverse([k \in 1..Len(st.args) |-> Code(st.args[k], names)]))
                \o <<Elem(st.word, 0)>>

\* The variable an operator assigns to.
Assigned(st) ==
    LET op == IF st.s = "if" THEN st.body ELSE st
    IN  IF op.s = "assign" THEN <<op.name>> ELSE <<>>

\* A program's script, and its code: operator by operator, with the variables
\* that have been assigned to and the labels that have been seen.
Script(program) == FlattenSeq([k \in 1..Len(program) |-> Written(program[k])])

Program(program) ==
    LET Step(c, st) ==
            LET names == IF Assigned(st) = <<>> \/ Contains(c.names, Assigned(st)[1])
                         THEN c.names ELSE c.names \o Assigned(st)
            IN  [names  |-> names,
                 labels |-> IF st.label = "" \/ st.label \in DOMAIN c.labels THEN c.labels
                            ELSE c.labels @@ (st.label :> Len(c.code) + 1),
                 starts |-> Append(c.starts, Len(c.code) + 1),
                 code   |-> c.code \o Meaning(st, names, c.labels)]
    IN  FoldLeft(Step, [names |-> <<>>, labels |-> <<>>, starts |-> <<>>, code |-> <<>>], program)

-----------------------------------------------------------------------------
(***************************************************************************)
(* Whole game scripts, compiled by SyntaxAnalyzer and executed by Bot.     *)
(***************************************************************************)
toprod == Var("$toprod")   count == Var("$raw_count")   mine == Fun("?my_id")

\* The repository's game_scripts/example.txt.
Example ==
    <<Labelled("@begin", Show(<<Text(1), Fun("?turn")>>)),
      Order("buy", <<Num(2), Fun("?raw_price")>>),
      Order("sell", <<Ask("?production", mine), Fun("?production_price")>>),
      AssignTo("$toprod", Num(2)),
      AssignTo("$raw_count", Ask("?raw", mine)),
      IfThen(Chain(<<count, toprod>>, <<"<">>), AssignTo("$toprod", Ask("?raw", mine))),
      Order("prod", <<toprod>>), Endturn, GotoTo("@begin")>>

\* A shorter one that asks for another player and skips an order.
Curious ==
    <<Labelled("@begin", AssignTo("$other", Ask("?raw", Fun("?players")))),
      Order("buy", <<Num(1), Fun("?raw_price")>>),
      IfThen(Chain(<<Var("$other"), Num(1)>>, <<"=">>), Order("prod", <<Num(1)>>)),
      Endturn, GotoTo("@begin")>>

\* One that the compiler accepts and does not compile as it is written.
Muddled ==
    <<Labelled("@begin", Show(<<Text(1)>>)), AssignTo("$x", Num(3)),
      IfThen(Chain(<<Var("$x"), Num(1)>>, <<"-">>), Order("prod", <<Num(1)>>)),
      Endturn, GotoTo("@begin")>>
=============================================================================
