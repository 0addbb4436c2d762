-------------------------- MODULE MCSyntaxAnalyzer --------------------------
(***************************************************************************)
(* The scripts the compiler is checked on: Programs have the forms it      *)
(* supports, Careless are scripts it cuts short, refuses or breaks on.     *)
(***************************************************************************)
EXTENDS ScriptProperties

x == Var("$x")   production == Ask("?production", Fun("?my_id"))

\* The operations of an expression bind tighter from left to right.
Rising == {ops \in ALOperations \X ALOperations :
              /\ "!" \notin {ops[1], ops[2]} /\ Priority(ops[1]) < Priority(ops[2])}

\* A minus before a number is binary behind a number only, and a number behind
\* a parenthesis starts no second operand of it.
Tails == {x, Paren(Chain(<<Num(2), x>>, <<"+">>)), Un("-U", Num(2)), Un("!", x)}
Chains ==
    {Chain(<<Num(3), t>>, <<op>>) : t \in {Num(2), x}, op \in ALOperations \ {"!"}}
    \cup {Chain(<<Num(3), x, t>>, ops) : t \in Tails, ops \in Rising}
    \cup {Chain(<<Paren(Chain(<<Num(1), x, Num(2)>>, <<"=", "*">>)), x>>, <<op>>) :
             op \in ALOperations \ {"!"}}

Values     == {Num(2), x, Fun("?turn"), production, Un("-U", Num(2)), Un("!", x)} \cup Chains
Conditions == {Num(1), x, Fun("?turn"), production, Chain(<<x, Num(2)>>, <<"<">>),
               Chain(<<x, x, Num(4)>>, <<"&", "=">>)}
Amounts    == {Num(2), Fun("?supply"), production}
Prices     == {Num(5), x, Fun("?raw_price")}

\* A first operand that is a variable needs a second that is not, and a function
\* with an argument needs one without to turn round with.
Orders ==
    {Order(w, <<a, p>>) : w \in {"buy", "sell"}, a \in Amounts \ {production}, p \in Prices}
    \cup {Order("sell", <<production, Fun("?production_price")>>)}
    \cup {Order(w, <<a>>) : w \in {"prod", "build"}, a \in {Num(2), x, Fun("?active_players")}}
    \cup {Show(<<Text(1), Fun("?turn"), Num(7)>>), Endturn}

Start == <<Labelled("@begin", Show(<<Text(1), Fun("?turn")>>)), AssignTo("$x", Num(2))>>
End   == <<Labelled("@end", Endturn), GotoTo("@begin")>>

Supported ==
    {Example, Curious} \cup
    {Start \o <<AssignTo("$y", v)>> \o End : v \in Values}
    \cup {Start \o <<IfThen(c, body)>> \o End : c \in Conditions,
             body \in Orders \cup {AssignTo("$y", x), GotoTo("@begin")}}
    \cup {Start \o <<Labelled("@again", AssignTo("$x", v)), o, GotoTo("@again")>> :
             v \in {x, Num(1), production}, o \in Orders}

Careless ==
    {Script(p) : p \in {Muddled,
        <<AssignTo("$x", Num(1)), AssignTo("$x", Chain(<<x, Num(1)>>, <<"+">>)), Endturn>>,
        <<AssignTo("$x", Chain(<<Num(1), Num(2), Num(3)>>, <<"+", "+">>)), Endturn>>,
        <<AssignTo("$x", Num(1)), Order("buy", <<x, x>>), Endturn>>,
        <<Order("sell", <<production, Num(5)>>), Endturn>>,
        <<Order("buy", <<Un("-U", Num(2)), Num(5)>>), Endturn>>,
        <<Labelled("@a", Order("prod", <<Num(2)>>)), Endturn, GotoTo("@a")>>,
        <<Labelled("@a", Order("prod", <<Num(2)>>)), AssignTo("$x", Num(1)),
          IfThen(x, Endturn), GotoTo("@a")>>,
        <<Labelled("@a", Order("buy", <<Un("-U", Num(2)), Num(5)>>)), Endturn>>,
        <<Labelled("@a", IfThen(Num(1), Endturn)), Labelled("@a", Endturn), GotoTo("@a")>>,
        <<GotoTo("@a"), Endturn>>,
        <<Labelled("@a", GotoTo("@a"))>>,
        <<Endturn, Show(<<x>>)>>,
        <<AssignTo("$x", Num(1)), Show(<<x>>), Endturn>>,
        <<AssignTo("$x", Num(1)), Show(<<x, Text(1)>>), Endturn>>,
        <<AssignTo("$x", Chain(<<Fun("?turn"), Num(1)>>, <<"-">>)), Endturn>>,
        <<AssignTo("$x", Ask("?raw", Num(1))), Endturn>>,
        <<AssignTo("$x", Ask("?raw", Ask("?raw", Fun("?my_id")))), Endturn>>,
        <<Endturn, AssignTo("$y", Paren(x))>>}}
    \cup {<<Word("turn"), Word(";")>>, <<Word("endturn")>>,
          <<Word("prod"), IntLexem(1), Word("endturn"), Word(";")>>,
          <<Lexem("label", "@a"), Word("endturn"), Word(";")>>,
          <<Lexem("variable", "$x"), Lexem("assign", ":="), IntLexem(1)>>,
          <<Lexem("variable", "$x"), Lexem("assign", ":="), Word("("), Word("(")>>,
          <<Lexem("variable", "$x"), Lexem("assign", ":="), IntLexem(1), IntLexem(2), Word(";")>>,
          <<Word("prod"), Word("*"), Word(";")>>,
          <<Word("buy"), IntLexem(1), Word("+"), IntLexem(2), Word(";"),
            Word("print"), IntLexem(1), Word(","), IntLexem(2), Word(";")>>,
          <<Lexem("label", "@a"), Word(":"), IntLexem(1), Word("*"), IntLexem(2), Word("then"),
            Word("endturn"), Word(";")>>,
          <<Lexem("label", "@a"), Word(":"), Word("buy"), IntLexem(1), Word("*"), Word("-"),
            IntLexem(2), Word(","), IntLexem(2), Word(";")>>}

MCPrograms == {[script |-> Script(p), operators |-> p] : p \in Supported}
MCScripts  == {p.script : p \in MCPrograms} \cup Careless
=============================================================================
