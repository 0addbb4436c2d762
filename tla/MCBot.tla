------------------------------- MODULE MCBot -------------------------------
(***************************************************************************)
(* The bot with what the compiler makes of two scripts.                    *)
(***************************************************************************)
EXTENDS BotProperties, ScriptLanguage

MCFaithful == {Program(Curious)}

\* What the compiler makes of Muddled: the condition's minus becomes a unary one,
\* two values are left for the condition, and the order finds one too many.
Cluttered ==
    [code |-> <<Elem("str", 1), Elem("print", 0),
                IntElem(3), Elem("addr", 1), Elem("assign", 0),
                Elem("addr", 1), IntElem(1), Elem("-U", 0), Elem("ifthen", 0),
                IntElem(1), Elem("prod", 0), Elem("endturn", 0), Elem("label", 1), Elem("goto", 0)>>,
     starts |-> <<1, 3, 6, 12, 13>>, names |-> <<"$x">>]

MCPrograms == MCFaithful \cup {Cluttered}
MCPrice(m) == 100 + m
MCStock(p, m) == (p + m) % 2
=============================================================================
