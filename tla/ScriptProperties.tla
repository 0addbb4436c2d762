-------------------------- MODULE ScriptProperties --------------------------
(***************************************************************************)
(* The compiler against the meaning of the scripts it is written for.      *)
(***************************************************************************)
EXTENDS SyntaxAnalyzerProperties, ScriptLanguage

CONSTANT Programs     \* some of the scripts with the operators they are written from

\* A program of the supported forms is never refused, never breaks the compiler,
\* and compiles to what it says: operands in the order the machine takes them,
\* tighter operations first, jumps to the labelled operators (Run and
\* everything it calls).
CompilesAsWritten ==
    \A p \in Programs : p.script = lexems =>
        LET meant == Program(p.operators)
        IN  /\ status \in {"reading", "accepted"}
            /\ status = "accepted" => operators_list = meant.code /\ starts = meant.starts
=============================================================================
