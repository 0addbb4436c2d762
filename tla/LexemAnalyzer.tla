---------------------------- MODULE LexemAnalyzer ----------------------------
(***************************************************************************)
(* The lexical analyser of the game scripts, LexemAnalyzer::Run: one       *)
(* symbol of the script after the other, with the state of the automaton,  *)
(* the buffer and the list of lexems.  No state of its own: a script is    *)
(* read in one call.                                                       *)
(*                                                                         *)
(* A symbol stands for a character, or for several in a row of which the   *)
(* automaton tells only the first; c is its class, and the rest says what  *)
(* it is.  "operator" is one of + - / * % < > , ; and "logic" one of       *)
(* & | ! , the sigils are ? @ $ , and "other" are all characters not named *)
(* (the byte 4 too, which is skipped like they are).                       *)
(***************************************************************************)
EXTENDS Naturals, Sequences, SequencesExt

Symbol(c, text, n) == [c |-> c, text |-> text, n |-> n]

Delimiters == {"operator", "equals", "logic", "paren"}

\* What a number or a keyword may be followed by, and an identifier.
EndsWord == {"blank", "operator", "equals", "colon"}
EndsName == EndsWord \cup {"paren"}

Cleared(s)         == [s EXCEPT !.cur_state = "START", !.buffer = <<>>]
Kept(s, ch)        == [s EXCEPT !.buffer = Append(@, ch)]
NewLexem(type, buffer) == [type |-> type, text |-> buffer]
ll_insert(s, type, buffer) == [s EXCEPT !.list = Append(@, NewLexem(type, buffer))]

-----------------------------------------------------------------------------
Goes(s, state, ch) == [Kept(s, ch) EXCEPT !.cur_state = state]

\* Characters that begin nothing are skipped without a word.
Start(s, ch) ==
    CASE ch.c = "digits"       -> Goes(s, "NUMBER", ch)
      [] ch.c = "sigil"        -> Goes(s, "IDENTIFIER", ch)
      [] ch.c = "letters"      -> Goes(s, "KEYWORD", ch)
      [] ch.c = "colon"        -> Goes(s, "ASSIGN", ch)
      [] ch.c = "quote"        -> Goes(s, "STRING", ch)
      [] ch.c \in Delimiters   -> Cleared(ll_insert(s, "DELIMITER", <<ch>>))
      [] OTHER                 -> s

\* Mutant: the character behind a word is not given back.
EndOf_Eats(s, type, ends, ch) ==
    Cleared(IF ch.c \in ends THEN ll_insert(s, type, s.buffer) ELSE s)

\* The word in the buffer is over: it is put into the list if the next
\* character may follow it, and lost if not; then that character is read again.
EndOf(s, type, ends, ch) ==
    Start(Cleared(IF ch.c \in ends THEN ll_insert(s, type, s.buffer) ELSE s), ch)

Number(s, ch) ==
    IF ch.c = "digits" THEN Kept(s, ch) ELSE EndOf(s, "INTEGER", EndsWord, ch)

Keyword(s, ch) ==
    IF ch.c = "letters" THEN Kept(s, ch) ELSE EndOf(s, "KEYWORD", EndsWord, ch)

\* A colon is a lexem only here, directly behind an identifier.
Identifier(s, ch) ==
    CASE ch.c \in {"digits", "letters", "underscore"} -> Kept(s, ch)
      [] ch.c = "colon" ->
            Cleared(ll_insert(ll_insert(s, "IDENTIFIER", s.buffer), "DELIMITER", <<ch>>))
      [] OTHER -> EndOf(s, "IDENTIFIER", EndsName, ch)

Assign(s, ch) ==
    IF ch.c = "equals" THEN Cleared(ll_insert(s, "ASSIGN", Append(s.buffer, ch)))
    ELSE Start(Cleared(s), ch)

String(s, ch) ==
    IF ch.c = "quote" THEN Cleared(ll_insert(s, "STRING", Append(s.buffer, ch)))
    ELSE Kept(s, ch)

Reads(s, ch) ==
    CASE s.cur_state = "START"      -> Start(s, ch)
      [] s.cur_state = "NUMBER"     -> Number(s, ch)
      [] s.cur_state = "IDENTIFIER" -> Identifier(s, ch)
      [] s.cur_state = "KEYWORD"    -> Keyword(s, ch)
      [] s.cur_state = "ASSIGN"     -> Assign(s, ch)
      [] s.cur_state = "STRING"     -> String(s, ch)

\* What is in the buffer at the end of the file is lost.
Run(text) ==
    FoldLeft(Reads, [cur_state |-> "START", buffer |-> <<>>, list |-> <<>>], text).list

=============================================================================
