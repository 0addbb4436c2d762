-------------------------- MODULE InputProperties --------------------------
(***************************************************************************)
(* What is right about the line editor of the client.                      *)
(***************************************************************************)
EXTENDS Input

\* The letters of a string, each of them the sequence of its bytes.
LettersOf(str) ==
    LET upTo[n \in 0..Len(str)] ==
            IF n = 0 THEN <<>>
            ELSE IF n > 1 /\ str[n] \in Trail THEN Append(upTo[n - 2], <<str[n - 1], str[n]>>)
            ELSE Append(upTo[n - 1], <<str[n]>>)
    IN  upTo[Len(str)]

Line == String(current_input, cur_pos)

\* A string is whole when no letter of two bytes has lost one of them.
Whole(str) ==
    \A i \in DOMAIN str :
        /\ str[i] \in Written
        /\ str[i] \in Lead => i < Len(str) /\ <<str[i], str[i + 1]>> \in Cyrillic
        /\ str[i] \in Trail => i > 1 /\ str[i - 1] \in Lead

\* The line never holds half a letter, and the cursor never stands inside one: every
\* handler moves and removes by bytes (src/srcs/Input.cpp:251-460,558-645) and looks
\* at pairs of bytes to see how many it should take.  What is kept to be shown again
\* is whole as well.
NoHalfLetters ==
    /\ Whole(Line)
    /\ 0 < CursorPos /\ CursorPos < cur_pos => current_input[CursorPos] \notin Trail
    /\ \A i \in DOMAIN input_history : Whole(input_history[i])
    /\ save_buf # Unwritten => Whole(save_buf)

Editor == INSTANCE LineEditor WITH
    Letters    <- {<<b>> : b \in Latin} \cup Cyrillic,
    Space      <- <<Blank>>,
    MaxLetters <- MAX_STR_COUNT,
    MaxLines   <- MAX_HISTORY_SIZE,
    Nothing    <- LettersOf(Unwritten),
    text   <- LettersOf(Line),
    behind <- Len(LettersOf(SubSeq(Line, CursorPos + 1, cur_pos))),
    lines  <- [i \in DOMAIN input_history |-> LettersOf(input_history[i])],
    place  <- ih_iter,
    draft  <- LettersOf(save_buf),
    kept   <- save_buf_read,
    handed <- LettersOf(SubSeq(result, 1, Len(result) - 1)),   \* without its end
    works  <- defined

\* To who types, the bytes are letters: every read does what the key does to a line of
\* letters, to the cursor between them and to the lines entered before, or nothing.
ImplementsEditor == Editor!Spec
=============================================================================
