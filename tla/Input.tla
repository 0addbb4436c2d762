------------------------------- MODULE Input -------------------------------
(***************************************************************************)
(* The line editor of the client as it is written: a buffer of bytes, the  *)
(* end of the line and the cursor as offsets, letters of one and of two    *)
(* bytes told apart by looking at pairs of bytes, and two counters of      *)
(* letters that say whether another one fits.  One step is one read of the *)
(* keyboard in Readline, which may return several keys at once.            *)
(*                                                                         *)
(* A deletion shifts what is behind it and sets one byte to zero, so bytes *)
(* of old letters stay behind the end of the line.  The screen is left     *)
(* out, and so are the reads that change nothing.                          *)
(***************************************************************************)
EXTENDS Integers, Sequences, FiniteSets

CONSTANTS
    Latin,              \* bytes 32..126
    Blank,              \* the space, one of them
    Lead, Trail,        \* first and second bytes of cyrillic letters
    Cyrillic,           \* rus_alpha_codes: the pairs that are letters
    Reads,              \* what read(0, read_sym, 6) may give
    MAX_STR_COUNT, MAX_HISTORY_SIZE

NUL == "NUL"
CTRL_W == "^W"
END == {"TAB", "LF"}
BACKSPACE == {"BS", "DEL"}
ARROW_UP == <<"ESC", "[", "A">>
ARROW_DOWN == <<"ESC", "[", "B">>
ARROW_RIGHT == <<"ESC", "[", "C">>
ARROW_LEFT == <<"ESC", "[", "D">>
DEL == <<"ESC", "[", "3", "~">>

MAX_BUFFER_SIZE == MAX_STR_COUNT * 2 + 2

Written == Latin \cup Lead \cup Trail     \* bytes of a line
Bytes == Written \cup {NUL}

ASSUME InputAssumption ==
    /\ MAX_STR_COUNT \in Nat \ {0} /\ MAX_HISTORY_SIZE \in Nat \ {0}
    /\ Blank \in Latin /\ Cyrillic \subseteq Lead \X Trail
    /\ Latin \cap Lead = {} /\ Latin \cap Trail = {} /\ Lead \cap Trail = {}
    /\ NUL \notin Written /\ "unwritten" \notin Written
    /\ \A sym \in Reads : Len(sym) \in 1..6 /\ sym = [i \in 1..Len(sym) |-> sym[i]]

VARIABLES
    current_input, cur_pos, left_offset,   \* the line, its end, the cursor from the end
    ascii, cyril,                          \* how many letters of each size
    input_history, ih_iter,                \* lines entered; Len + 1 is end()
    save_buf, save_buf_read,
    result,
    defined                                \* FALSE: bytes nobody wrote have been read

vars == <<current_input, cur_pos, left_offset, ascii, cyril,
          input_history, ih_iter, save_buf, save_buf_read, result, defined>>

line     == <<current_input, cur_pos, left_offset, ascii, cyril>>
browsing == <<input_history, ih_iter, save_buf, save_buf_read>>

Unwritten == <<"unwritten">>                 \* save_buf, which no constructor clears

Positions == 0..(MAX_BUFFER_SIZE - 1)
Clear     == [i \in Positions |-> NUL]
Total     == cyril + ascii                 \* TotalSymbolsCount
CursorPos == cur_pos - left_offset

\* The first n bytes of a buffer as a string.
String(buf, n) == [i \in 1..n |-> buf[i - 1]]

IsCyrillicSymbol(a, b) == <<a, b>> \in Cyrillic

\* AsciiSymbolsCount of the bytes of a string.
AsciiIn(str) == Cardinality({i \in DOMAIN str : str[i] \in Latin})
CyrilIn(str) == (Len(str) - AsciiIn(str)) \div 2

Init ==
    /\ current_input = Clear /\ cur_pos = 0 /\ left_offset = 0
    /\ ascii = 0 /\ cyril = 0
    /\ input_history = <<>> /\ ih_iter = 1
    /\ save_buf = Unwritten /\ save_buf_read = FALSE
    /\ result = <<>> /\ defined = TRUE

-----------------------------------------------------------------------------
(* Editing.                                                                *)

\* What is behind the cursor moves up; a zero is written behind it.
Inserted(sym) ==
    [i \in Positions |->
        IF i < CursorPos THEN current_input[i]
        ELSE IF i < CursorPos + Len(sym) THEN sym[i - CursorPos + 1]
        ELSE IF i < cur_pos + Len(sym) THEN current_input[i - Len(sym)]
        ELSE IF i = cur_pos + Len(sym) /\ left_offset > 0 THEN NUL
        ELSE current_input[i]]

\* Bytes from..to-1 go; what is behind them moves down, and the cleared bytes that
\* follow it are set to zero.
Removed(from, to, cleared) ==
    [i \in Positions |->
        IF i < from THEN current_input[i]
        ELSE IF i < cur_pos - (to - from) THEN current_input[i + (to - from)]
        ELSE IF i < cur_pos - (to - from) + cleared THEN NUL
        ELSE current_input[i]]

Edited == save_buf_read' = FALSE /\ UNCHANGED <<input_history, ih_iter, save_buf, result, defined>>

Alphabet(sym) ==
    /\ Total < MAX_STR_COUNT
    /\ current_input' = Inserted(sym)
    /\ cur_pos' = cur_pos + Len(sym)
    /\ IF Len(sym) = 2 THEN cyril' = cyril + 1 /\ UNCHANGED ascii
                       ELSE ascii' = ascii + 1 /\ UNCHANGED cyril
    /\ Edited /\ UNCHANGED left_offset

\* One letter less, of one or of two bytes.
OneLess(bytes) ==
    IF bytes = 2 THEN cyril' = cyril - 1 /\ UNCHANGED ascii
                 ELSE ascii' = ascii - 1 /\ UNCHANGED cyril

\* The letter before the cursor.  At the end of the line all its bytes are cleared,
\* elsewhere one byte is.
Backspace ==
    /\ left_offset < cur_pos
    /\ \E bytes \in {1, 2} :
          /\ bytes = 2 <=> CursorPos >= 2 /\ IsCyrillicSymbol(current_input[CursorPos - 2],
                                                              current_input[CursorPos - 1])
          /\ current_input' = Removed(CursorPos - bytes, CursorPos,
                                      IF left_offset = 0 THEN bytes ELSE 1)
          /\ cur_pos' = cur_pos - bytes
          /\ OneLess(bytes)
    /\ Edited /\ UNCHANGED left_offset

\* The letter at the cursor.
Del ==
    /\ left_offset > 0
    /\ \E bytes \in {1, 2} :
          /\ bytes = 2 <=> CursorPos + 1 < cur_pos /\ IsCyrillicSymbol(current_input[CursorPos],
                                                                       current_input[CursorPos + 1])
          /\ current_input' = Removed(CursorPos, CursorPos + bytes, 1)
          /\ cur_pos' = cur_pos - bytes /\ left_offset' = left_offset - bytes
          /\ OneLess(bytes)
    /\ Edited

\* Where the spaces before the cursor begin, or else the word.
WordBegins(from) ==
    LET blank(i) == current_input[i] = Blank
    IN  /\ \A i \in from..(CursorPos - 1) : blank(i) = blank(CursorPos - 1)
        /\ from > 0 => blank(from - 1) # blank(CursorPos - 1)

CtrlW ==
    /\ CursorPos > 0
    /\ \E from \in 0..(CursorPos - 1) :
          LET word == SubSeq(String(current_input, cur_pos), from + 1, CursorPos)
          IN  /\ WordBegins(from)
              /\ current_input' = Removed(from, CursorPos, CursorPos - from)
              /\ cur_pos' = cur_pos - (CursorPos - from)
              /\ ascii' = ascii - AsciiIn(word) /\ cyril' = cyril - CyrilIn(word)
    /\ Edited /\ UNCHANGED left_offset

-----------------------------------------------------------------------------
(* Moving.                                                                 *)

Moved == UNCHANGED <<current_input, cur_pos, ascii, cyril, browsing, result, defined>>

\* Mutant: the cursor goes one byte to the left.
ArrowLeft_Byte ==
    /\ left_offset < cur_pos
    /\ left_offset' = left_offset + 1
    /\ Moved

ArrowLeft ==
    /\ left_offset < cur_pos
    /\ left_offset' = left_offset +
          IF CursorPos > 1 /\ IsCyrillicSymbol(current_input[CursorPos - 2], current_input[CursorPos - 1])
          THEN 2 ELSE 1
    /\ Moved

ArrowRight ==
    /\ left_offset > 0
    /\ left_offset' = left_offset -
          IF left_offset > 1 /\ IsCyrillicSymbol(current_input[CursorPos], current_input[CursorPos + 1])
          THEN 2 ELSE 1
    /\ Moved

-----------------------------------------------------------------------------
(* The lines entered before.                                               *)

\* A line is put into the buffer, and its letters are counted.
Shown(str) ==
    /\ current_input' = [i \in Positions |-> IF i < Len(str) THEN str[i + 1] ELSE NUL]
    /\ cur_pos' = Len(str) /\ left_offset' = 0
    /\ ascii' = AsciiIn(str) /\ cyril' = CyrilIn(str)

ArrowUp ==
    /\ input_history # <<>>
    /\ save_buf' = IF save_buf_read THEN save_buf ELSE String(current_input, cur_pos)
    /\ save_buf_read' = TRUE
    /\ IF ih_iter # 1 THEN ih_iter' = ih_iter - 1 /\ Shown(input_history[ih_iter - 1])
                      ELSE UNCHANGED <<ih_iter, line>>
    /\ UNCHANGED <<input_history, result, defined>>

\* Behind the last line is save_buf, whether or not anything was saved.
ArrowDown ==
    /\ input_history # <<>>
    /\ ih_iter' = IF ih_iter # Len(input_history) + 1 THEN ih_iter + 1 ELSE ih_iter
    /\ IF ih_iter' # Len(input_history) + 1 THEN Shown(input_history[ih_iter']) /\ UNCHANGED defined
       ELSE IF save_buf # Unwritten THEN Shown(save_buf) /\ UNCHANGED defined
       ELSE defined' = FALSE /\ UNCHANGED line
    /\ UNCHANGED <<input_history, save_buf, save_buf_read, result>>

\* Mutant: what was saved counts for the next line too.
NewLine_Saved ==
    /\ current_input[0] # NUL
    /\ result' = Append(String(current_input, cur_pos), "LF")
    /\ input_history' = Append(
          IF Len(input_history) >= MAX_HISTORY_SIZE THEN Tail(input_history) ELSE input_history,
          String(current_input, cur_pos))
    /\ ih_iter' = Len(input_history') + 1
    /\ current_input' = Clear /\ cur_pos' = 0 /\ left_offset' = 0 /\ ascii' = 0 /\ cyril' = 0
    /\ UNCHANGED <<save_buf, save_buf_read, defined>>

\* The line is handed over with its end, and goes to the history.
NewLine ==
    /\ current_input[0] # NUL
    /\ save_buf_read' = FALSE
    /\ result' = Append(String(current_input, cur_pos), "LF")
    /\ input_history' = Append(
          IF Len(input_history) >= MAX_HISTORY_SIZE THEN Tail(input_history) ELSE input_history,
          String(current_input, cur_pos))
    /\ ih_iter' = Len(input_history') + 1
    /\ current_input' = Clear /\ cur_pos' = 0 /\ left_offset' = 0 /\ ascii' = 0 /\ cyril' = 0
    /\ UNCHANGED <<save_buf, defined>>

-----------------------------------------------------------------------------
(* Which handler a read comes to: by how many bytes it has, then by them.  *)

OneByte(sym) ==
    /\ Len(sym) = 1
    /\ \/ sym[1] \in END /\ NewLine
       \/ sym[1] \in BACKSPACE /\ Backspace
       \/ sym[1] = CTRL_W /\ CtrlW
       \/ sym[1] \in Latin /\ Alphabet(sym)

TwoBytes(sym) == Len(sym) = 2 /\ IsCyrillicSymbol(sym[1], sym[2]) /\ Alphabet(sym)

ThreeBytes(sym) ==
    \/ sym = ARROW_LEFT /\ ArrowLeft
    \/ sym = ARROW_RIGHT /\ ArrowRight
    \/ sym = ARROW_UP /\ ArrowUp
    \/ sym = ARROW_DOWN /\ ArrowDown

\* The table of predicates is asked whether it has one for DEL, and not the
\* predicate whether this is DEL.
FourBytes(sym) == Len(sym) = 4 /\ Del

Readline(sym) ==
    /\ defined
    /\ OneByte(sym) \/ TwoBytes(sym) \/ ThreeBytes(sym) \/ FourBytes(sym)

Next == \E sym \in Reads : Readline(sym)

Spec == Init /\ [][Next]_vars
=============================================================================
