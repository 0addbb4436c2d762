------------------------------ MODULE Utility -------------------------------
(***************************************************************************)
(* The pure functions of class Utility.  A text is the sequence of its     *)
(* characters before the NUL, and an array a function from 0 on; what C    *)
(* functions leave in their arguments is what the operators return.        *)
(***************************************************************************)
EXTENDS Integers, Sequences, SequencesExt, FiniteSetsExt

Blanks == {" ", "\t", "\r"}

\* What is before the character ch, if that is among the first s_size.
cut_str(s, s_size, ch) ==
    LET found == {i \in 1..Len(s) : i <= s_size /\ s[i] = ch}
    IN  IF found = {} THEN s ELSE SubSeq(s, 1, Min(found) - 1)

-----------------------------------------------------------------------------
Swapped(values, i, j) == [values EXCEPT ![i] = values[j], ![j] = values[i]]

\* An ascending sort wants its least value at the root.
Stays(child, parent, ascending) == IF ascending THEN child > parent ELSE child <= parent

RECURSIVE Climb(_, _, _)
Climb(values, idx, ascending) ==
    LET parent == (idx - 1) \div 2
    IN  IF idx = 0 \/ Stays(values[idx], values[parent], ascending) THEN values
        ELSE Climb(Swapped(values, idx, parent), parent, ascending)

Downwards(size) == [k \in 1..(size - 1) |-> size - k]

heap_make(values, size, ascending) ==
    FoldLeft(LAMBDA v, i : Climb(v, i, ascending), values, Downwards(size))

\* The root goes to the end: what is called ascending is a descending order.
heap_sort(values, size, ascending) ==
    FoldLeft(LAMBDA v, i : heap_make(Swapped(v, i, 0), i, ascending),
             heap_make(values, size, ascending), Downwards(size))

-----------------------------------------------------------------------------
\* The first two blanks in a row, and all that follow them, become one.
RECURSIVE Squeezed(_)
Squeezed(text) ==
    LET pairs == {i \in 1..(Len(text) - 1) : text[i] = " " /\ text[i + 1] = " "}
        first == Min(pairs)
        next  == Min({j \in first..Len(text) : text[j] # " "})
    IN  IF pairs = {} THEN text
        ELSE Squeezed(SubSeq(text, 1, first) \o SubSeq(text, next, Len(text)))

\* A text of nothing but blanks is left as it is.
delete_spaces(text) ==
    LET black == {i \in 1..Len(text) : text[i] \notin Blanks}
        spaced == [i \in 1..Len(text) |-> IF i \in black THEN text[i] ELSE " "]
    IN  IF black = {} THEN text ELSE Squeezed(SubSeq(spaced, Min(black), Max(black)))

-----------------------------------------------------------------------------
reverse(s) == [i \in 1..Len(s) |-> s[Len(s) + 1 - i]]

Unsigned(number) == IF number < 0 THEN -number ELSE number

num_digit_cnt(number) ==
    LET counter[n \in 0..Unsigned(number)] == IF n = 0 THEN 0 ELSE 1 + counter[n \div 10]
    IN  IF number = 0 THEN 1 ELSE counter[Unsigned(number)]

Digits == <<"0", "1", "2", "3", "4", "5", "6", "7", "8", "9">>

\* The digits from the last on, as many as there is room for, and then the sign.
itoa(number, max_buf_len) ==
    LET digits == num_digit_cnt(number)
        cnt    == IF digits > max_buf_len - 1 THEN max_buf_len - 1 ELSE digits
        backwards == [i \in 1..cnt |-> Digits[1 + ((Unsigned(number) \div 10^(i - 1)) % 10)]]
    IN  reverse(IF number < 0 THEN Append(backwards, "-") ELSE backwards)

concat_to_str(number, number_len, str) == str \o itoa(number, number_len) \o <<"|">>

\* Every token is read from where the buffer is written to: behind the first
\* token that is beyond the end of a shorter one.
Token(s, token, buffer_size) ==
    LET j    == Len(s.buffer)
        rest == SubSeq(token, j + 1, Min({Len(token), buffer_size - 1}))
        with == Append(s.buffer \o rest, "|")
    IN  IF s.is # "open" THEN s
        ELSE IF j < buffer_size - 1 /\ Len(token) < j THEN [s EXCEPT !.is = "undefined"]
        ELSE IF Len(with) >= buffer_size - 1
             THEN [is |-> "full", buffer |-> SubSeq(with, 1, buffer_size - 1)]
        ELSE [s EXCEPT !.buffer = with]

concat_tokens(buffer_size, tokens) ==
    LET s == FoldLeft(LAMBDA t, token : Token(t, token, buffer_size),
                      [is |-> "open", buffer |-> <<>>], tokens)
    IN  IF s.is = "open" THEN [is |-> "ended", buffer |-> Front(s.buffer)] ELSE s

=============================================================================
