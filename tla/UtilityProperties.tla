------------------------- MODULE UtilityProperties --------------------------
(***************************************************************************)
(* What the functions of Utility are to compute, against definitions that  *)
(* do not say how.  They keep nothing between calls, so these are          *)
(* assumptions that TLC evaluates over small inputs.                       *)
(***************************************************************************)
EXTENDS Utility

Texts(alphabet, length) == UNION {[1..n -> alphabet] : n \in 0..length}

Occurrences(s, value) == {i \in DOMAIN s : s[i] = value}

\* heap_sort: the same values, and each before those that are to come after it.
ASSUME SortsTheOtherWay ==
    \A n \in 1..5 : \A values \in [0..(n - 1) -> 1..3] : \A ascending \in BOOLEAN :
        LET sorted == heap_sort(values, n, ascending)
        IN  /\ \A v \in 1..3 : \E f \in [Occurrences(sorted, v) -> Occurrences(values, v)] :
                  /\ \A i, j \in DOMAIN f : i # j => f[i] # f[j]
                  /\ \A k \in Occurrences(values, v) : \E i \in DOMAIN f : f[i] = k
            /\ \A i, j \in 0..(n - 1) :
                  i < j => IF ascending THEN sorted[i] >= sorted[j] ELSE sorted[i] <= sorted[j]

\* The words of a line, in order, with one blank between any two of them.
Words(text) ==
    LET black == {i \in 1..Len(text) : text[i] \notin Blanks}
        Kept(i) == \/ i \in black
                   \/ i - 1 \in black /\ \E j \in black : i < j
        indices == SetToSortSeq({i \in 1..Len(text) : Kept(i)}, <)
    IN  [k \in 1..Len(indices) |-> IF indices[k] \in black THEN text[indices[k]] ELSE " "]

\* delete_spaces leaves the words, and a line of blanks alone.
ASSUME LeavesTheWords ==
    \A text \in Texts({"a", " ", "\t"}, 6) :
        delete_spaces(text) =
            IF \A i \in 1..Len(text) : text[i] \in Blanks THEN text ELSE Words(text)

\* The number that is read from a text.
NumberIn(text) ==
    LET signed == text # <<>> /\ Head(text) = "-"
        value  == FoldLeft(LAMBDA n, c : 10 * n + SelectInSeq(Digits, LAMBDA d : d = c) - 1,
                           0, IF signed THEN Tail(text) ELSE text)
    IN  IF signed THEN -value ELSE value

\* itoa: a number with room for it is read back, and of another one its last digits.
\* A negative one that fills the buffer is written one character beyond its end.
ASSUME ReadsBack ==
    \A number \in -1100..1100 : \A size \in 2..6 :
        LET text == itoa(number, size)
            fits == num_digit_cnt(number) < size
        IN  /\ fits => NumberIn(text) = number
            /\ ~fits => Unsigned(NumberIn(text)) = Unsigned(number) % 10^(size - 1)
            /\ Len(text) + 1 > size <=> number < 0 /\ num_digit_cnt(number) + 1 >= size

\* cut_str leaves what is before the first ch, when the size covers that.
ASSUME CutsAtTheFirst ==
    \A s \in Texts({"a", "\n"}, 4) : \A size \in 0..5 :
        LET cut == cut_str(s, size, "\n")
        IN  /\ IsPrefix(cut, s)
            /\ cut = s \/ s[Len(cut) + 1] = "\n"
            /\ Len(s) <= size => "\n" \notin ToSet(cut)

\* concat_tokens puts one token out whole.  Of two, the second comes out only when
\* it is longer than the first, and without as many of its characters; a shorter
\* one is read beyond its end.
ASSUME OnlyTheFirstIsWhole ==
    \A u, v \in Texts({"a", "b"}, 3) :
        LET two == concat_tokens(20, <<u, v>>)
        IN  /\ concat_tokens(20, <<u>>) = [is |-> "ended", buffer |-> u]
            /\ two.is = "undefined" <=> Len(v) <= Len(u)
            /\ two.is = "ended" => two.buffer = u \o <<"|">> \o SubSeq(v, Len(u) + 2, Len(v))

=============================================================================
