---------------------------- MODULE Input_proofs ----------------------------
(***************************************************************************)
(* Theorems of Input, for every alphabet, every length of lines and of the *)
(* history, and whatever the keyboard gives.                               *)
(*                                                                         *)
(* A line is the letters before the cursor and those behind it.  Every     *)
(* handler joins and cuts whole strings between letters; that it cuts      *)
(* there and nowhere else is what looking at pairs of bytes has to achieve.*)
(* The bytes stay inside the buffer because the two counters are the       *)
(* numbers of letters of the line: without that, a line of MAX_STR_COUNT   *)
(* letters might have any number of bytes.                                 *)
(*                                                                         *)
(* To who types the line is letters, as LineEditor has it.  What is true   *)
(* of a line's letters is proved by adding one letter after the other.     *)
(***************************************************************************)
EXTENDS InputProperties, FiniteSetTheorems, FunctionTheorems, SequenceTheorems,
        WellFoundedInduction, TLAPS

-----------------------------------------------------------------------------
(* Counting letters.                                                       *)

At(S, str)    == {i \in DOMAIN str : str[i] \in S}
Count(S, str) == Cardinality(At(S, str))

LEMMA CountType ==
    ASSUME NEW S, NEW T, NEW str \in Seq(T)
    PROVE  /\ IsFiniteSet(At(S, str)) /\ Count(S, str) \in Nat
           /\ At(S, str) \subseteq 1..Len(str)
<1>1. IsFiniteSet(1..Len(str)) /\ At(S, str) \subseteq 1..Len(str)
  BY FS_Interval DEF At
<1> QED BY <1>1, FS_Subset, FS_CardinalityType DEF Count

\* A sequence has as many of some bytes as its parts have together.
LEMMA CountJoin ==
    ASSUME NEW S, NEW T, NEW s \in Seq(T), NEW t \in Seq(T)
    PROVE  Count(S, s \o t) = Count(S, s) + Count(S, t)
<1> DEFINE n == Len(s)
           Before == At(S, s)
           There  == At(S, t)
           Behind == {n + j : j \in There}
           shift  == [j \in There |-> n + j]
<1>1. /\ n \in Nat /\ Len(t) \in Nat /\ DOMAIN s = 1..n /\ DOMAIN t = 1..Len(t)
      /\ DOMAIN (s \o t) = 1..(n + Len(t))
      /\ \A i \in 1..n : (s \o t)[i] = s[i]
      /\ \A j \in 1..Len(t) : (s \o t)[n + j] = t[j]
  OBVIOUS
<1>2. /\ IsFiniteSet(Before) /\ IsFiniteSet(There)
      /\ Cardinality(Before) \in Nat /\ Cardinality(There) \in Nat
      /\ Before \subseteq 1..n /\ There \subseteq 1..Len(t)
  BY CountType DEF Count
<1>3. At(S, s \o t) = Before \cup Behind
  <2>1. ASSUME NEW i \in At(S, s \o t)
        PROVE  i \in Before \cup Behind
    <3>1. i \in 1..(n + Len(t)) /\ (s \o t)[i] \in S
      BY <1>1, <2>1 DEF At
    <3>2. CASE i \in 1..n
      BY <1>1, <3>1, <3>2 DEF At
    <3>3. CASE i \notin 1..n
      <4>1. i - n \in 1..Len(t) /\ n + (i - n) = i
        BY <1>1, <3>1, <3>3
      <4>2. i - n \in There
        BY <1>1, <3>1, <4>1 DEF At
      <4> QED BY <4>1, <4>2
    <3> QED BY <3>2, <3>3
  <2>2. ASSUME NEW i \in Before
        PROVE  i \in At(S, s \o t)
    BY <1>1, <2>2 DEF At
  <2>3. ASSUME NEW j \in There
        PROVE  n + j \in At(S, s \o t)
    <3>1. j \in 1..Len(t) /\ t[j] \in S
      BY <1>1, <2>3 DEF At
    <3>2. n + j \in 1..(n + Len(t)) /\ (s \o t)[n + j] = t[j]
      BY <1>1, <3>1
    <3> QED BY <1>1, <3>1, <3>2 DEF At
  <2> QED BY <2>1, <2>2, <2>3
<1> HIDE DEF Before, There
<1>4. IsFiniteSet(Behind) /\ Cardinality(Behind) = Cardinality(There)
  <2>1. shift \in [There -> Behind] /\ \A i \in Behind : \E j \in There : shift[j] = i
    OBVIOUS
  <2>2. \A i, j \in There : shift[i] = shift[j] => i = j
    BY <1>1, <1>2
  <2> HIDE DEF shift, Behind
  <2>3. shift \in Bijection(There, Behind)
    BY <2>1, <2>2, Fun_IsBij
  <2> QED BY <1>2, <2>3, FS_Bijection DEF ExistsBijection
<1>5. Before \cap Behind = {}
  BY <1>1, <1>2
<1> HIDE DEF Behind
<1>6. Cardinality(Before \cap Behind) = 0
  BY <1>5, FS_EmptySet
<1>7. Cardinality(Before \cup Behind)
         = Cardinality(Before) + Cardinality(Behind) - Cardinality(Before \cap Behind)
  BY <1>2, <1>4, FS_Union
<1>8. Cardinality(Before \cup Behind) = Cardinality(Before) + Cardinality(There)
  BY <1>2, <1>4, <1>6, <1>7
<1> QED BY <1>3, <1>8 DEF Count, Before, There

-----------------------------------------------------------------------------
(* Whole strings.                                                          *)

\* In a whole string every first byte of a letter is followed by a second one, and
\* every second one follows a first one: there are as many.
LEMMA HalvesMatch ==
    ASSUME NEW str \in Seq(Written), Whole(str)
    PROVE  Count(Lead, str) = Count(Trail, str)
<1> DEFINE next == [i \in At(Lead, str) |-> i + 1]
<1>1. DOMAIN str = 1..Len(str) /\ Len(str) \in Nat
  OBVIOUS
<1>2. ASSUME NEW i \in At(Lead, str)
      PROVE  i \in Nat /\ i + 1 \in At(Trail, str)
  <2>1. i \in 1..Len(str) /\ i < Len(str) /\ <<str[i], str[i + 1]>> \in Cyrillic
    BY <1>1 DEF At, Whole
  <2>2. str[i + 1] \in Trail
    BY <2>1, InputAssumption
  <2> QED BY <1>1, <2>1, <2>2 DEF At
<1>3. ASSUME NEW i \in At(Trail, str)
      PROVE  \E j \in At(Lead, str) : next[j] = i
  <2>1. i \in 1..Len(str) /\ i > 1 /\ str[i - 1] \in Lead
    BY <1>1 DEF At, Whole
  <2>2. i - 1 \in At(Lead, str) /\ (i - 1) + 1 = i
    BY <1>1, <2>1 DEF At
  <2> QED BY <2>2
<1>4. next \in [At(Lead, str) -> At(Trail, str)]
  BY <1>2
<1>5. \A i, j \in At(Lead, str) : next[i] = next[j] => i = j
  BY <1>2
<1> HIDE DEF next
<1>6. next \in Bijection(At(Lead, str), At(Trail, str))
  BY <1>3, <1>4, <1>5, Fun_IsBij
<1> QED BY <1>6, CountType, FS_Bijection DEF Count, ExistsBijection

\* The two counts of a whole string are right: with two bytes for every letter of
\* two they make up its length (AsciiSymbolsCount and what ArrowUp makes of it).
LEMMA LettersMakeBytes ==
    ASSUME NEW str \in Seq(Written), Whole(str)
    PROVE  /\ AsciiIn(str) \in Nat /\ CyrilIn(str) \in Nat
           /\ Len(str) = AsciiIn(str) + 2 * CyrilIn(str)
<1> DEFINE A == At(Latin, str)
           L == At(Lead, str)
           T == At(Trail, str)
<1>1. /\ IsFiniteSet(A) /\ IsFiniteSet(L) /\ IsFiniteSet(T)
      /\ Cardinality(A) \in Nat /\ Cardinality(L) \in Nat /\ Cardinality(T) = Cardinality(L)
  BY CountType, HalvesMatch DEF Count
<1>2. A \cup (L \cup T) = 1..Len(str) /\ A \cap (L \cup T) = {} /\ L \cap T = {}
  <2>1. DOMAIN str = 1..Len(str) /\ \A i \in 1..Len(str) : str[i] \in Written
    OBVIOUS
  <2> QED BY <2>1, InputAssumption DEF At, Written
<1>3. Cardinality(A) = AsciiIn(str)
  BY DEF At, AsciiIn
<1> HIDE DEF A, L, T
<1>4. Cardinality(L \cup T) = 2 * Cardinality(L) /\ IsFiniteSet(L \cup T)
  <2>1. Cardinality(L \cap T) = 0
    BY <1>2, FS_EmptySet
  <2>2. IsFiniteSet(L \cup T) /\ Cardinality(L \cup T) = Cardinality(L) + Cardinality(T) - 0
    BY <1>1, <2>1, FS_Union
  <2> QED BY <1>1, <2>2
<1>5. Cardinality(1..Len(str)) = Cardinality(A) + 2 * Cardinality(L)
  <2>1. Cardinality(A \cap (L \cup T)) = 0
    BY <1>2, FS_EmptySet
  <2>2. Cardinality(A \cup (L \cup T)) = Cardinality(A) + Cardinality(L \cup T) - 0
    BY <1>1, <1>4, <2>1, FS_Union
  <2>3. Cardinality(A \cup (L \cup T)) = Cardinality(1..Len(str))
    BY <1>2
  <2> QED BY <1>1, <1>4, <2>2, <2>3
<1>6. Cardinality(1..Len(str)) = Len(str) /\ Len(str) \in Nat
  BY FS_Interval
<1>7. ASSUME NEW a \in Nat, NEW l \in Nat
      PROVE  ((a + 2 * l) - a) \div 2 = l
  BY <1>7
<1>8. CyrilIn(str) = Cardinality(L)
  BY <1>1, <1>3, <1>5, <1>6, <1>7 DEF CyrilIn
<1> QED BY <1>1, <1>3, <1>5, <1>6, <1>8

LEMMA WholeJoin ==
    ASSUME NEW s \in Seq(Written), Whole(s), NEW t \in Seq(Written), Whole(t)
    PROVE  s \o t \in Seq(Written) /\ Whole(s \o t)
<1> DEFINE u == s \o t
<1>1. /\ Len(s) \in Nat /\ Len(t) \in Nat /\ Len(u) = Len(s) + Len(t) /\ u \in Seq(Written)
      /\ DOMAIN s = 1..Len(s) /\ DOMAIN t = 1..Len(t) /\ DOMAIN u = 1..(Len(s) + Len(t))
      /\ \A i \in 1..Len(s) : u[i] = s[i]
      /\ \A i \in 1..Len(t) : u[Len(s) + i] = t[i]
  OBVIOUS
<1> HIDE DEF u
<1>2. ASSUME NEW i \in 1..Len(s)
      PROVE  /\ u[i] \in Written
             /\ u[i] \in Lead => i < Len(u) /\ <<u[i], u[i + 1]>> \in Cyrillic
             /\ u[i] \in Trail => i > 1 /\ u[i - 1] \in Lead
  <2>1. CASE s[i] \in Lead
    <3>1. i < Len(s) /\ <<s[i], s[i + 1]>> \in Cyrillic
      BY <1>1, <2>1 DEF Whole
    <3>2. i + 1 \in 1..Len(s)
      BY <1>1, <3>1
    <3>3. u[i] = s[i] /\ u[i + 1] = s[i + 1] /\ i < Len(u)
      BY <1>1, <3>1, <3>2
    <3>4. u[i] \notin Trail
      BY <2>1, <3>3, InputAssumption
    <3> QED BY <1>1, <2>1, <3>1, <3>3, <3>4 DEF Written
  <2>2. CASE s[i] \in Trail
    <3>1. i > 1 /\ s[i - 1] \in Lead
      BY <1>1, <2>2 DEF Whole
    <3>2. u[i] = s[i] /\ i - 1 \in 1..Len(s)
      BY <1>1, <3>1
    <3>3. u[i - 1] = s[i - 1]
      BY <1>1, <3>2
    <3>4. u[i] \notin Lead
      BY <2>2, <3>2, InputAssumption
    <3> QED BY <1>1, <2>2, <3>1, <3>2, <3>3, <3>4 DEF Written
  <2> QED BY <1>1, <2>1, <2>2 DEF Whole
<1>3. ASSUME NEW i \in 1..Len(t)
      PROVE  /\ u[Len(s) + i] \in Written
             /\ u[Len(s) + i] \in Lead => /\ Len(s) + i < Len(u)
                                          /\ <<u[Len(s) + i], u[(Len(s) + i) + 1]>> \in Cyrillic
             /\ u[Len(s) + i] \in Trail => Len(s) + i > 1 /\ u[(Len(s) + i) - 1] \in Lead
  <2>1. CASE t[i] \in Lead
    <3>1. i < Len(t) /\ <<t[i], t[i + 1]>> \in Cyrillic
      BY <1>1, <2>1 DEF Whole
    <3>2. i + 1 \in 1..Len(t) /\ Len(s) + (i + 1) = (Len(s) + i) + 1
      BY <1>1, <3>1
    <3>3. u[Len(s) + i] = t[i] /\ u[(Len(s) + i) + 1] = t[i + 1] /\ Len(s) + i < Len(u)
      BY <1>1, <3>1, <3>2
    <3>4. u[Len(s) + i] \notin Trail
      BY <2>1, <3>3, InputAssumption
    <3> QED BY <1>1, <2>1, <3>1, <3>3, <3>4 DEF Written
  <2>2. CASE t[i] \in Trail
    <3>1. i > 1 /\ t[i - 1] \in Lead
      BY <1>1, <2>2 DEF Whole
    <3>2. /\ u[Len(s) + i] = t[i] /\ i - 1 \in 1..Len(t)
          /\ Len(s) + (i - 1) = (Len(s) + i) - 1 /\ Len(s) + i > 1
      BY <1>1, <3>1
    <3>3. u[(Len(s) + i) - 1] = t[i - 1]
      BY <1>1, <3>2
    <3>4. u[Len(s) + i] \notin Lead
      BY <2>2, <3>2, InputAssumption
    <3> QED BY <1>1, <2>2, <3>1, <3>2, <3>3, <3>4 DEF Written
  <2> QED BY <1>1, <2>1, <2>2 DEF Whole
<1>4. Whole(u)
  <2> SUFFICES ASSUME NEW i \in DOMAIN u
               PROVE  /\ u[i] \in Written
                      /\ u[i] \in Lead => i < Len(u) /\ <<u[i], u[i + 1]>> \in Cyrillic
                      /\ u[i] \in Trail => i > 1 /\ u[i - 1] \in Lead
    BY DEF Whole
  <2>1. CASE i \in 1..Len(s)
    BY <1>2, <2>1
  <2>2. CASE i \notin 1..Len(s)
    <3>1. i - Len(s) \in 1..Len(t) /\ Len(s) + (i - Len(s)) = i
      BY <1>1, <2>2
    <3> QED BY <1>3, <3>1
  <2> QED BY <2>1, <2>2
<1> QED BY <1>1, <1>4 DEF u

\* Between two letters of a string, or at one of its ends.
Cut(str, n) == n \in 0..Len(str) /\ (0 < n /\ n < Len(str) => str[n + 1] \notin Trail)

LEMMA PartsOf ==
    ASSUME NEW S, NEW str \in Seq(S), NEW n \in 0..Len(str)
    PROVE  /\ SubSeq(str, 1, n) \in Seq(S) /\ SubSeq(str, n + 1, Len(str)) \in Seq(S)
           /\ Len(SubSeq(str, 1, n)) = n /\ Len(SubSeq(str, n + 1, Len(str))) = Len(str) - n
           /\ \A i \in 1..n : SubSeq(str, 1, n)[i] = str[i]
           /\ \A i \in 1..(Len(str) - n) : SubSeq(str, n + 1, Len(str))[i] = str[n + i]
           /\ str = SubSeq(str, 1, n) \o SubSeq(str, n + 1, Len(str))
<1>1. Len(str) \in Nat /\ n \in Nat /\ \A i \in 1..Len(str) : str[i] \in S
  OBVIOUS
<1>2. /\ SubSeq(str, 1, n) \in Seq(S) /\ Len(SubSeq(str, 1, n)) = n
      /\ \A i \in 1..n : SubSeq(str, 1, n)[i] = str[i]
  <2>1. \A i \in 1..n : str[i] \in S
    BY <1>1
  <2> QED BY <1>1, <2>1, SubSeqProperties
<1>3. /\ SubSeq(str, n + 1, Len(str)) \in Seq(S)
      /\ Len(SubSeq(str, n + 1, Len(str))) = Len(str) - n
      /\ \A i \in 1..(Len(str) - n) : SubSeq(str, n + 1, Len(str))[i] = str[n + i]
  <2>1. \A i \in (n + 1)..Len(str) : str[i] \in S
    BY <1>1
  <2>2. /\ SubSeq(str, n + 1, Len(str)) \in Seq(S)
        /\ Len(SubSeq(str, n + 1, Len(str))) =
              (IF n + 1 <= Len(str) THEN Len(str) - (n + 1) + 1 ELSE 0)
        /\ \A i \in 1..(Len(str) - (n + 1) + 1) :
              SubSeq(str, n + 1, Len(str))[i] = str[(n + 1) + i - 1]
    BY <1>1, <2>1, SubSeqProperties
  <2> QED BY <1>1, <2>2
<1>4. SubSeq(str, 1, n) \o SubSeq(str, n + 1, Len(str)) = SubSeq(str, 1, Len(str))
  <2>1. 1 \in 1..(Len(str) + 1) /\ n \in (1 - 1)..Len(str) /\ Len(str) \in n..Len(str)
    BY <1>1
  <2> QED BY <2>1, ConcatAdjacentSubSeq, Zenon
<1>5. SubSeq(str, 1, Len(str)) = str
  BY SubSeqFull
<1> QED BY <1>2, <1>3, <1>4, <1>5

\* A whole string that is cut between letters gives whole strings.
LEMMA WholeCut ==
    ASSUME NEW str \in Seq(Written), Whole(str), NEW n, Cut(str, n)
    PROVE  Whole(SubSeq(str, 1, n)) /\ Whole(SubSeq(str, n + 1, Len(str)))
<1> DEFINE s == SubSeq(str, 1, n)
           t == SubSeq(str, n + 1, Len(str))
<1>1. n \in 0..Len(str) /\ Len(str) \in Nat /\ DOMAIN str = 1..Len(str)
  BY DEF Cut
<1>2. /\ Len(s) = n /\ DOMAIN s = 1..n /\ Len(t) = Len(str) - n /\ DOMAIN t = 1..(Len(str) - n)
      /\ \A i \in 1..n : s[i] = str[i]
      /\ \A i \in 1..(Len(str) - n) : t[i] = str[n + i]
  <2>1. s \in Seq(Written) /\ t \in Seq(Written) /\ Len(s) = n /\ Len(t) = Len(str) - n
    BY <1>1, PartsOf
  <2>2. DOMAIN s = 1..Len(s) /\ DOMAIN t = 1..Len(t)
    BY <2>1, LenProperties
  <2>3. /\ \A i \in 1..n : s[i] = str[i]
        /\ \A i \in 1..(Len(str) - n) : t[i] = str[n + i]
    BY <1>1, PartsOf
  <2> QED BY <2>1, <2>2, <2>3
<1> HIDE DEF s, t
<1>3. ASSUME NEW i \in 1..n
      PROVE  /\ s[i] \in Written
             /\ s[i] \in Lead => i < Len(s) /\ <<s[i], s[i + 1]>> \in Cyrillic
             /\ s[i] \in Trail => i > 1 /\ s[i - 1] \in Lead
  <2>1. i \in 1..Len(str) /\ s[i] = str[i] /\ s[i] \in Written
    BY <1>1, <1>2 DEF Whole
  <2>2. ASSUME s[i] \in Lead
        PROVE  i < Len(s) /\ <<s[i], s[i + 1]>> \in Cyrillic
    <3>1. i < Len(str) /\ <<str[i], str[i + 1]>> \in Cyrillic
      BY <1>1, <2>1, <2>2 DEF Whole
    <3>2. str[i + 1] \in Trail
      BY <3>1, InputAssumption
    <3>3. i # n
      BY <1>1, <3>1, <3>2 DEF Cut
    <3>4. i + 1 \in 1..n /\ i < n
      BY <1>1, <3>3
    <3>5. s[i + 1] = str[i + 1]
      BY <1>2, <3>4
    <3> QED BY <1>2, <2>1, <3>1, <3>4, <3>5
  <2>3. ASSUME s[i] \in Trail
        PROVE  i > 1 /\ s[i - 1] \in Lead
    <3>1. i > 1 /\ str[i - 1] \in Lead
      BY <1>1, <2>1, <2>3 DEF Whole
    <3>2. i - 1 \in 1..n
      BY <1>1, <3>1
    <3> QED BY <1>2, <3>1, <3>2
  <2> QED BY <2>1, <2>2, <2>3
<1>4. ASSUME NEW i \in 1..(Len(str) - n)
      PROVE  /\ t[i] \in Written
             /\ t[i] \in Lead => i < Len(t) /\ <<t[i], t[i + 1]>> \in Cyrillic
             /\ t[i] \in Trail => i > 1 /\ t[i - 1] \in Lead
  <2>1. n + i \in 1..Len(str) /\ t[i] = str[n + i] /\ t[i] \in Written
    BY <1>1, <1>2 DEF Whole
  <2>2. ASSUME t[i] \in Lead
        PROVE  i < Len(t) /\ <<t[i], t[i + 1]>> \in Cyrillic
    <3>1. n + i < Len(str) /\ <<str[n + i], str[(n + i) + 1]>> \in Cyrillic
      BY <1>1, <2>1, <2>2 DEF Whole
    <3>2. i + 1 \in 1..(Len(str) - n) /\ n + (i + 1) = (n + i) + 1 /\ i < Len(str) - n
      BY <1>1, <3>1
    <3>3. t[i + 1] = str[(n + i) + 1]
      BY <1>2, <3>2
    <3> QED BY <1>2, <2>1, <3>1, <3>2, <3>3
  <2>3. ASSUME t[i] \in Trail
        PROVE  i > 1 /\ t[i - 1] \in Lead
    <3>1. n + i > 1 /\ str[(n + i) - 1] \in Lead
      BY <1>1, <2>1, <2>3 DEF Whole
    <3>2. i # 1
      BY <1>1, <2>1, <2>3, <3>1 DEF Cut
    <3>3. i - 1 \in 1..(Len(str) - n) /\ n + (i - 1) = (n + i) - 1 /\ i > 1
      BY <1>1, <3>2
    <3> QED BY <1>2, <3>1, <3>3
  <2> QED BY <2>1, <2>2, <2>3
<1>5. Whole(s) /\ Whole(t)
  BY <1>2, <1>3, <1>4 DEF Whole
<1> QED BY <1>5 DEF s, t

\* The letters of whole strings that are joined are their letters together.
LEMMA LettersJoin ==
    ASSUME NEW s \in Seq(Written), Whole(s), NEW t \in Seq(Written), Whole(t)
    PROVE  /\ AsciiIn(s \o t) = AsciiIn(s) + AsciiIn(t)
           /\ CyrilIn(s \o t) = CyrilIn(s) + CyrilIn(t)
<1>1. s \o t \in Seq(Written) /\ Whole(s \o t)
  BY WholeJoin
<1>2. AsciiIn(s \o t) = AsciiIn(s) + AsciiIn(t)
  <2>1. \A str : AsciiIn(str) = Count(Latin, str)
    BY DEF AsciiIn, Count, At
  <2>2. Count(Latin, s \o t) = Count(Latin, s) + Count(Latin, t)
    BY CountJoin
  <2> QED BY <2>1, <2>2
<1>3. /\ AsciiIn(s) \in Nat /\ CyrilIn(s) \in Nat /\ Len(s) = AsciiIn(s) + 2 * CyrilIn(s)
      /\ AsciiIn(t) \in Nat /\ CyrilIn(t) \in Nat /\ Len(t) = AsciiIn(t) + 2 * CyrilIn(t)
  BY LettersMakeBytes
<1>4. CyrilIn(s \o t) \in Nat /\ Len(s \o t) = AsciiIn(s \o t) + 2 * CyrilIn(s \o t)
  BY <1>1, LettersMakeBytes
<1>5. Len(s \o t) = Len(s) + Len(t)
  OBVIOUS
<1> DEFINE a == AsciiIn(s)
           b == AsciiIn(t)
           c == CyrilIn(s)
           d == CyrilIn(t)
           e == CyrilIn(s \o t)
<1>6. /\ a \in Nat /\ b \in Nat /\ c \in Nat /\ d \in Nat /\ e \in Nat
      /\ (a + 2 * c) + (b + 2 * d) = (a + b) + 2 * e
  <2>1. Len(s \o t) = (AsciiIn(s) + AsciiIn(t)) + 2 * CyrilIn(s \o t)
    BY <1>2, <1>4
  <2>2. Len(s) + Len(t) = (AsciiIn(s) + 2 * CyrilIn(s)) + (AsciiIn(t) + 2 * CyrilIn(t))
    BY <1>3
  <2> QED BY <1>3, <1>4, <1>5, <2>1, <2>2
<1> HIDE DEF a, b, c, d, e
<1>7. e = c + d
  BY <1>6
<1> QED BY <1>2, <1>7 DEF c, d, e

\* What one letter is: one byte of its own or a pair.
Letter(sym) ==
    \/ sym = <<sym[1]>> /\ sym[1] \in Latin
    \/ sym = <<sym[1], sym[2]>> /\ <<sym[1], sym[2]>> \in Cyrillic

LEMMA OneLetter ==
    ASSUME NEW sym, Letter(sym)
    PROVE  /\ sym \in Seq(Written) /\ Whole(sym) /\ Len(sym) \in {1, 2}
           /\ AsciiIn(sym) = IF Len(sym) = 2 THEN 0 ELSE 1
           /\ CyrilIn(sym) = IF Len(sym) = 2 THEN 1 ELSE 0
<1>1. CASE sym = <<sym[1]>> /\ sym[1] \in Latin
  <2> DEFINE b == sym[1]
  <2>1. b \in Written /\ b \notin Lead /\ b \notin Trail
    BY <1>1, InputAssumption DEF Written
  <2> HIDE DEF b
  <2>2. sym = <<b>> /\ <<b>> \in Seq(Written) /\ Len(<<b>>) = 1 /\ DOMAIN <<b>> = {1}
    BY <1>1, <2>1 DEF b
  <2>3. Whole(<<b>>)
    BY <2>1, <2>2 DEF Whole
  <2>4. {i \in DOMAIN <<b>> : <<b>>[i] \in Latin} = {1}
    BY <1>1, <2>2 DEF b
  <2>5. AsciiIn(sym) = 1
    BY <2>2, <2>4, FS_Singleton DEF AsciiIn
  <2>6. CyrilIn(sym) = 0
    <3>1. CyrilIn(sym) \in Nat /\ Len(sym) = AsciiIn(sym) + 2 * CyrilIn(sym)
      BY <2>2, <2>3, LettersMakeBytes
    <3> QED BY <2>2, <2>5, <3>1
  <2> QED BY <2>2, <2>3, <2>5, <2>6
<1>2. CASE sym = <<sym[1], sym[2]>> /\ <<sym[1], sym[2]>> \in Cyrillic
  <2> DEFINE a == sym[1]
             b == sym[2]
  <2>1. a \in Lead /\ b \in Trail /\ a \notin Latin /\ b \notin Latin /\ a \notin Trail /\ b \notin Lead
    BY <1>2, InputAssumption
  <2> HIDE DEF a, b
  <2>2. /\ sym = <<a, b>> /\ <<a, b>> \in Seq(Written) /\ Len(<<a, b>>) = 2
        /\ DOMAIN <<a, b>> = {1, 2} /\ <<a, b>> \in Cyrillic
    BY <1>2, <2>1 DEF a, b, Written
  <2>3. Whole(<<a, b>>)
    BY <2>1, <2>2 DEF Whole, Written
  <2>4. {i \in DOMAIN <<a, b>> : <<a, b>>[i] \in Latin} = {}
    BY <2>1, <2>2
  <2>5. AsciiIn(sym) = 0
    BY <2>2, <2>4, FS_EmptySet DEF AsciiIn
  <2>6. CyrilIn(sym) = 1
    <3>1. CyrilIn(sym) \in Nat /\ Len(sym) = AsciiIn(sym) + 2 * CyrilIn(sym)
      BY <2>2, <2>3, LettersMakeBytes
    <3> QED BY <2>2, <2>5, <3>1
  <2> QED BY <2>2, <2>3, <2>5, <2>6
<1> QED BY <1>1, <1>2 DEF Letter
-----------------------------------------------------------------------------
(* The invariant.                                                          *)

\* A line the buffer has room for.
Fitting(str) ==
    str \in Seq(Written) /\ Whole(str) /\ AsciiIn(str) + CyrilIn(str) <= MAX_STR_COUNT

TypeOK ==
    /\ current_input \in [Positions -> Bytes]
    /\ cur_pos \in Nat /\ left_offset \in 0..cur_pos
    /\ input_history \in Seq(Seq(Written)) /\ ih_iter \in 1..(Len(input_history) + 1)

Edits ==
    /\ Fitting(Line) /\ Cut(Line, CursorPos)
    /\ ascii = AsciiIn(Line) /\ cyril = CyrilIn(Line)

Kept ==
    /\ \A i \in DOMAIN input_history : Fitting(input_history[i])
    /\ save_buf # Unwritten => Fitting(save_buf)

IInv == TypeOK /\ Edits /\ Kept

LEMMA FittingShort ==
    ASSUME NEW str, Fitting(str)
    PROVE  /\ Len(str) \in Nat /\ Len(str) <= 2 * MAX_STR_COUNT
           /\ AsciiIn(str) \in Nat /\ CyrilIn(str) \in Nat
<1>1. /\ AsciiIn(str) \in Nat /\ CyrilIn(str) \in Nat
      /\ Len(str) = AsciiIn(str) + 2 * CyrilIn(str)
  BY LettersMakeBytes DEF Fitting
<1>2. AsciiIn(str) + CyrilIn(str) <= MAX_STR_COUNT /\ MAX_STR_COUNT \in Nat
  BY InputAssumption DEF Fitting
<1> DEFINE a == AsciiIn(str)
           c == CyrilIn(str)
<1>3. a \in Nat /\ c \in Nat /\ Len(str) = a + 2 * c /\ a + c <= MAX_STR_COUNT
  BY <1>1, <1>2
<1> HIDE DEF a, c
<1>4. Len(str) \in Nat /\ Len(str) <= 2 * MAX_STR_COUNT
  BY <1>2, <1>3
<1> QED BY <1>1, <1>4

\* A string of the first bytes of a buffer.
LEMMA StringFacts ==
    ASSUME NEW buf, NEW n \in Nat
    PROVE  /\ Len(String(buf, n)) = n /\ DOMAIN String(buf, n) = 1..n
           /\ \A i \in 1..n : String(buf, n)[i] = buf[i - 1]
           /\ \A S : (\A i \in 0..(n - 1) : buf[i] \in S) => String(buf, n) \in Seq(S)
<1>1. DOMAIN String(buf, n) = 1..n /\ \A i \in 1..n : String(buf, n)[i] = buf[i - 1]
  BY DEF String
<1>2. ASSUME NEW S, \A i \in 0..(n - 1) : buf[i] \in S
      PROVE  String(buf, n) \in Seq(S)
  <2>1. \A i \in 1..n : buf[i - 1] \in S
    BY <1>2
  <2> QED BY <2>1 DEF String
<1>3. Len(String(buf, n)) = n
  BY DEF String
<1> QED BY <1>1, <1>2, <1>3

LEMMA LineFacts ==
    ASSUME IInv
    PROVE  /\ Line \in Seq(Written) /\ Whole(Line) /\ Len(Line) = cur_pos
           /\ cur_pos \in Nat /\ cur_pos <= 2 * MAX_STR_COUNT /\ cur_pos < MAX_BUFFER_SIZE
           /\ \A i \in 0..(cur_pos - 1) : i \in Positions /\ Line[i + 1] = current_input[i]
           /\ left_offset \in 0..cur_pos /\ CursorPos \in 0..cur_pos /\ Cut(Line, CursorPos)
           /\ ascii \in Nat /\ cyril \in Nat /\ MAX_STR_COUNT \in Nat
<1>1. cur_pos \in Nat /\ left_offset \in 0..cur_pos /\ CursorPos \in 0..cur_pos
  BY DEF IInv, TypeOK, CursorPos
<1>2. Len(Line) = cur_pos /\ \A i \in 1..cur_pos : Line[i] = current_input[i - 1]
  BY <1>1, StringFacts DEF Line
<1>3. Line \in Seq(Written) /\ Whole(Line) /\ Cut(Line, CursorPos)
  BY DEF IInv, Edits, Fitting
<1>4. cur_pos <= 2 * MAX_STR_COUNT /\ ascii \in Nat /\ cyril \in Nat
  BY <1>2, FittingShort DEF IInv, Edits
<1>5. MAX_STR_COUNT \in Nat /\ cur_pos < MAX_BUFFER_SIZE
  BY <1>1, <1>4, InputAssumption DEF MAX_BUFFER_SIZE
<1>6. ASSUME NEW i \in 0..(cur_pos - 1)
      PROVE  i \in Positions /\ Line[i + 1] = current_input[i]
  <2>1. MAX_BUFFER_SIZE \in Nat
    BY <1>5 DEF MAX_BUFFER_SIZE
  <2>2. i \in Positions
    BY <1>1, <1>5, <2>1 DEF Positions
  <2>3. i + 1 \in 1..cur_pos /\ (i + 1) - 1 = i
    BY <1>1
  <2>4. Line[i + 1] = current_input[(i + 1) - 1]
    BY <1>2, <2>3
  <2> QED BY <2>2, <2>3, <2>4
<1> QED BY <1>1, <1>2, <1>3, <1>4, <1>5, <1>6

\* What the bytes around the cursor say: a letter of two bytes stands before it just
\* when the pair before it is a letter.
LEMMA LetterBefore ==
    ASSUME IInv, CursorPos > 0
    PROVE  LET pair == /\ CursorPos > 1
                       /\ IsCyrillicSymbol(current_input[CursorPos - 2],
                                           current_input[CursorPos - 1])
           IN  /\ pair => Cut(Line, CursorPos - 2)
               /\ ~pair => Cut(Line, CursorPos - 1)
<1> DEFINE c == CursorPos
<1>1. /\ c \in 1..cur_pos /\ cur_pos \in Nat /\ Len(Line) = cur_pos /\ DOMAIN Line = 1..cur_pos
      /\ \A i \in 0..(cur_pos - 1) : Line[i + 1] = current_input[i]
      /\ Whole(Line) /\ Cut(Line, c)
  BY LineFacts
<1> HIDE DEF c
<1>2. ASSUME c > 1, IsCyrillicSymbol(current_input[c - 2], current_input[c - 1])
      PROVE  Cut(Line, c - 2)
  <2>1. c - 2 \in 0..(cur_pos - 1) /\ c - 2 \in 0..cur_pos /\ (c - 2) + 1 = c - 1
    BY <1>1, <1>2
  <2>2. Line[(c - 2) + 1] = current_input[c - 2] /\ current_input[c - 2] \in Lead
    BY <1>1, <1>2, <2>1, InputAssumption DEF IsCyrillicSymbol
  <2>3. Line[(c - 2) + 1] \notin Trail
    BY <2>2, InputAssumption
  <2> QED BY <1>1, <2>1, <2>3 DEF Cut
<1>3. ASSUME ~(c > 1 /\ IsCyrillicSymbol(current_input[c - 2], current_input[c - 1]))
      PROVE  Cut(Line, c - 1)
  <2>1. c - 1 \in 0..(cur_pos - 1) /\ (c - 1) + 1 = c /\ c - 1 \in 0..cur_pos
    BY <1>1
  <2>2. Line[c] = current_input[c - 1]
    BY <1>1, <2>1
  <2>3. ASSUME Line[c] \in Trail
        PROVE  FALSE
    <3>1. c > 1 /\ Line[c - 1] \in Lead
      BY <1>1, <2>3 DEF Whole
    <3>2. c - 1 \in 1..cur_pos /\ c - 2 \in 0..(cur_pos - 1) /\ (c - 2) + 1 = c - 1
      BY <1>1, <3>1
    <3>3. <<Line[c - 1], Line[(c - 1) + 1]>> \in Cyrillic
      BY <1>1, <3>1, <3>2 DEF Whole
    <3>4. Line[c - 1] = current_input[c - 2] /\ (c - 1) + 1 = c
      BY <1>1, <3>2
    <3>5. IsCyrillicSymbol(current_input[c - 2], current_input[c - 1])
      BY <2>2, <3>3, <3>4 DEF IsCyrillicSymbol
    <3> QED BY <1>3, <3>1, <3>5
  <2> QED BY <1>1, <2>1, <2>3 DEF Cut
<1> QED BY <1>2, <1>3 DEF c

\* And the same behind it.
LEMMA LetterBehind ==
    ASSUME IInv, left_offset > 0
    PROVE  LET pair == /\ left_offset > 1
                       /\ IsCyrillicSymbol(current_input[CursorPos],
                                           current_input[CursorPos + 1])
           IN  /\ pair => Cut(Line, CursorPos + 2)
               /\ ~pair => Cut(Line, CursorPos + 1)
<1> DEFINE c == CursorPos
<1>1. /\ c \in 0..cur_pos /\ cur_pos \in Nat /\ Len(Line) = cur_pos /\ DOMAIN Line = 1..cur_pos
      /\ \A i \in 0..(cur_pos - 1) : Line[i + 1] = current_input[i]
      /\ Whole(Line) /\ Cut(Line, c)
  BY LineFacts
<1>2. left_offset \in Nat /\ c = cur_pos - left_offset /\ c < cur_pos
  BY <1>1, LineFacts DEF CursorPos
<1> HIDE DEF c
<1>3. ASSUME left_offset > 1, IsCyrillicSymbol(current_input[c], current_input[c + 1])
      PROVE  Cut(Line, c + 2)
  <2>1. c + 2 \in 0..cur_pos /\ c + 1 \in 0..(cur_pos - 1) /\ (c + 1) + 1 = c + 2
    BY <1>1, <1>2, <1>3
  <2>2. Line[c + 2] = current_input[c + 1] /\ current_input[c + 1] \in Trail
    BY <1>1, <1>3, <2>1, InputAssumption DEF IsCyrillicSymbol
  <2>3. ASSUME c + 2 < cur_pos, Line[(c + 2) + 1] \in Trail
        PROVE  FALSE
    <3>1. (c + 2) + 1 \in 1..cur_pos /\ ((c + 2) + 1) - 1 = c + 2
      BY <1>1, <2>1, <2>3
    <3>2. Line[((c + 2) + 1) - 1] \in Lead
      BY <1>1, <2>3, <3>1 DEF Whole
    <3> QED BY <2>2, <3>1, <3>2, InputAssumption
  <2> QED BY <1>1, <2>1, <2>3 DEF Cut
<1>4. ASSUME ~(left_offset > 1 /\ IsCyrillicSymbol(current_input[c], current_input[c + 1]))
      PROVE  Cut(Line, c + 1)
  <2>1. c + 1 \in 1..cur_pos /\ c + 1 \in 0..cur_pos /\ c \in 0..(cur_pos - 1)
    BY <1>1, <1>2
  <2>2. Line[c + 1] = current_input[c]
    BY <1>1, <2>1
  <2>3. ASSUME c + 1 < cur_pos, Line[(c + 1) + 1] \in Trail
        PROVE  FALSE
    <3>1. (c + 1) + 1 \in 1..cur_pos /\ ((c + 1) + 1) - 1 = c + 1 /\ c + 1 \in 0..(cur_pos - 1)
      BY <1>1, <2>1, <2>3
    <3>2. Line[c + 1] \in Lead
      BY <1>1, <2>3, <3>1 DEF Whole
    <3>3. <<Line[c + 1], Line[(c + 1) + 1]>> \in Cyrillic
      BY <1>1, <2>1, <3>2 DEF Whole
    <3>4. Line[(c + 1) + 1] = current_input[c + 1]
      BY <1>1, <3>1
    <3>5. left_offset > 1
      BY <1>1, <1>2, <2>3
    <3> QED BY <1>4, <2>2, <3>3, <3>4, <3>5 DEF IsCyrillicSymbol
  <2> QED BY <1>1, <2>1, <2>3 DEF Cut
<1> QED BY <1>3, <1>4 DEF c

-----------------------------------------------------------------------------
(* Joining and cutting lines.                                              *)

LEMMA JoinFacts ==
    ASSUME NEW T, NEW s \in Seq(T), NEW t \in Seq(T)
    PROVE  /\ s \o t \in Seq(T) /\ Len(s \o t) = Len(s) + Len(t)
           /\ \A i \in 1..Len(s) : (s \o t)[i] = s[i]
           /\ \A i \in 1..Len(t) : (s \o t)[Len(s) + i] = t[i]
OBVIOUS

LEMMA CutAtJoin ==
    ASSUME NEW s \in Seq(Written), NEW t \in Seq(Written), Whole(t)
    PROVE  Cut(s \o t, Len(s))
<1>1. /\ Len(s) \in Nat /\ Len(t) \in Nat /\ Len(s \o t) = Len(s) + Len(t)
      /\ DOMAIN t = 1..Len(t) /\ \A i \in 1..Len(t) : (s \o t)[Len(s) + i] = t[i]
  OBVIOUS
<1>2. ASSUME Len(t) > 0
      PROVE  (s \o t)[Len(s) + 1] \notin Trail
  <2>1. 1 \in 1..Len(t) /\ ~(1 > 1)
    BY <1>1, <1>2
  <2>2. t[1] \in Trail => 1 > 1
    BY <1>1, <2>1 DEF Whole
  <2> QED BY <1>1, <2>1, <2>2
<1>3. Len(s) \in 0..Len(s \o t) /\ (Len(s) < Len(s \o t) => Len(t) > 0)
  BY <1>1
<1> QED BY <1>2, <1>3 DEF Cut

\* A whole string cut at two places.
LEMMA ThreeParts ==
    ASSUME NEW str \in Seq(Written), Whole(str), NEW from, NEW to,
           Cut(str, from), Cut(str, to), from <= to
    PROVE  LET before == SubSeq(str, 1, from)
               taken  == SubSeq(str, from + 1, to)
               behind == SubSeq(str, to + 1, Len(str))
           IN  /\ before \in Seq(Written) /\ Whole(before) /\ Len(before) = from
               /\ taken \in Seq(Written) /\ Whole(taken) /\ Len(taken) = to - from
               /\ behind \in Seq(Written) /\ Whole(behind) /\ Len(behind) = Len(str) - to
               /\ \A i \in 1..from : before[i] = str[i]
               /\ \A i \in 1..(to - from) : taken[i] = str[from + i]
               /\ \A i \in 1..(Len(str) - to) : behind[i] = str[to + i]
               /\ AsciiIn(str) = AsciiIn(before) + AsciiIn(taken) + AsciiIn(behind)
               /\ CyrilIn(str) = CyrilIn(before) + CyrilIn(taken) + CyrilIn(behind)
<1> DEFINE upTo   == SubSeq(str, 1, to)
           before == SubSeq(str, 1, from)
           taken  == SubSeq(str, from + 1, to)
           behind == SubSeq(str, to + 1, Len(str))
<1>1. Len(str) \in Nat /\ from \in 0..Len(str) /\ to \in 0..Len(str) /\ from \in Nat /\ to \in Nat
  BY DEF Cut
<1>2. /\ upTo \in Seq(Written) /\ behind \in Seq(Written)
      /\ Len(upTo) = to /\ Len(behind) = Len(str) - to
      /\ \A i \in 1..to : upTo[i] = str[i]
      /\ \A i \in 1..(Len(str) - to) : behind[i] = str[to + i]
      /\ str = upTo \o behind
  BY <1>1, PartsOf
<1>3. Whole(upTo) /\ Whole(behind)
  BY WholeCut
<1>4. before = SubSeq(upTo, 1, from) /\ taken = SubSeq(upTo, from + 1, Len(upTo))
  <2>1. /\ before \in Seq(Written) /\ Len(before) = from
        /\ \A i \in 1..from : before[i] = str[i]
    BY <1>1, PartsOf
  <2>2. /\ taken \in Seq(Written) /\ Len(taken) = to - from
        /\ \A i \in 1..(to - from) : taken[i] = str[from + i]
    <3>1. \A i \in (from + 1)..to : str[i] \in Written
      BY <1>1
    <3>2. /\ taken \in Seq(Written)
          /\ Len(taken) = (IF from + 1 <= to THEN to - (from + 1) + 1 ELSE 0)
          /\ \A i \in 1..(to - (from + 1) + 1) : taken[i] = str[(from + 1) + i - 1]
      BY <1>1, <3>1, SubSeqProperties
    <3> QED BY <1>1, <3>2
  <2>3. from \in 0..Len(upTo)
    BY <1>1, <1>2
  <2> DEFINE a == SubSeq(upTo, 1, from)
             b == SubSeq(upTo, from + 1, Len(upTo))
  <2>4. /\ a \in Seq(Written) /\ b \in Seq(Written) /\ Len(a) = from /\ Len(b) = Len(upTo) - from
        /\ \A i \in 1..from : a[i] = upTo[i]
        /\ \A i \in 1..(Len(upTo) - from) : b[i] = upTo[from + i]
    BY <1>2, <2>3, PartsOf
  <2> HIDE DEF a, b, before, taken, upTo
  <2>5. before = a
    <3>1. \A i \in 1..Len(before) : before[i] = a[i]
      BY <1>1, <1>2, <2>1, <2>4
    <3> QED BY <2>1, <2>4, <3>1, SeqEqual
  <2>6. taken = b
    <3>1. ASSUME NEW i \in 1..Len(taken)
          PROVE  taken[i] = b[i]
      <4>1. i \in 1..(to - from) /\ i \in 1..(Len(upTo) - from) /\ from + i \in 1..to
        BY <1>1, <1>2, <2>2
      <4>2. taken[i] = str[from + i] /\ b[i] = upTo[from + i] /\ upTo[from + i] = str[from + i]
        BY <1>2, <2>2, <2>4, <4>1
      <4> QED BY <4>2
    <3> QED BY <1>2, <2>2, <2>4, <3>1, SeqEqual
  <2> QED BY <2>5, <2>6 DEF a, b
<1>5. from \in 0..Len(upTo)
  BY <1>1, <1>2
<1>6. Cut(upTo, from)
  <2>1. ASSUME 0 < from, from < Len(upTo)
        PROVE  upTo[from + 1] \notin Trail
    <3>1. from + 1 \in 1..to /\ from < Len(str)
      BY <1>1, <1>2, <2>1
    <3> QED BY <1>2, <2>1, <3>1 DEF Cut
  <2> QED BY <1>5, <2>1 DEF Cut
<1>7. /\ before \in Seq(Written) /\ taken \in Seq(Written)
      /\ Len(before) = from /\ Len(taken) = to - from
      /\ \A i \in 1..from : before[i] = upTo[i]
      /\ \A i \in 1..(to - from) : taken[i] = upTo[from + i]
      /\ upTo = before \o taken
  <2> HIDE DEF upTo
  <2> DEFINE a == SubSeq(upTo, 1, from)
             b == SubSeq(upTo, from + 1, Len(upTo))
  <2>1. /\ a \in Seq(Written) /\ b \in Seq(Written)
        /\ Len(a) = from /\ Len(b) = Len(upTo) - from
        /\ \A i \in 1..from : a[i] = upTo[i]
        /\ \A i \in 1..(Len(upTo) - from) : b[i] = upTo[from + i]
        /\ upTo = a \o b
    BY <1>2, <1>5, PartsOf
  <2>2. before = a /\ taken = b
    BY <1>4
  <2> HIDE DEF a, b, before, taken
  <2> QED BY <1>2, <2>1, <2>2
<1>8. Whole(before) /\ Whole(taken)
  BY <1>2, <1>3, <1>4, <1>6, WholeCut
<1>9. /\ \A i \in 1..from : before[i] = str[i]
      /\ \A i \in 1..(to - from) : taken[i] = str[from + i]
  <2> HIDE DEF upTo, before, taken, behind
  <2>1. ASSUME NEW i \in 1..from
        PROVE  before[i] = str[i]
    BY <1>1, <1>2, <1>7, <2>1
  <2>2. ASSUME NEW i \in 1..(to - from)
        PROVE  taken[i] = str[from + i]
    <3>1. from + i \in 1..to
      BY <1>1
    <3>2. taken[i] = upTo[from + i] /\ upTo[from + i] = str[from + i]
      BY <1>2, <1>7, <3>1
    <3> QED BY <3>2
  <2> QED BY <2>1, <2>2
<1> HIDE DEF upTo, before, taken, behind
<1>10. /\ AsciiIn(str) = AsciiIn(upTo) + AsciiIn(behind)
       /\ CyrilIn(str) = CyrilIn(upTo) + CyrilIn(behind)
  BY <1>2, <1>3, LettersJoin
<1>11. /\ AsciiIn(upTo) = AsciiIn(before) + AsciiIn(taken)
       /\ CyrilIn(upTo) = CyrilIn(before) + CyrilIn(taken)
  BY <1>7, <1>8, LettersJoin
<1> QED BY <1>2, <1>3, <1>7, <1>8, <1>9, <1>10, <1>11 DEF before, taken, behind

\* A letter put in at the cursor.
LEMMA InsertedLine ==
    ASSUME IInv, NEW sym, Letter(sym)
    PROVE  /\ Inserted(sym) \in [Positions -> Bytes]
           /\ String(Inserted(sym), cur_pos + Len(sym)) =
                 (SubSeq(Line, 1, CursorPos) \o sym) \o SubSeq(Line, CursorPos + 1, Len(Line))
<1> DEFINE c == CursorPos
           k == Len(sym)
           before == SubSeq(Line, 1, c)
           behind == SubSeq(Line, c + 1, Len(Line))
           joined == (before \o sym) \o behind
           buf == Inserted(sym)
           str == String(buf, cur_pos + k)
<1>1. /\ c \in 0..cur_pos /\ cur_pos \in Nat /\ Len(Line) = cur_pos /\ Line \in Seq(Written)
      /\ \A i \in 0..(cur_pos - 1) : i \in Positions /\ Line[i + 1] = current_input[i]
      /\ cur_pos <= 2 * MAX_STR_COUNT /\ MAX_STR_COUNT \in Nat
  BY LineFacts
<1>2. k \in {1, 2} /\ sym \in Seq(Written) /\ \A i \in 1..k : sym[i] \in Bytes
  <2>1. k \in {1, 2} /\ sym \in Seq(Written)
    BY OneLetter
  <2> QED BY <2>1 DEF Bytes
<1>3. Positions = 0..(2 * MAX_STR_COUNT + 1)
  BY <1>1 DEF Positions, MAX_BUFFER_SIZE
<1>4. /\ before \in Seq(Written) /\ behind \in Seq(Written)
      /\ Len(before) = c /\ Len(behind) = cur_pos - c
      /\ \A i \in 1..c : before[i] = Line[i]
      /\ \A i \in 1..(cur_pos - c) : behind[i] = Line[c + i]
  BY <1>1, PartsOf
<1>5. \A i \in Positions :
         buf[i] = IF i < c THEN current_input[i]
                  ELSE IF i < c + k THEN sym[i - c + 1]
                  ELSE IF i < cur_pos + k THEN current_input[i - k]
                  ELSE IF i = cur_pos + k /\ left_offset > 0 THEN NUL
                  ELSE current_input[i]
  BY DEF Inserted
<1>6. DOMAIN buf = Positions /\ current_input \in [Positions -> Bytes] /\ NUL \in Bytes
      /\ buf = [i \in Positions |-> buf[i]]
  BY DEF Inserted, IInv, TypeOK, Bytes
<1> HIDE DEF c, k, before, behind, buf
<1>7. buf \in [Positions -> Bytes]
  <2>1. ASSUME NEW i \in Positions
        PROVE  buf[i] \in Bytes
    <3>1. CASE i < c
      BY <1>5, <1>6, <3>1
    <3>2. CASE ~(i < c) /\ i < c + k
      <4>1. i - c + 1 \in 1..k
        BY <1>1, <1>2, <1>3, <3>2
      <4> QED BY <1>2, <1>5, <3>2, <4>1
    <3>3. CASE ~(i < c) /\ ~(i < c + k) /\ i < cur_pos + k
      <4>1. i - k \in Positions
        BY <1>1, <1>2, <1>3, <3>3
      <4> QED BY <1>5, <1>6, <3>3, <4>1
    <3>4. CASE ~(i < c) /\ ~(i < c + k) /\ ~(i < cur_pos + k)
      BY <1>5, <1>6, <3>4
    <3> QED BY <3>1, <3>2, <3>3, <3>4
  <2> QED BY <1>6, <2>1
<1>8. /\ joined \in Seq(Written) /\ Len(joined) = cur_pos + k
      /\ \A i \in 1..c : joined[i] = before[i]
      /\ \A i \in 1..k : joined[c + i] = sym[i]
      /\ \A i \in 1..(cur_pos - c) : joined[(c + k) + i] = behind[i]
  <2> DEFINE first == before \o sym
  <2>1. /\ first \in Seq(Written) /\ Len(first) = c + k
        /\ \A i \in 1..c : first[i] = before[i]
        /\ \A i \in 1..k : first[c + i] = sym[i]
    <3>1. k = Len(sym)
      BY DEF k
    <3>2. /\ first \in Seq(Written) /\ Len(first) = Len(before) + Len(sym)
          /\ \A i \in 1..Len(before) : first[i] = before[i]
          /\ \A i \in 1..Len(sym) : first[Len(before) + i] = sym[i]
      <4>1. before \in Seq(Written) /\ sym \in Seq(Written)
        BY <1>2, <1>4
      <4> QED BY <4>1, JoinFacts
    <3> HIDE DEF first
    <3> QED BY <1>4, <3>1, <3>2
  <2> HIDE DEF first
  <2>2. /\ first \o behind \in Seq(Written) /\ Len(first \o behind) = cur_pos + k
        /\ \A i \in 1..(c + k) : (first \o behind)[i] = first[i]
        /\ \A i \in 1..(cur_pos - c) : (first \o behind)[(c + k) + i] = behind[i]
    <3>1. /\ first \o behind \in Seq(Written)
          /\ Len(first \o behind) = (c + k) + (cur_pos - c)
          /\ \A i \in 1..(c + k) : (first \o behind)[i] = first[i]
          /\ \A i \in 1..(cur_pos - c) : (first \o behind)[(c + k) + i] = behind[i]
      <4>1. /\ first \o behind \in Seq(Written)
            /\ Len(first \o behind) = Len(first) + Len(behind)
            /\ \A i \in 1..Len(first) : (first \o behind)[i] = first[i]
            /\ \A i \in 1..Len(behind) : (first \o behind)[Len(first) + i] = behind[i]
        <5>1. first \in Seq(Written) /\ behind \in Seq(Written)
          BY <1>4, <2>1
        <5> QED BY <5>1, JoinFacts
      <4> QED BY <1>4, <2>1, <4>1
    <3> QED BY <1>1, <1>2, <3>1
  <2>3. joined = first \o behind
    BY DEF first
  <2>4. /\ \A i \in 1..c : i \in 1..(c + k)
        /\ \A i \in 1..k : c + i \in 1..(c + k)
    BY <1>1, <1>2
  <2> HIDE DEF joined
  <2> QED BY <2>1, <2>2, <2>3, <2>4
<1> HIDE DEF joined
<1>9. /\ Len(str) = cur_pos + k /\ DOMAIN str = 1..(cur_pos + k)
      /\ \A i \in 1..(cur_pos + k) : str[i] = buf[i - 1]
  <2>1. cur_pos + k \in Nat
    BY <1>1, <1>2
  <2> QED BY <2>1, StringFacts
<1>10. ASSUME NEW i \in 1..(cur_pos + k)
       PROVE  str[i] = joined[i]
  <2>1. i - 1 \in Positions /\ str[i] = buf[i - 1]
    BY <1>1, <1>2, <1>3, <1>9
  <2>2. CASE i \in 1..c
    <3>1. i - 1 < c /\ i - 1 \in 0..(cur_pos - 1) /\ (i - 1) + 1 = i
      BY <1>1, <2>2
    <3>2. buf[i - 1] = current_input[i - 1]
      BY <1>5, <2>1, <3>1
    <3>3. Line[i] = current_input[i - 1]
      BY <1>1, <3>1
    <3> QED BY <1>4, <1>8, <2>1, <2>2, <3>2, <3>3
  <2>3. CASE i \in (c + 1)..(c + k)
    <3>1. ~(i - 1 < c) /\ i - 1 < c + k /\ (i - 1) - c + 1 = i - c
      BY <1>1, <1>2, <2>3
    <3>2. buf[i - 1] = sym[i - c]
      BY <1>5, <2>1, <3>1
    <3>3. i - c \in 1..k /\ c + (i - c) = i
      BY <1>1, <1>2, <2>3
    <3> QED BY <1>8, <2>1, <3>2, <3>3
  <2>4. CASE i \in (c + k + 1)..(cur_pos + k)
    <3>1. /\ ~(i - 1 < c) /\ ~(i - 1 < c + k) /\ i - 1 < cur_pos + k
          /\ (i - 1) - k \in 0..(cur_pos - 1) /\ ((i - 1) - k) + 1 = i - k
      BY <1>1, <1>2, <2>4
    <3>2. buf[i - 1] = current_input[(i - 1) - k]
      BY <1>5, <2>1, <3>1
    <3>3. Line[i - k] = current_input[(i - 1) - k]
      BY <1>1, <3>1
    <3>4. i - (c + k) \in 1..(cur_pos - c) /\ (c + k) + (i - (c + k)) = i /\ c + (i - (c + k)) = i - k
      BY <1>1, <1>2, <2>4
    <3>5. joined[i] = behind[i - (c + k)] /\ behind[i - (c + k)] = Line[i - k]
      BY <1>4, <1>8, <3>4
    <3> QED BY <2>1, <3>2, <3>3, <3>5
  <2> QED BY <1>1, <1>2, <2>2, <2>3, <2>4
<1>11. str = joined
  <2>1. str = [i \in 1..(cur_pos + k) |-> str[i]] /\ joined = [i \in 1..(cur_pos + k) |-> joined[i]]
    <3>1. joined = [i \in 1..Len(joined) |-> joined[i]]
      BY <1>8
    <3>2. str = [i \in 1..(cur_pos + k) |-> buf[i - 1]]
      BY DEF String
    <3> QED BY <1>8, <3>1, <3>2
  <2> QED BY <1>10, <2>1
<1> QED BY <1>7, <1>11 DEF joined, before, behind, buf, c, k

\* The bytes from one place to another taken away.
LEMMA RemovedLine ==
    ASSUME IInv, NEW from \in 0..cur_pos, NEW to \in 0..cur_pos, from <= to, NEW cleared \in Nat
    PROVE  /\ Removed(from, to, cleared) \in [Positions -> Bytes]
           /\ String(Removed(from, to, cleared), cur_pos - (to - from)) =
                 SubSeq(Line, 1, from) \o SubSeq(Line, to + 1, Len(Line))
<1> DEFINE k == to - from
           n == cur_pos - k
           before == SubSeq(Line, 1, from)
           behind == SubSeq(Line, to + 1, Len(Line))
           joined == before \o behind
           buf == Removed(from, to, cleared)
           str == String(buf, n)
<1>1. /\ cur_pos \in Nat /\ Len(Line) = cur_pos /\ Line \in Seq(Written)
      /\ \A i \in 0..(cur_pos - 1) : i \in Positions /\ Line[i + 1] = current_input[i]
      /\ cur_pos <= 2 * MAX_STR_COUNT /\ MAX_STR_COUNT \in Nat
  BY LineFacts
<1>2. /\ from \in Nat /\ to \in Nat /\ k \in Nat /\ from + k = to /\ n \in Nat /\ n <= cur_pos
      /\ n - from = cur_pos - to /\ n - from \in Nat
  BY <1>1
<1>3. Positions = 0..(2 * MAX_STR_COUNT + 1)
  BY <1>1 DEF Positions, MAX_BUFFER_SIZE
<1>4. /\ before \in Seq(Written) /\ Len(before) = from
      /\ \A i \in 1..from : before[i] = Line[i]
      /\ behind \in Seq(Written) /\ Len(behind) = cur_pos - to
      /\ \A i \in 1..(cur_pos - to) : behind[i] = Line[to + i]
  BY <1>1, PartsOf
<1>5. \A i \in Positions :
         buf[i] = IF i < from THEN current_input[i]
                  ELSE IF i < n THEN current_input[i + k]
                  ELSE IF i < n + cleared THEN NUL
                  ELSE current_input[i]
  BY DEF Removed
<1>6. buf = [i \in Positions |-> buf[i]] /\ current_input \in [Positions -> Bytes] /\ NUL \in Bytes
  BY DEF Removed, IInv, TypeOK, Bytes
<1> HIDE DEF k, n, before, behind, buf
<1>7. buf \in [Positions -> Bytes]
  <2>1. ASSUME NEW i \in Positions
        PROVE  buf[i] \in Bytes
    <3>1. CASE ~(i < from) /\ i < n
      <4>1. i + k \in 0..(cur_pos - 1)
        <5>1. i \in Nat /\ i < n /\ n = cur_pos - k
          BY <1>3, <3>1 DEF n
        <5> QED BY <1>1, <1>2, <5>1
      <4>2. i + k \in Positions
        BY <1>1, <4>1
      <4> QED BY <1>5, <1>6, <3>1, <4>2
    <3>2. CASE i < from \/ ~(i < n)
      BY <1>5, <1>6, <3>2
    <3> QED BY <3>1, <3>2
  <2> QED BY <1>6, <2>1
<1>8. /\ joined \in Seq(Written) /\ Len(joined) = n
      /\ \A i \in 1..from : joined[i] = before[i]
      /\ \A i \in 1..(n - from) : joined[from + i] = behind[i]
  <2>1. /\ joined \in Seq(Written) /\ Len(joined) = Len(before) + Len(behind)
        /\ \A i \in 1..Len(before) : joined[i] = before[i]
        /\ \A i \in 1..Len(behind) : joined[Len(before) + i] = behind[i]
    <3>1. before \in Seq(Written) /\ behind \in Seq(Written)
      BY <1>4
    <3> QED BY <3>1, JoinFacts
  <2> HIDE DEF joined
  <2> QED BY <1>1, <1>2, <1>4, <2>1
<1> HIDE DEF joined
<1>9. \A i \in 1..n : str[i] = buf[i - 1]
  BY <1>2, StringFacts
<1>10. ASSUME NEW i \in 1..n
       PROVE  str[i] = joined[i]
  <2>1. i - 1 \in Positions /\ str[i] = buf[i - 1] /\ i - 1 < n
    BY <1>1, <1>2, <1>3, <1>9
  <2>2. CASE i \in 1..from
    <3>1. i - 1 < from /\ i - 1 \in 0..(cur_pos - 1) /\ (i - 1) + 1 = i
      BY <1>1, <1>2, <2>2
    <3>2. buf[i - 1] = current_input[i - 1]
      BY <1>5, <2>1, <3>1
    <3>3. Line[i] = current_input[i - 1]
      BY <1>1, <3>1
    <3> QED BY <1>4, <1>8, <2>1, <2>2, <3>2, <3>3
  <2>3. CASE i \in (from + 1)..n
    <3>1. ~(i - 1 < from)
      BY <1>2, <2>3
    <3>2. buf[i - 1] = current_input[(i - 1) + k]
      BY <1>5, <2>1, <3>1
    <3>3. (i - 1) + k \in 0..(cur_pos - 1) /\ ((i - 1) + k) + 1 = i + k
      <4>1. n = cur_pos - k
        BY DEF n
      <4> QED BY <1>1, <1>2, <2>3, <4>1
    <3>4. Line[i + k] = current_input[(i - 1) + k]
      BY <1>1, <3>3
    <3>5. i - from \in 1..(n - from) /\ from + (i - from) = i /\ to + (i - from) = i + k
      BY <1>1, <1>2, <2>3
    <3>6. joined[i] = behind[i - from]
      BY <1>8, <3>5
    <3>7. behind[i - from] = Line[i + k]
      <4>1. i - from \in 1..(cur_pos - to)
        BY <1>2, <3>5
      <4>2. behind[i - from] = Line[to + (i - from)]
        BY <1>4, <4>1
      <4> QED BY <3>5, <4>2
    <3> QED BY <2>1, <3>2, <3>4, <3>6, <3>7
  <2> QED BY <1>2, <2>2, <2>3
<1>11. str = joined
  <2>1. str = [i \in 1..n |-> str[i]] /\ joined = [i \in 1..n |-> joined[i]]
    <3>1. joined = [i \in 1..Len(joined) |-> joined[i]]
      BY <1>8
    <3>2. str = [i \in 1..n |-> buf[i - 1]]
      BY DEF String
    <3> QED BY <1>8, <3>1, <3>2
  <2> QED BY <1>10, <2>1
<1> QED BY <1>7, <1>11 DEF joined, before, behind, buf, n, k

\* Whatever is cut out between letters, what is left is whole and has that many
\* letters less.
LEMMA Shortened ==
    ASSUME IInv, NEW from, NEW to, Cut(Line, from), Cut(Line, to), from <= to,
           NEW cleared \in Nat,
           current_input' = Removed(from, to, cleared), cur_pos' = cur_pos - (to - from)
    PROVE  LET gone == SubSeq(Line, from + 1, to)
           IN  /\ current_input' \in [Positions -> Bytes] /\ cur_pos' \in Nat
               /\ Line' \in Seq(Written) /\ Whole(Line') /\ Len(Line') = cur_pos'
               /\ Cut(Line', from)
               /\ gone \in Seq(Written) /\ Whole(gone) /\ Len(gone) = to - from
               /\ \A i \in 1..(to - from) : gone[i] = Line[from + i]
               /\ AsciiIn(gone) \in Nat /\ CyrilIn(gone) \in Nat
               /\ AsciiIn(Line') = ascii - AsciiIn(gone)
               /\ CyrilIn(Line') = cyril - CyrilIn(gone)
               /\ AsciiIn(Line') + CyrilIn(Line') <= MAX_STR_COUNT
<1> DEFINE before == SubSeq(Line, 1, from)
           gone == SubSeq(Line, from + 1, to)
           behind == SubSeq(Line, to + 1, Len(Line))
<1>1. /\ Line \in Seq(Written) /\ Whole(Line) /\ Len(Line) = cur_pos /\ cur_pos \in Nat
      /\ ascii \in Nat /\ cyril \in Nat /\ MAX_STR_COUNT \in Nat
  BY LineFacts
<1>2. from \in 0..cur_pos /\ to \in 0..cur_pos /\ cur_pos' \in Nat
  BY <1>1 DEF Cut
<1>3. /\ current_input' \in [Positions -> Bytes] /\ Line' = before \o behind
  BY <1>2, RemovedLine DEF Line
<1>4. /\ before \in Seq(Written) /\ Whole(before) /\ Len(before) = from
      /\ gone \in Seq(Written) /\ Whole(gone) /\ Len(gone) = to - from
      /\ behind \in Seq(Written) /\ Whole(behind)
      /\ \A i \in 1..(to - from) : gone[i] = Line[from + i]
      /\ AsciiIn(Line) = AsciiIn(before) + AsciiIn(gone) + AsciiIn(behind)
      /\ CyrilIn(Line) = CyrilIn(before) + CyrilIn(gone) + CyrilIn(behind)
  <2>1. from \in Int /\ to \in Int
    BY <1>2
  <2>2. /\ before \in Seq(Written) /\ Whole(before) /\ Len(before) = from
        /\ behind \in Seq(Written) /\ Whole(behind)
    BY <1>1, ThreeParts
  <2>3. gone \in Seq(Written) /\ Whole(gone)
    BY <1>1, ThreeParts
  <2>4. Len(gone) = to - from
    BY <1>1, <2>1, ThreeParts
  <2>5. \A i \in 1..(to - from) : gone[i] = Line[from + i]
    BY <1>1, <2>1, ThreeParts
  <2>6. /\ AsciiIn(Line) = AsciiIn(before) + AsciiIn(gone) + AsciiIn(behind)
        /\ CyrilIn(Line) = CyrilIn(before) + CyrilIn(gone) + CyrilIn(behind)
    BY <1>1, ThreeParts
  <2> HIDE DEF before, gone, behind
  <2> QED BY <2>2, <2>3, <2>4, <2>5, <2>6
<1> HIDE DEF before, gone, behind
<1>5. /\ Line' \in Seq(Written) /\ Whole(Line') /\ Cut(Line', from)
      /\ AsciiIn(Line') = AsciiIn(before) + AsciiIn(behind)
      /\ CyrilIn(Line') = CyrilIn(before) + CyrilIn(behind)
  <2>1. before \o behind \in Seq(Written) /\ Whole(before \o behind)
    BY <1>4, WholeJoin
  <2>2. Cut(before \o behind, Len(before))
    BY <1>4, CutAtJoin
  <2>3. /\ AsciiIn(before \o behind) = AsciiIn(before) + AsciiIn(behind)
        /\ CyrilIn(before \o behind) = CyrilIn(before) + CyrilIn(behind)
    BY <1>4, LettersJoin
  <2> QED BY <1>3, <1>4, <2>1, <2>2, <2>3
<1>6. Len(Line') = cur_pos'
  <2>1. Line' = String(current_input', cur_pos')
    BY DEF Line
  <2> QED BY <1>2, <2>1, StringFacts
<1>7. /\ AsciiIn(before) \in Nat /\ AsciiIn(gone) \in Nat /\ AsciiIn(behind) \in Nat
      /\ CyrilIn(before) \in Nat /\ CyrilIn(gone) \in Nat /\ CyrilIn(behind) \in Nat
  BY <1>4, LettersMakeBytes
<1>8. ascii = AsciiIn(Line) /\ cyril = CyrilIn(Line) /\ ascii + cyril <= MAX_STR_COUNT
  BY DEF IInv, Edits, Fitting
<1>9. /\ AsciiIn(Line') = ascii - AsciiIn(gone) /\ CyrilIn(Line') = cyril - CyrilIn(gone)
      /\ AsciiIn(Line') + CyrilIn(Line') <= MAX_STR_COUNT
  <2> DEFINE a == AsciiIn(before)
             b == AsciiIn(gone)
             c == AsciiIn(behind)
             d == CyrilIn(before)
             e == CyrilIn(gone)
             f == CyrilIn(behind)
  <2>1. /\ a \in Nat /\ b \in Nat /\ c \in Nat /\ d \in Nat /\ e \in Nat /\ f \in Nat
        /\ ascii = a + b + c /\ cyril = d + e + f
        /\ AsciiIn(Line') = a + c /\ CyrilIn(Line') = d + f
    BY <1>4, <1>5, <1>7, <1>8
  <2> HIDE DEF a, b, c, d, e, f
  <2>2. /\ AsciiIn(Line') = ascii - b /\ CyrilIn(Line') = cyril - e
        /\ AsciiIn(Line') + CyrilIn(Line') <= MAX_STR_COUNT
    BY <1>1, <1>8, <2>1
  <2> QED BY <2>2 DEF b, e
<1> QED BY <1>2, <1>3, <1>4, <1>5, <1>6, <1>7, <1>9 DEF gone

-----------------------------------------------------------------------------
(* The handlers.                                                           *)

\* What an edit of the line has to leave.
LEMMA EditKeeps ==
    ASSUME IInv, current_input' \in [Positions -> Bytes], cur_pos' \in Nat,
           left_offset' \in 0..cur_pos', Fitting(Line'), Cut(Line', CursorPos'),
           ascii' = AsciiIn(Line'), cyril' = CyrilIn(Line'),
           UNCHANGED <<input_history, ih_iter, save_buf>>
    PROVE  IInv'
<1>1. TypeOK'
  BY DEF IInv, TypeOK
<1>2. Kept'
  BY DEF IInv, Kept, Fitting, Whole, AsciiIn, CyrilIn
<1> QED BY <1>1, <1>2 DEF IInv, Edits

LEMMA AlphabetKeeps ==
    ASSUME IInv, NEW sym, Letter(sym), Alphabet(sym)
    PROVE  IInv'
<1> DEFINE before == SubSeq(Line, 1, CursorPos)
           behind == SubSeq(Line, CursorPos + 1, Len(Line))
           first  == before \o sym
<1>1. /\ Line \in Seq(Written) /\ Whole(Line) /\ Len(Line) = cur_pos /\ cur_pos \in Nat
      /\ left_offset \in 0..cur_pos /\ CursorPos \in 0..cur_pos /\ Cut(Line, CursorPos)
      /\ ascii \in Nat /\ cyril \in Nat /\ MAX_STR_COUNT \in Nat
  BY LineFacts
<1>2. /\ sym \in Seq(Written) /\ Whole(sym) /\ Len(sym) \in {1, 2}
      /\ AsciiIn(sym) = IF Len(sym) = 2 THEN 0 ELSE 1
      /\ CyrilIn(sym) = IF Len(sym) = 2 THEN 1 ELSE 0
  BY OneLetter
<1>3. /\ current_input' = Inserted(sym) /\ cur_pos' = cur_pos + Len(sym)
      /\ ascii + cyril < MAX_STR_COUNT
      /\ ascii' = ascii + AsciiIn(sym) /\ cyril' = cyril + CyrilIn(sym)
      /\ UNCHANGED <<left_offset, input_history, ih_iter, save_buf>>
  <2>1. cyril + ascii = ascii + cyril
    BY <1>1
  <2> QED BY <1>1, <1>2, <2>1 DEF Alphabet, Total, Edited
<1>4. current_input' \in [Positions -> Bytes] /\ Line' = first \o behind
  BY <1>3, InsertedLine DEF Line
<1>5. /\ before \in Seq(Written) /\ Len(before) = CursorPos /\ behind \in Seq(Written)
      /\ Line = before \o behind
  BY <1>1, PartsOf
<1>6. Whole(before) /\ Whole(behind)
  BY <1>1, WholeCut
<1> HIDE DEF before, behind
<1>7. /\ first \in Seq(Written) /\ Whole(first) /\ Len(first) = CursorPos + Len(sym)
      /\ AsciiIn(first) = AsciiIn(before) + AsciiIn(sym)
      /\ CyrilIn(first) = CyrilIn(before) + CyrilIn(sym)
  <2>1. first \in Seq(Written) /\ Whole(first)
    BY <1>2, <1>5, <1>6, WholeJoin
  <2>2. Len(first) = Len(before) + Len(sym)
    BY <1>2, <1>5, JoinFacts
  <2> QED BY <1>2, <1>5, <1>6, <2>1, <2>2, LettersJoin
<1> HIDE DEF first
<1>8. /\ Line' \in Seq(Written) /\ Whole(Line') /\ Cut(Line', CursorPos + Len(sym))
      /\ AsciiIn(Line') = AsciiIn(first) + AsciiIn(behind)
      /\ CyrilIn(Line') = CyrilIn(first) + CyrilIn(behind)
  <2>1. /\ first \o behind \in Seq(Written) /\ Whole(first \o behind)
        /\ Cut(first \o behind, Len(first))
    BY <1>5, <1>6, <1>7, WholeJoin, CutAtJoin
  <2>2. /\ AsciiIn(first \o behind) = AsciiIn(first) + AsciiIn(behind)
        /\ CyrilIn(first \o behind) = CyrilIn(first) + CyrilIn(behind)
    BY <1>5, <1>6, <1>7, LettersJoin
  <2> QED BY <1>4, <1>7, <2>1, <2>2
<1>9. /\ ascii = AsciiIn(before) + AsciiIn(behind) /\ cyril = CyrilIn(before) + CyrilIn(behind)
      /\ AsciiIn(before) \in Nat /\ AsciiIn(behind) \in Nat
      /\ CyrilIn(before) \in Nat /\ CyrilIn(behind) \in Nat
  <2>1. ascii = AsciiIn(Line) /\ cyril = CyrilIn(Line)
    BY DEF IInv, Edits
  <2>2. /\ AsciiIn(before \o behind) = AsciiIn(before) + AsciiIn(behind)
        /\ CyrilIn(before \o behind) = CyrilIn(before) + CyrilIn(behind)
    BY <1>5, <1>6, LettersJoin
  <2> QED BY <1>5, <1>6, <2>1, <2>2, LettersMakeBytes
<1>10. ascii' = AsciiIn(Line') /\ cyril' = CyrilIn(Line')
  <2> DEFINE a == AsciiIn(before)
             b == AsciiIn(sym)
             c == AsciiIn(behind)
             d == CyrilIn(before)
             e == CyrilIn(sym)
             f == CyrilIn(behind)
  <2>1. /\ a \in Nat /\ b \in Nat /\ c \in Nat /\ d \in Nat /\ e \in Nat /\ f \in Nat
        /\ ascii' = (a + c) + b /\ cyril' = (d + f) + e
        /\ AsciiIn(Line') = (a + b) + c /\ CyrilIn(Line') = (d + e) + f
    BY <1>2, <1>3, <1>7, <1>8, <1>9
  <2> HIDE DEF a, b, c, d, e, f
  <2> QED BY <2>1
<1>11. AsciiIn(Line') + CyrilIn(Line') <= MAX_STR_COUNT
  BY <1>1, <1>2, <1>3, <1>10
<1>12. /\ cur_pos' \in Nat /\ left_offset' \in 0..cur_pos' /\ CursorPos' = CursorPos + Len(sym)
  BY <1>1, <1>2, <1>3 DEF CursorPos
<1>13. Fitting(Line') /\ Cut(Line', CursorPos')
  BY <1>8, <1>11, <1>12 DEF Fitting
<1> QED BY <1>3, <1>4, <1>10, <1>12, <1>13, EditKeeps

\* A piece of one letter.
LEMMA PieceOfOne ==
    ASSUME NEW str \in Seq(Written), Whole(str), NEW bytes \in {1, 2}, Len(str) = bytes,
           bytes = 2 => <<str[1], str[2]>> \in Cyrillic
    PROVE  /\ AsciiIn(str) = IF bytes = 2 THEN 0 ELSE 1
           /\ CyrilIn(str) = IF bytes = 2 THEN 1 ELSE 0
<1>1. CASE bytes = 1
  <2>1. /\ AsciiIn(str) \in Nat /\ CyrilIn(str) \in Nat
        /\ 1 = AsciiIn(str) + 2 * CyrilIn(str)
    BY <1>1, LettersMakeBytes
  <2> QED BY <1>1, <2>1
<1>2. CASE bytes = 2
  <2>1. str = <<str[1], str[2]>>
    BY <1>2
  <2> QED BY <1>2, <2>1, OneLetter DEF Letter
<1> QED BY <1>1, <1>2

\* One letter is taken away, before the cursor or behind it.
LEMMA LetterGone ==
    ASSUME IInv, NEW from, NEW bytes \in {1, 2}, NEW cleared \in Nat,
           Cut(Line, from), Cut(Line, from + bytes),
           bytes = 2 => IsCyrillicSymbol(current_input[from], current_input[from + 1]),
           current_input' = Removed(from, from + bytes, cleared),
           cur_pos' = cur_pos - bytes, OneLess(bytes),
           left_offset' \in 0..cur_pos', CursorPos' = from,
           UNCHANGED <<input_history, ih_iter, save_buf>>
    PROVE  IInv'
<1> DEFINE to == from + bytes
           gone == SubSeq(Line, from + 1, to)
<1>1. /\ Len(Line) = cur_pos /\ cur_pos \in Nat
      /\ \A i \in 0..(cur_pos - 1) : Line[i + 1] = current_input[i]
  BY LineFacts
<1>2. /\ from \in 0..cur_pos /\ to \in 0..cur_pos /\ from <= to /\ to - from = bytes
      /\ from \in Nat
  BY <1>1 DEF Cut
<1> HIDE DEF to
<1>3. /\ current_input' \in [Positions -> Bytes] /\ cur_pos' \in Nat
      /\ Line' \in Seq(Written) /\ Whole(Line') /\ Cut(Line', from)
      /\ AsciiIn(Line') + CyrilIn(Line') <= MAX_STR_COUNT
  BY <1>2, Shortened DEF to
<1>4. gone \in Seq(Written) /\ Whole(gone)
  BY <1>2, Shortened DEF to
<1>5. Len(gone) = bytes
  <2>1. Len(gone) = to - from
    BY <1>2, Shortened DEF to
  <2> QED BY <1>2, <2>1
<1>6. AsciiIn(Line') = ascii - AsciiIn(gone) /\ CyrilIn(Line') = cyril - CyrilIn(gone)
  BY <1>2, Shortened DEF to
<1>7. \A i \in 1..bytes : gone[i] = Line[from + i]
  <2>1. \A i \in 1..(to - from) : gone[i] = Line[from + i]
    BY <1>2, Shortened DEF to
  <2> QED BY <1>2, <2>1
<1> HIDE DEF gone
<1>8. ASSUME bytes = 2
      PROVE  <<gone[1], gone[2]>> \in Cyrillic
  <2>1. gone[1] = Line[from + 1] /\ gone[2] = Line[from + 2]
    BY <1>7, <1>8
  <2>2. from \in 0..(cur_pos - 1) /\ from + 1 \in 0..(cur_pos - 1) /\ (from + 1) + 1 = from + 2
    BY <1>1, <1>2, <1>8 DEF to
  <2>3. Line[from + 1] = current_input[from] /\ Line[from + 2] = current_input[from + 1]
    BY <1>1, <2>2
  <2> QED BY <1>8, <2>1, <2>3 DEF IsCyrillicSymbol
<1>9. /\ AsciiIn(gone) = IF bytes = 2 THEN 0 ELSE 1
      /\ CyrilIn(gone) = IF bytes = 2 THEN 1 ELSE 0
  BY <1>4, <1>5, <1>8, PieceOfOne
<1>10. ascii' = AsciiIn(Line') /\ cyril' = CyrilIn(Line')
  <2>1. ascii \in Nat /\ cyril \in Nat
    BY LineFacts
  <2> QED BY <1>6, <1>9, <2>1 DEF OneLess
<1>11. Fitting(Line') /\ Cut(Line', CursorPos')
  BY <1>3 DEF Fitting
<1> QED BY <1>3, <1>10, <1>11, EditKeeps

LEMMA BackspaceIs ==
    ASSUME IInv, Backspace
    PROVE  \E bytes \in {1, 2} : \E from, cleared \in Nat :
               /\ from + bytes = CursorPos /\ cleared > 0
               /\ Cut(Line, from) /\ Cut(Line, from + bytes)
               /\ bytes = 2 => IsCyrillicSymbol(current_input[from], current_input[from + 1])
               /\ current_input' = Removed(from, from + bytes, cleared)
               /\ cur_pos' = cur_pos - bytes /\ OneLess(bytes)
               /\ left_offset' \in 0..cur_pos' /\ CursorPos' = from
               /\ UNCHANGED <<left_offset, input_history, ih_iter, save_buf>>
<1> DEFINE c == CursorPos
<1>1. /\ cur_pos \in Nat /\ left_offset \in 0..cur_pos /\ c \in 0..cur_pos /\ Cut(Line, c)
      /\ c = cur_pos - left_offset
  BY LineFacts DEF CursorPos
<1>2. left_offset < cur_pos /\ c > 0
  BY <1>1 DEF Backspace
<1>3. PICK bytes \in {1, 2} :
         /\ bytes = 2 <=> c >= 2 /\ IsCyrillicSymbol(current_input[c - 2], current_input[c - 1])
         /\ current_input' = Removed(c - bytes, c, IF left_offset = 0 THEN bytes ELSE 1)
         /\ cur_pos' = cur_pos - bytes
         /\ OneLess(bytes)
  BY DEF Backspace
<1>4. UNCHANGED <<left_offset, input_history, ih_iter, save_buf>>
  BY DEF Backspace, Edited
<1>5. Cut(Line, c - bytes) /\ c - bytes \in Nat
  <2>1. c >= 2 <=> c > 1
    BY <1>1
  <2>2. CASE bytes = 2
    BY <1>1, <1>2, <1>3, <2>1, <2>2, LetterBefore
  <2>3. CASE bytes = 1
    BY <1>1, <1>2, <1>3, <2>1, <2>3, LetterBefore
  <2> QED BY <2>2, <2>3
<1> DEFINE from == c - bytes
           cleared == IF left_offset = 0 THEN bytes ELSE 1
<1>6. from + bytes = c /\ cleared \in Nat /\ cleared > 0 /\ from + 1 = IF bytes = 2 THEN c - 1 ELSE c
  BY <1>1
<1>7. bytes = 2 => from = c - 2
  OBVIOUS
<1>8. left_offset' \in 0..cur_pos' /\ CursorPos' = from
  <2>1. CursorPos' = cur_pos' - left_offset'
    BY DEF CursorPos
  <2>2. bytes \in Nat /\ from \in Nat /\ from = (cur_pos - left_offset) - bytes
    BY <1>1, <1>5
  <2> HIDE DEF from
  <2> QED BY <1>1, <1>3, <1>4, <2>1, <2>2
<1>9. bytes = 2 => IsCyrillicSymbol(current_input[from], current_input[from + 1])
  BY <1>3, <1>6, <1>7
<1>10. /\ Cut(Line, from) /\ Cut(Line, from + bytes)
       /\ current_input' = Removed(from, from + bytes, cleared)
  BY <1>1, <1>3, <1>5, <1>6
<1>11. from + bytes = CursorPos /\ from \in Nat
  BY <1>5, <1>6
<1> HIDE DEF c, from, cleared
<1> QED BY <1>3, <1>4, <1>6, <1>8, <1>9, <1>10, <1>11

LEMMA BackspaceKeeps ==
    ASSUME IInv, Backspace
    PROVE  IInv'
BY BackspaceIs, LetterGone

LEMMA DelIs ==
    ASSUME IInv, Del
    PROVE  \E bytes \in {1, 2} :
               /\ Cut(Line, CursorPos) /\ Cut(Line, CursorPos + bytes)
               /\ bytes = 2 => IsCyrillicSymbol(current_input[CursorPos],
                                               current_input[CursorPos + 1])
               /\ current_input' = Removed(CursorPos, CursorPos + bytes, 1)
               /\ cur_pos' = cur_pos - bytes /\ OneLess(bytes)
               /\ left_offset' \in 0..cur_pos' /\ CursorPos' = CursorPos
               /\ UNCHANGED <<input_history, ih_iter, save_buf>>
<1> DEFINE c == CursorPos
<1>1. /\ cur_pos \in Nat /\ left_offset \in 0..cur_pos /\ c \in 0..cur_pos /\ Cut(Line, c)
      /\ c = cur_pos - left_offset
  BY LineFacts DEF CursorPos
<1>2. left_offset > 0
  BY DEF Del
<1>3. PICK bytes \in {1, 2} :
         /\ bytes = 2 <=> c + 1 < cur_pos /\ IsCyrillicSymbol(current_input[c], current_input[c + 1])
         /\ current_input' = Removed(c, c + bytes, 1)
         /\ cur_pos' = cur_pos - bytes /\ left_offset' = left_offset - bytes
         /\ OneLess(bytes)
  BY DEF Del
<1>4. UNCHANGED <<input_history, ih_iter, save_buf>>
  BY DEF Del, Edited
<1>5. c + 1 < cur_pos <=> left_offset > 1
  BY <1>1
<1>6. Cut(Line, c + bytes)
  <2>1. CASE bytes = 2
    BY <1>2, <1>3, <1>5, <2>1, LetterBehind
  <2>2. CASE bytes = 1
    BY <1>2, <1>3, <1>5, <2>2, LetterBehind
  <2> QED BY <2>1, <2>2
<1>7. left_offset' \in 0..cur_pos' /\ CursorPos' = c
  <2>1. CursorPos' = cur_pos' - left_offset'
    BY DEF CursorPos
  <2>2. bytes = 2 => left_offset > 1
    BY <1>3, <1>5
  <2> HIDE DEF c
  <2> QED BY <1>1, <1>2, <1>3, <2>1, <2>2
<1>8. bytes = 2 => IsCyrillicSymbol(current_input[c], current_input[c + 1])
  BY <1>3
<1> QED BY <1>1, <1>3, <1>4, <1>6, <1>7, <1>8

LEMMA DelKeeps ==
    ASSUME IInv, Del
    PROVE  IInv'
<1>1. 1 \in Nat
  OBVIOUS
<1> QED BY <1>1, DelIs, LetterGone

LEMMA CtrlWIs ==
    ASSUME IInv, CtrlW
    PROVE  \E from \in 0..(CursorPos - 1) :
               /\ WordBegins(from) /\ Cut(Line, from) /\ from \in Nat
               /\ current_input' = Removed(from, CursorPos, CursorPos - from)
               /\ cur_pos' = cur_pos - (CursorPos - from) /\ CursorPos' = from
               /\ CursorPos \in 0..cur_pos /\ from < CursorPos
               /\ left_offset' \in 0..cur_pos'
               /\ ascii' = ascii - AsciiIn(SubSeq(Line, from + 1, CursorPos))
               /\ cyril' = cyril - CyrilIn(SubSeq(Line, from + 1, CursorPos))
               /\ UNCHANGED <<left_offset, input_history, ih_iter, save_buf>>
<1> DEFINE c == CursorPos
<1>1. /\ cur_pos \in Nat /\ left_offset \in 0..cur_pos /\ c \in 0..cur_pos /\ Cut(Line, c)
      /\ c = cur_pos - left_offset /\ Len(Line) = cur_pos /\ DOMAIN Line = 1..cur_pos
      /\ \A i \in 0..(cur_pos - 1) : Line[i + 1] = current_input[i]
      /\ Whole(Line) /\ Line \in Seq(Written)
  BY LineFacts DEF CursorPos
<1>2. PICK from \in 0..(c - 1) :
         /\ WordBegins(from)
         /\ current_input' = Removed(from, c, c - from)
         /\ cur_pos' = cur_pos - (c - from)
         /\ ascii' = ascii - AsciiIn(SubSeq(Line, from + 1, c))
         /\ cyril' = cyril - CyrilIn(SubSeq(Line, from + 1, c))
  BY DEF CtrlW, Line
<1>3. UNCHANGED <<left_offset, input_history, ih_iter, save_buf>>
  BY DEF CtrlW, Edited
<1>4. from \in Nat /\ from < c /\ from \in 0..cur_pos /\ from \in 0..(cur_pos - 1)
      /\ from <= c /\ c - from \in Nat
  BY <1>1, <1>2
<1>5. Cut(Line, from)
  <2>1. ASSUME 0 < from, Line[from + 1] \in Trail
        PROVE  FALSE
    <3>1. from + 1 \in 1..cur_pos /\ (from + 1) - 1 = from
      BY <1>1, <1>4
    <3>2. Line[from] \in Lead
      BY <1>1, <2>1, <3>1 DEF Whole
    <3>3. from - 1 \in 0..(cur_pos - 1) /\ (from - 1) + 1 = from
      BY <1>1, <1>4, <2>1
    <3>4. Line[from + 1] = current_input[from] /\ Line[from] = current_input[from - 1]
      BY <1>1, <1>4, <3>3
    <3>5. current_input[from] # Blank /\ current_input[from - 1] # Blank
      BY <2>1, <3>2, <3>4, InputAssumption
    <3>6. from \in from..(c - 1)
      BY <1>1, <1>4
    <3>7. (current_input[from] = Blank) = (current_input[c - 1] = Blank)
      BY <1>2, <3>6 DEF WordBegins
    <3>8. (current_input[from - 1] = Blank) # (current_input[c - 1] = Blank)
      BY <1>2, <2>1 DEF WordBegins
    <3> QED BY <3>5, <3>7, <3>8
  <2> QED BY <1>1, <1>4, <2>1 DEF Cut
<1>6. left_offset' \in 0..cur_pos' /\ CursorPos' = from
  <2>1. CursorPos' = cur_pos' - left_offset'
    BY DEF CursorPos
  <2> HIDE DEF c
  <2> QED BY <1>1, <1>2, <1>3, <1>4, <2>1
<1> QED BY <1>1, <1>2, <1>3, <1>4, <1>5, <1>6

LEMMA CtrlWKeeps ==
    ASSUME IInv, CtrlW
    PROVE  IInv'
<1> DEFINE c == CursorPos
<1>1. PICK from \in 0..(c - 1) :
         /\ WordBegins(from) /\ Cut(Line, from) /\ from \in Nat
         /\ current_input' = Removed(from, c, c - from)
         /\ cur_pos' = cur_pos - (c - from) /\ CursorPos' = from
         /\ c \in 0..cur_pos /\ from < c
         /\ left_offset' \in 0..cur_pos'
         /\ ascii' = ascii - AsciiIn(SubSeq(Line, from + 1, c))
         /\ cyril' = cyril - CyrilIn(SubSeq(Line, from + 1, c))
         /\ UNCHANGED <<left_offset, input_history, ih_iter, save_buf>>
  BY CtrlWIs
<1> DEFINE gone == SubSeq(Line, from + 1, c)
<1>2. /\ Cut(Line, from) /\ Cut(Line, c) /\ from <= c /\ c - from \in Nat
      /\ current_input' = Removed(from, c, c - from) /\ cur_pos' = cur_pos - (c - from)
  <2>1. cur_pos \in Nat /\ Cut(Line, c)
    BY LineFacts
  <2> QED BY <1>1, <2>1
<1> HIDE DEF c
<1>3. /\ current_input' \in [Positions -> Bytes] /\ cur_pos' \in Nat
      /\ Line' \in Seq(Written) /\ Whole(Line') /\ Cut(Line', from)
      /\ AsciiIn(Line') + CyrilIn(Line') <= MAX_STR_COUNT
  BY <1>2, Shortened
<1>4. AsciiIn(Line') = ascii - AsciiIn(gone)
  BY <1>2, Shortened
<1>5. CyrilIn(Line') = cyril - CyrilIn(gone)
  BY <1>2, Shortened
<1>6. ascii' = AsciiIn(Line') /\ cyril' = CyrilIn(Line')
  BY <1>1, <1>4, <1>5
<1>7. Fitting(Line') /\ Cut(Line', CursorPos')
  BY <1>1, <1>3 DEF Fitting
<1> QED BY <1>1, <1>3, <1>6, <1>7, EditKeeps

LEMMA MoveKeeps ==
    ASSUME IInv, Moved, left_offset' \in 0..cur_pos, Cut(Line, cur_pos - left_offset')
    PROVE  IInv'
<1>1. /\ UNCHANGED <<current_input, cur_pos, ascii, cyril>>
      /\ UNCHANGED <<input_history, ih_iter, save_buf>>
  BY DEF Moved, browsing
<1>2. UNCHANGED Line /\ CursorPos' = cur_pos - left_offset'
  BY <1>1 DEF Line, String, CursorPos
<1>3. /\ current_input' \in [Positions -> Bytes] /\ cur_pos' \in Nat
      /\ left_offset' \in 0..cur_pos'
  BY <1>1 DEF IInv, TypeOK
<1>4. ascii' = AsciiIn(Line') /\ cyril' = CyrilIn(Line')
  BY <1>1, <1>2 DEF IInv, Edits
<1>5. Fitting(Line') /\ Cut(Line', CursorPos')
  BY <1>2 DEF IInv, Edits
<1> QED BY <1>1, <1>3, <1>4, <1>5, EditKeeps

LEMMA ArrowLeftIs ==
    ASSUME IInv, ArrowLeft
    PROVE  \E bytes \in {1, 2} : \E from \in Nat :
               /\ from + bytes = CursorPos /\ Cut(Line, from)
               /\ bytes = 2 => IsCyrillicSymbol(current_input[from], current_input[from + 1])
               /\ left_offset' \in 0..cur_pos /\ cur_pos - left_offset' = from
               /\ Moved
<1> DEFINE c == CursorPos
           pair == c > 1 /\ IsCyrillicSymbol(current_input[c - 2], current_input[c - 1])
<1>1. /\ cur_pos \in Nat /\ left_offset \in 0..cur_pos /\ c \in 0..cur_pos
      /\ c = cur_pos - left_offset
  BY LineFacts DEF CursorPos
<1>2. c > 0
  BY <1>1 DEF ArrowLeft
<1>3. left_offset' = left_offset + (IF pair THEN 2 ELSE 1) /\ Moved
  BY DEF ArrowLeft
<1>4. CASE pair
  <2>1. Cut(Line, c - 2) /\ c > 1
    BY <1>2, <1>4, LetterBefore
  <2>2. /\ left_offset' \in 0..cur_pos /\ cur_pos - left_offset' = c - 2
        /\ c - 2 \in Nat /\ (c - 2) + 2 = c /\ (c - 2) + 1 = c - 1
    BY <1>1, <1>3, <1>4, <2>1
  <2>3. IsCyrillicSymbol(current_input[c - 2], current_input[(c - 2) + 1])
    BY <1>4, <2>2
  <2> HIDE DEF c
  <2> QED BY <1>3, <2>1, <2>2, <2>3 DEF c
<1>5. CASE ~pair
  <2>1. Cut(Line, c - 1)
    BY <1>2, <1>5, LetterBefore
  <2>2. /\ left_offset' \in 0..cur_pos /\ cur_pos - left_offset' = c - 1
        /\ c - 1 \in Nat /\ (c - 1) + 1 = c
    BY <1>1, <1>2, <1>3, <1>5
  <2> HIDE DEF c
  <2> QED BY <1>3, <2>1, <2>2 DEF c
<1> QED BY <1>4, <1>5

LEMMA ArrowLeftKeeps ==
    ASSUME IInv, ArrowLeft
    PROVE  IInv'
BY ArrowLeftIs, MoveKeeps

LEMMA ArrowRightIs ==
    ASSUME IInv, ArrowRight
    PROVE  \E bytes \in {1, 2} :
               /\ Cut(Line, CursorPos + bytes)
               /\ bytes = 2 => IsCyrillicSymbol(current_input[CursorPos],
                                               current_input[CursorPos + 1])
               /\ left_offset' \in 0..cur_pos /\ cur_pos - left_offset' = CursorPos + bytes
               /\ Moved
<1> DEFINE c == CursorPos
           pair == left_offset > 1 /\ IsCyrillicSymbol(current_input[c], current_input[c + 1])
<1>1. /\ cur_pos \in Nat /\ left_offset \in 0..cur_pos /\ c \in 0..cur_pos
      /\ c = cur_pos - left_offset
  BY LineFacts DEF CursorPos
<1>2. left_offset > 0
  BY DEF ArrowRight
<1>3. left_offset' = left_offset - (IF pair THEN 2 ELSE 1) /\ Moved
  BY DEF ArrowRight
<1>4. CASE pair
  <2>1. Cut(Line, c + 2)
    BY <1>2, <1>4, LetterBehind
  <2>2. left_offset' \in 0..cur_pos /\ cur_pos - left_offset' = c + 2
    BY <1>1, <1>3, <1>4
  <2> HIDE DEF c
  <2> QED BY <1>3, <1>4, <2>1, <2>2 DEF c
<1>5. CASE ~pair
  <2>1. Cut(Line, c + 1)
    BY <1>2, <1>5, LetterBehind
  <2>2. left_offset' \in 0..cur_pos /\ cur_pos - left_offset' = c + 1
    BY <1>1, <1>2, <1>3, <1>5
  <2> HIDE DEF c
  <2> QED BY <1>3, <2>1, <2>2 DEF c
<1> QED BY <1>4, <1>5

LEMMA ArrowRightKeeps ==
    ASSUME IInv, ArrowRight
    PROVE  IInv'
BY ArrowRightIs, MoveKeeps

LEMMA EmptyFits == Fitting(<<>>) /\ AsciiIn(<<>>) = 0 /\ CyrilIn(<<>>) = 0
<1>1. <<>> \in Seq(Written) /\ Len(<<>>) = 0 /\ Whole(<<>>)
  BY DEF Whole
<1>2. AsciiIn(<<>>) = 0
  <2>1. {i \in DOMAIN <<>> : <<>>[i] \in Latin} = {}
    OBVIOUS
  <2> QED BY <2>1, FS_EmptySet DEF AsciiIn
<1>3. CyrilIn(<<>>) = 0
  BY <1>1, <1>2 DEF CyrilIn
<1>4. MAX_STR_COUNT \in Nat
  BY InputAssumption
<1> QED BY <1>1, <1>2, <1>3, <1>4 DEF Fitting

\* A line that fits is put into the cleared buffer.
LEMMA ShownLine ==
    ASSUME NEW str, Fitting(str), Shown(str)
    PROVE  /\ current_input' \in [Positions -> Bytes] /\ cur_pos' \in Nat
           /\ left_offset' \in 0..cur_pos' /\ Line' = str
           /\ Fitting(Line') /\ Cut(Line', CursorPos')
           /\ ascii' = AsciiIn(Line') /\ cyril' = CyrilIn(Line')
<1>1. str \in Seq(Written) /\ Len(str) \in Nat /\ Len(str) <= 2 * MAX_STR_COUNT
  BY FittingShort DEF Fitting
<1>2. Positions = 0..(2 * MAX_STR_COUNT + 1) /\ MAX_STR_COUNT \in Nat
  BY InputAssumption DEF Positions, MAX_BUFFER_SIZE
<1>3. /\ current_input' = [i \in Positions |-> IF i < Len(str) THEN str[i + 1] ELSE NUL]
      /\ cur_pos' = Len(str) /\ left_offset' = 0
      /\ ascii' = AsciiIn(str) /\ cyril' = CyrilIn(str)
  BY DEF Shown
<1>4. current_input' \in [Positions -> Bytes]
  <2>1. ASSUME NEW i \in Positions
        PROVE  (IF i < Len(str) THEN str[i + 1] ELSE NUL) \in Bytes
    <3>1. CASE i < Len(str)
      <4>1. i + 1 \in 1..Len(str)
        BY <1>1, <1>2, <3>1
      <4> QED BY <1>1, <3>1, <4>1 DEF Bytes
    <3>2. CASE ~(i < Len(str))
      BY <3>2 DEF Bytes
    <3> QED BY <3>1, <3>2
  <2> QED BY <1>3, <2>1
<1>5. Line' = str
  <2>1. Line' = [i \in 1..Len(str) |-> current_input'[i - 1]]
    BY <1>3 DEF Line, String
  <2>2. ASSUME NEW i \in 1..Len(str)
        PROVE  current_input'[i - 1] = str[i]
    <3>1. i - 1 \in Positions /\ i - 1 < Len(str) /\ (i - 1) + 1 = i
      BY <1>1, <1>2
    <3> QED BY <1>3, <3>1
  <2>3. str = [i \in 1..Len(str) |-> str[i]]
    BY <1>1
  <2> QED BY <2>1, <2>2, <2>3
<1>6. CursorPos' = Len(str) /\ Cut(str, Len(str))
  BY <1>1, <1>3 DEF CursorPos, Cut
<1> QED BY <1>1, <1>3, <1>4, <1>5, <1>6

\* The lines that are kept change, and the line shown is one that fits.
LEMMA LineKeeps ==
    ASSUME IInv, UNCHANGED input_history, ih_iter' \in 1..(Len(input_history) + 1),
           save_buf' # Unwritten => Fitting(save_buf'),
           UNCHANGED line \/ \E str : Fitting(str) /\ Shown(str)
    PROVE  IInv'
<1>1. TypeOK' /\ Edits'
  <2>1. CASE UNCHANGED line
    <3>1. UNCHANGED <<current_input, cur_pos, left_offset, ascii, cyril>>
      BY <2>1 DEF line
    <3>2. UNCHANGED Line /\ UNCHANGED CursorPos
      BY <3>1 DEF Line, String, CursorPos
    <3>3. TypeOK'
      BY <3>1 DEF IInv, TypeOK
    <3>4. Edits'
      BY <3>1, <3>2 DEF IInv, Edits, Fitting, Whole, AsciiIn, CyrilIn, Cut
    <3> QED BY <3>3, <3>4
  <2>2. ASSUME NEW str, Fitting(str), Shown(str)
        PROVE  TypeOK' /\ Edits'
    <3>1. TypeOK'
      BY <2>2, ShownLine DEF IInv, TypeOK
    <3> QED BY <2>2, <3>1, ShownLine DEF Edits
  <2> QED BY <2>1, <2>2
<1>2. Kept'
  BY DEF IInv, Kept
<1> QED BY <1>1, <1>2 DEF IInv

LEMMA ArrowUpKeeps ==
    ASSUME IInv, ArrowUp
    PROVE  IInv'
<1>1. ih_iter \in 1..(Len(input_history) + 1) /\ Len(input_history) \in Nat
  BY DEF IInv, TypeOK
<1>2. save_buf' # Unwritten => Fitting(save_buf')
  BY DEF ArrowUp, IInv, Kept, Edits, Line
<1>3. CASE ih_iter # 1
  <2>1. ih_iter' = ih_iter - 1 /\ Shown(input_history[ih_iter - 1]) /\ UNCHANGED input_history
    BY <1>3 DEF ArrowUp
  <2>2. ih_iter - 1 \in 1..Len(input_history)
    BY <1>1, <1>3
  <2>3. Fitting(input_history[ih_iter - 1])
    BY <2>2 DEF IInv, TypeOK, Kept
  <2>4. ih_iter' \in 1..(Len(input_history) + 1)
    BY <1>1, <2>1, <2>2
  <2> QED BY <1>2, <2>1, <2>3, <2>4, LineKeeps
<1>4. CASE ih_iter = 1
  <2>1. UNCHANGED <<ih_iter, line>> /\ UNCHANGED input_history
    BY <1>4 DEF ArrowUp
  <2>2. ih_iter' \in 1..(Len(input_history) + 1)
    BY <1>1, <2>1
  <2> QED BY <1>2, <2>1, <2>2, LineKeeps
<1> QED BY <1>3, <1>4

LEMMA ArrowDownKeeps ==
    ASSUME IInv, ArrowDown
    PROVE  IInv'
<1>1. ih_iter \in 1..(Len(input_history) + 1) /\ Len(input_history) \in Nat
  BY DEF IInv, TypeOK
<1>2. /\ ih_iter' = IF ih_iter # Len(input_history) + 1 THEN ih_iter + 1 ELSE ih_iter
      /\ UNCHANGED <<input_history, save_buf>>
  BY DEF ArrowDown
<1>3. ih_iter' \in 1..(Len(input_history) + 1)
  BY <1>1, <1>2
<1>4. save_buf' # Unwritten => Fitting(save_buf')
  BY <1>2 DEF IInv, Kept
<1>5. UNCHANGED line \/ \E str : Fitting(str) /\ Shown(str)
  <2>1. CASE ih_iter' # Len(input_history) + 1
    <3>1. ih_iter' \in 1..Len(input_history)
      BY <1>1, <1>3, <2>1
    <3>2. Fitting(input_history[ih_iter'])
      BY <3>1 DEF IInv, TypeOK, Kept
    <3>3. Shown(input_history[ih_iter'])
      BY <2>1 DEF ArrowDown
    <3> QED BY <3>2, <3>3
  <2>2. CASE ~(ih_iter' # Len(input_history) + 1)
    <3>1. (Shown(save_buf) /\ save_buf # Unwritten) \/ UNCHANGED line
      BY <2>2 DEF ArrowDown
    <3> QED BY <3>1 DEF IInv, Kept
  <2> QED BY <2>1, <2>2
<1> QED BY <1>2, <1>3, <1>4, <1>5, LineKeeps

LEMMA NewLineKeeps ==
    ASSUME IInv, NewLine
    PROVE  IInv'
<1> DEFINE older == IF Len(input_history) >= MAX_HISTORY_SIZE THEN Tail(input_history)
                    ELSE input_history
<1>1. /\ input_history' = Append(older, Line) /\ ih_iter' = Len(input_history') + 1
      /\ current_input' = Clear /\ cur_pos' = 0 /\ left_offset' = 0 /\ ascii' = 0 /\ cyril' = 0
      /\ UNCHANGED save_buf
  BY DEF NewLine, Line
<1>2. Fitting(Line) /\ Line \in Seq(Written)
  BY DEF IInv, Edits, Fitting
<1>3. /\ input_history \in Seq(Seq(Written)) /\ Len(input_history) \in Nat
      /\ \A i \in 1..Len(input_history) : Fitting(input_history[i])
  BY DEF IInv, TypeOK, Kept
<1>4. older \in Seq(Seq(Written)) /\ \A i \in 1..Len(older) : Fitting(older[i])
  <2>1. CASE Len(input_history) >= MAX_HISTORY_SIZE
    <3>1. input_history # <<>>
      BY <2>1, <1>3, InputAssumption
    <3>2. /\ Tail(input_history) \in Seq(Seq(Written))
          /\ Len(Tail(input_history)) = Len(input_history) - 1
          /\ \A i \in 1..Len(Tail(input_history)) : Tail(input_history)[i] = input_history[i + 1]
      BY <1>3, <3>1, HeadTailProperties
    <3>3. \A i \in 1..Len(Tail(input_history)) : Fitting(Tail(input_history)[i])
      <4>1. ASSUME NEW i \in 1..Len(Tail(input_history))
            PROVE  i + 1 \in 1..Len(input_history)
        BY <1>3, <3>2
      <4> QED BY <1>3, <3>2, <4>1
    <3> QED BY <2>1, <3>2, <3>3
  <2>2. CASE ~(Len(input_history) >= MAX_HISTORY_SIZE)
    BY <1>3, <2>2
  <2> QED BY <2>1, <2>2
<1> HIDE DEF older
<1>5. /\ input_history' \in Seq(Seq(Written))
      /\ \A i \in DOMAIN input_history' : Fitting(input_history'[i])
  <2>1. /\ input_history' \in Seq(Seq(Written)) /\ Len(input_history') = Len(older) + 1
        /\ \A i \in 1..Len(older) : input_history'[i] = older[i]
        /\ input_history'[Len(older) + 1] = Line
    BY <1>1, <1>2, <1>4, AppendProperties
  <2>2. Len(older) \in Nat /\ DOMAIN input_history' = 1..(Len(older) + 1)
    BY <1>4, <2>1, LenProperties
  <2>3. ASSUME NEW i \in 1..(Len(older) + 1)
        PROVE  Fitting(input_history'[i])
    <3>1. CASE i = Len(older) + 1
      BY <1>2, <2>1, <3>1
    <3>2. CASE i # Len(older) + 1
      <4>1. i \in 1..Len(older)
        BY <2>2, <3>2
      <4> QED BY <1>4, <2>1, <4>1
    <3> QED BY <3>1, <3>2
  <2> QED BY <2>1, <2>2, <2>3
<1>6. current_input' \in [Positions -> Bytes]
  BY <1>1 DEF Clear, Bytes
<1>7. TypeOK'
  <2>1. Len(input_history') \in Nat
    BY <1>5
  <2> QED BY <1>1, <1>5, <1>6, <2>1 DEF TypeOK
<1>8. Line' = <<>>
  BY <1>1 DEF Line, String
<1>9. CursorPos' = 0 /\ Cut(<<>>, 0)
  BY <1>1 DEF CursorPos, Cut
<1>10. Edits'
  BY <1>1, <1>8, <1>9, EmptyFits DEF Edits
<1>11. Kept'
  BY <1>1, <1>5 DEF IInv, Kept
<1> QED BY <1>7, <1>10, <1>11 DEF IInv

-----------------------------------------------------------------------------
(* The theorems.                                                           *)

LEMMA InvInit == Init => IInv
<1> SUFFICES ASSUME Init
             PROVE  IInv
  OBVIOUS
<1>1. Line = <<>> /\ CursorPos = 0 /\ Cut(<<>>, 0)
  BY DEF Init, Line, String, CursorPos, Cut
<1>2. TypeOK
  BY DEF Init, TypeOK, Clear, Bytes
<1>3. Edits
  BY <1>1, EmptyFits DEF Init, Edits
<1>4. Kept
  BY DEF Init, Kept
<1> QED BY <1>2, <1>3, <1>4 DEF IInv

LEMMA InvNext == IInv /\ [Next]_vars => IInv'
<1> SUFFICES ASSUME IInv, [Next]_vars
             PROVE  IInv'
  OBVIOUS
<1>1. ASSUME NEW sym \in Reads, OneByte(sym)
      PROVE  IInv'
  <2>1. ASSUME sym[1] \in Latin, Alphabet(sym)
        PROVE  IInv'
    <3>1. Len(sym) = 1 /\ sym = [i \in 1..Len(sym) |-> sym[i]]
      BY <1>1, InputAssumption DEF OneByte
    <3>2. sym = [i \in 1..1 |-> sym[i]]
      BY <3>1
    <3>3. sym = <<sym[1]>>
      BY <3>2
    <3> QED BY <2>1, <3>3, AlphabetKeeps DEF Letter
  <2> QED BY <1>1, <2>1, NewLineKeeps, BackspaceKeeps, CtrlWKeeps DEF OneByte
<1>2. ASSUME NEW sym \in Reads, TwoBytes(sym)
      PROVE  IInv'
  <2>1. Len(sym) = 2 /\ sym = [i \in 1..Len(sym) |-> sym[i]]
    BY <1>2, InputAssumption DEF TwoBytes
  <2>2. sym = [i \in 1..2 |-> sym[i]]
    BY <2>1
  <2>3. sym = <<sym[1], sym[2]>>
    BY <2>2
  <2>4. <<sym[1], sym[2]>> \in Cyrillic /\ Alphabet(sym)
    BY <1>2 DEF TwoBytes, IsCyrillicSymbol
  <2> QED BY <2>3, <2>4, AlphabetKeeps DEF Letter
<1>3. ASSUME NEW sym \in Reads, ThreeBytes(sym)
      PROVE  IInv'
  BY <1>3, ArrowLeftKeeps, ArrowRightKeeps, ArrowUpKeeps, ArrowDownKeeps DEF ThreeBytes
<1>4. ASSUME NEW sym \in Reads, FourBytes(sym)
      PROVE  IInv'
  BY <1>4, DelKeeps DEF FourBytes
<1>5. CASE UNCHANGED vars
  <2>1. UNCHANGED line /\ UNCHANGED <<input_history, ih_iter, save_buf>>
    BY <1>5 DEF vars, line
  <2> QED BY <2>1, LineKeeps DEF IInv, TypeOK, Kept
<1> QED BY <1>1, <1>2, <1>3, <1>4, <1>5 DEF Next, Readline

\* The two counters are the letters of the line, which is never longer than the
\* buffer, and the lines that are kept fit into it as well.
THEOREM InputInvariance == Spec => []IInv
BY InvInit, InvNext, PTL DEF Spec

\* Whatever is typed, and with whichever letters of two bytes: no line has half a
\* letter and the cursor is never inside one.
THEOREM LettersStayWhole == Spec => []NoHalfLetters
<1>1. ASSUME IInv
      PROVE  NoHalfLetters
  <2>1. /\ CursorPos \in 0..cur_pos /\ cur_pos \in Nat /\ Len(Line) = cur_pos
        /\ Whole(Line) /\ Cut(Line, CursorPos)
        /\ \A i \in 0..(cur_pos - 1) : Line[i + 1] = current_input[i]
    BY <1>1, LineFacts
  <2>2. ASSUME 0 < CursorPos, CursorPos < cur_pos
        PROVE  current_input[CursorPos] \notin Trail
    <3>1. CursorPos \in 0..(cur_pos - 1)
      BY <2>1, <2>2
    <3>2. Line[CursorPos + 1] = current_input[CursorPos]
      BY <2>1, <3>1
    <3> QED BY <2>1, <2>2, <3>2 DEF Cut
  <2>3. /\ \A i \in DOMAIN input_history : Whole(input_history[i])
        /\ save_buf # Unwritten => Whole(save_buf)
    BY <1>1 DEF IInv, Kept, Fitting
  <2> QED BY <2>1, <2>2, <2>3 DEF NoHalfLetters
<1> QED BY <1>1, InputInvariance, PTL

-----------------------------------------------------------------------------
(* Letters.  NatInduction takes an operator as a parameter; the least      *)
(* element of a set of numbers says the same of sets.                      *)

LEMMA Least ==
    ASSUME NEW T \in SUBSET Nat, T # {}
    PROVE  \E x \in T : \A y \in T : x <= y
<1>1. PICK x \in T : \A y \in T : ~(<<y, x>> \in OpToRel(<, Nat))
  BY NatLessThanWellFounded, WFMin, Zenon
<1>2. \A y \in T : ~(y < x)
  BY <1>1 DEF OpToRel
<1> QED BY <1>2

LEMMA Upwards ==
    ASSUME NEW n \in Nat, NEW T, 0 \in T, \A p \in 1..n : p - 1 \in T => p \in T
    PROVE  \A p \in 0..n : p \in T
<1> DEFINE others == {p \in 0..n : p \notin T}
<1> SUFFICES ASSUME others # {}
             PROVE  FALSE
  OBVIOUS
<1>1. PICK x \in others : \A y \in others : x <= y
  <2>1. others \in SUBSET Nat
    OBVIOUS
  <2> HIDE DEF others
  <2> QED BY <2>1, Least
<1>2. x # 0 /\ x - 1 \in 0..n /\ x \in 1..n
  OBVIOUS
<1>3. x - 1 \in T
  BY <1>1, <1>2
<1> QED BY <1>2, <1>3

\* What LettersOf makes of the first n bytes, from what it makes of fewer.
Parsed(str, h, n) ==
    IF n = 0 THEN <<>>
    ELSE IF n > 1 /\ str[n] \in Trail THEN Append(h[n - 2], <<str[n - 1], str[n]>>)
    ELSE Append(h[n - 1], <<str[n]>>)

Parse(str) == CHOOSE h : h = [n \in 0..Len(str) |-> Parsed(str, h, n)]

LEMMA LettersAreParsed ==
    ASSUME NEW str
    PROVE  LettersOf(str) = Parse(str)[Len(str)]
BY DEF LettersOf, Parse, Parsed

LEMMA ParseIs ==
    ASSUME NEW S, NEW str \in Seq(S), NEW n \in 0..Len(str)
    PROVE  Parse(str)[n] = Parsed(str, Parse(str), n)
<1> DEFINE N == Len(str)
           Form(h) == h = [k \in 0..N |-> Parsed(str, h, k)]
           Upto(h, k) == /\ h = [i \in 0..k |-> h[i]]
                         /\ \A i \in 0..k : h[i] = Parsed(str, h, i)
           T == {k \in 0..N : \E h : Upto(h, k)}
<1>1. N \in Nat
  OBVIOUS
<1>2. 0 \in T
  <2> DEFINE h == [i \in 0..0 |-> <<>>]
  <2>1. h = [i \in 0..0 |-> h[i]] /\ \A i \in 0..0 : h[i] = <<>> /\ i = 0
    OBVIOUS
  <2> HIDE DEF h
  <2>2. Upto(h, 0)
    BY <2>1 DEF Parsed
  <2> HIDE DEF Upto
  <2> QED BY <1>1, <2>2
<1>3. ASSUME NEW k \in 1..N, k - 1 \in T
      PROVE  k \in T
  <2>1. PICK h : Upto(h, k - 1)
    BY <1>3
  <2> DEFINE f == [i \in 0..k |-> IF i = k THEN Parsed(str, h, k) ELSE h[i]]
  <2>2. /\ f = [i \in 0..k |-> f[i]] /\ f[k] = Parsed(str, h, k)
        /\ \A i \in 0..(k - 1) : f[i] = h[i] /\ h[i] = Parsed(str, h, i)
    BY <1>1, <2>1
  <2> HIDE DEF f
  <2>3. ASSUME NEW i \in 0..k
        PROVE  Parsed(str, h, i) = Parsed(str, f, i)
    <3>1. i # 0 => i - 1 \in 0..(k - 1) /\ (i > 1 => i - 2 \in 0..(k - 1))
      BY <1>1
    <3>2. i # 0 => f[i - 1] = h[i - 1] /\ (i > 1 => f[i - 2] = h[i - 2])
      BY <2>2, <3>1
    <3> QED BY <3>2 DEF Parsed
  <2>4. ASSUME NEW i \in 0..k
        PROVE  f[i] = Parsed(str, f, i)
    <3>1. CASE i = k
      BY <2>2, <2>3, <3>1
    <3>2. CASE i # k
      <4>1. i \in 0..(k - 1)
        BY <1>1, <3>2
      <4> QED BY <2>2, <2>3, <4>1
    <3> QED BY <3>1, <3>2
  <2>5. Upto(f, k)
    BY <2>2, <2>4
  <2> HIDE DEF Upto
  <2> QED BY <1>1, <2>5
<1>4. \A k \in 0..N : k \in T
  <2> HIDE DEF T, N
  <2> QED BY <1>1, <1>2, <1>3, Upwards
<1>5. PICK h : Upto(h, N)
  BY <1>1, <1>4
<1>6. Form(h)
  BY <1>5, Zenon
<1>7. Form(Parse(str))
  <2>1. Form(CHOOSE g : Form(g))
    <3> HIDE DEF Form
    <3> QED BY <1>6
  <2> QED BY <2>1 DEF Parse
<1> QED BY <1>7, Zenon

\* The bytes before make the letters before.
LEMMA ParseOfPart ==
    ASSUME NEW S, NEW s \in Seq(S), NEW u \in Seq(S), Len(s) <= Len(u),
           \A i \in 1..Len(s) : u[i] = s[i]
    PROVE  \A n \in 0..Len(s) : Parse(u)[n] = Parse(s)[n]
<1> DEFINE N == Len(s)
           T == {k \in 0..N : \A n \in 0..k : Parse(u)[n] = Parse(s)[n]}
<1>1. N \in Nat /\ N <= Len(u) /\ Len(u) \in Nat
  OBVIOUS
<1>2. ASSUME NEW n \in 0..N
      PROVE  /\ Parse(u)[n] = Parsed(u, Parse(u), n)
             /\ Parse(s)[n] = Parsed(s, Parse(s), n)
  BY <1>1, ParseIs
<1>3. 0 \in T
  <2>1. Parse(u)[0] = Parse(s)[0]
    <3>1. 0 \in 0..N
      BY <1>1
    <3>2. Parsed(u, Parse(u), 0) = <<>> /\ Parsed(s, Parse(s), 0) = <<>>
      BY DEF Parsed
    <3> QED BY <1>2, <3>1, <3>2, Zenon
  <2> QED BY <1>1, <2>1
<1>4. ASSUME NEW k \in 1..N, k - 1 \in T
      PROVE  k \in T
  <2>1. \A n \in 0..(k - 1) : Parse(u)[n] = Parse(s)[n]
    BY <1>4
  <2>2. Parsed(u, Parse(u), k) = Parsed(s, Parse(s), k)
    <3>1. k - 1 \in 0..(k - 1) /\ (k > 1 => k - 2 \in 0..(k - 1) /\ k - 1 \in 1..N)
      BY <1>1
    <3>2. u[k] = s[k] /\ (k > 1 => u[k - 1] = s[k - 1])
      BY <3>1
    <3> QED BY <2>1, <3>1, <3>2 DEF Parsed
  <2>3. Parse(u)[k] = Parse(s)[k]
    BY <1>2, <2>2
  <2>4. ASSUME NEW n \in 0..k
        PROVE  Parse(u)[n] = Parse(s)[n]
    <3>1. n = k \/ n \in 0..(k - 1)
      BY <1>1
    <3> QED BY <2>1, <2>3, <3>1
  <2> QED BY <1>1, <2>4
<1>5. \A k \in 0..N : k \in T
  <2> HIDE DEF T, N
  <2> QED BY <1>1, <1>3, <1>4, Upwards
<1> QED BY <1>1, <1>5

\* One more byte at the end is a letter, or makes one with the byte before it.
LEMMA OneMoreByte ==
    ASSUME NEW S, NEW s \in Seq(S), NEW b \in S, b \notin Trail
    PROVE  LettersOf(s \o <<b>>) = Append(LettersOf(s), <<b>>)
<1> DEFINE u == s \o <<b>>
           N == Len(s)
<1>1. /\ u \in Seq(S) /\ Len(u) = N + 1 /\ N \in Nat /\ u[N + 1] = b
      /\ \A i \in 1..N : u[i] = s[i]
  OBVIOUS
<1> HIDE DEF u
<1>2. Parse(u)[N] = Parse(s)[N]
  <2>1. N <= Len(u) /\ N \in 0..N
    BY <1>1
  <2> QED BY <1>1, <2>1, ParseOfPart
<1>3. Parse(u)[N + 1] = Parsed(u, Parse(u), N + 1)
  <2>1. N + 1 \in 0..Len(u)
    BY <1>1
  <2> QED BY <1>1, <2>1, ParseIs
<1>4. Parsed(u, Parse(u), N + 1) = Append(Parse(u)[N], <<b>>)
  <2>1. N + 1 # 0 /\ (N + 1) - 1 = N /\ u[N + 1] \notin Trail
    BY <1>1
  <2> QED BY <1>1, <2>1 DEF Parsed
<1>5. LettersOf(u) = Parse(u)[N + 1] /\ LettersOf(s) = Parse(s)[N]
  BY <1>1, LettersAreParsed
<1> QED BY <1>2, <1>3, <1>4, <1>5 DEF u

LEMMA TwoMoreBytes ==
    ASSUME NEW S, NEW s \in Seq(S), NEW a \in S, NEW b \in S, b \in Trail
    PROVE  LettersOf(s \o <<a, b>>) = Append(LettersOf(s), <<a, b>>)
<1> DEFINE u == s \o <<a, b>>
           N == Len(s)
<1>1. /\ u \in Seq(S) /\ Len(u) = N + 2 /\ N \in Nat /\ u[N + 1] = a /\ u[N + 2] = b
      /\ \A i \in 1..N : u[i] = s[i]
  OBVIOUS
<1> HIDE DEF u
<1>2. Parse(u)[N] = Parse(s)[N]
  <2>1. N <= Len(u) /\ N \in 0..N
    BY <1>1
  <2> QED BY <1>1, <2>1, ParseOfPart
<1>3. Parse(u)[N + 2] = Parsed(u, Parse(u), N + 2)
  <2>1. N + 2 \in 0..Len(u)
    BY <1>1
  <2> QED BY <1>1, <2>1, ParseIs
<1>4. Parsed(u, Parse(u), N + 2) = Append(Parse(u)[N], <<a, b>>)
  <2>1. N + 2 # 0 /\ N + 2 > 1 /\ (N + 2) - 2 = N /\ (N + 2) - 1 = N + 1 /\ u[N + 2] \in Trail
    BY <1>1
  <2> QED BY <1>1, <2>1 DEF Parsed
<1>5. LettersOf(u) = Parse(u)[N + 2] /\ LettersOf(s) = Parse(s)[N]
  BY <1>1, LettersAreParsed
<1> QED BY <1>2, <1>3, <1>4, <1>5 DEF u

LEMMA NoLetters == LettersOf(<<>>) = <<>>
<1>1. <<>> \in Seq({}) /\ Len(<<>>) = 0 /\ 0 \in 0..Len(<<>>)
  OBVIOUS
<1>2. Parse(<<>>)[0] = Parsed(<<>>, Parse(<<>>), 0)
  BY <1>1, ParseIs
<1>3. Parsed(<<>>, Parse(<<>>), 0) = <<>>
  BY DEF Parsed
<1> QED BY <1>1, <1>2, <1>3, LettersAreParsed

LEMMA OneMoreLetter ==
    ASSUME NEW s \in Seq(Written), NEW sym, Letter(sym)
    PROVE  LettersOf(s \o sym) = Append(LettersOf(s), sym)
<1>1. CASE sym = <<sym[1]>> /\ sym[1] \in Latin
  <2> DEFINE b == sym[1]
  <2>1. b \in Written /\ b \notin Trail /\ sym = <<b>>
    BY <1>1, InputAssumption DEF Written
  <2> HIDE DEF b
  <2>2. LettersOf(s \o <<b>>) = Append(LettersOf(s), <<b>>)
    BY <2>1, OneMoreByte
  <2> QED BY <2>1, <2>2
<1>2. CASE sym = <<sym[1], sym[2]>> /\ <<sym[1], sym[2]>> \in Cyrillic
  <2> DEFINE a == sym[1]
             b == sym[2]
  <2>1. a \in Written /\ b \in Written /\ b \in Trail /\ sym = <<a, b>>
    BY <1>2, InputAssumption DEF Written
  <2> HIDE DEF a, b
  <2>2. LettersOf(s \o <<a, b>>) = Append(LettersOf(s), <<a, b>>)
    BY <2>1, TwoMoreBytes
  <2> QED BY <2>1, <2>2
<1> QED BY <1>1, <1>2 DEF Letter

AllLetters == {<<b>> : b \in Latin} \cup Cyrillic

LEMMA LetterIs == \A sym : Letter(sym) <=> sym \in AllLetters
<1>1. ASSUME NEW sym, sym \in Cyrillic
      PROVE  Letter(sym)
  <2>1. sym = <<sym[1], sym[2]>>
    BY <1>1, InputAssumption
  <2> QED BY <1>1, <2>1 DEF Letter
<1>2. ASSUME NEW b \in Latin
      PROVE  Letter(<<b>>)
  <2>1. <<b>> = <<(<<b>>)[1]>> /\ (<<b>>)[1] = b
    OBVIOUS
  <2> QED BY <2>1 DEF Letter
<1>3. ASSUME NEW sym, Letter(sym)
      PROVE  sym \in AllLetters
  <2>1. CASE sym = <<sym[1]>> /\ sym[1] \in Latin
    BY <2>1, Zenon DEF AllLetters
  <2>2. CASE sym = <<sym[1], sym[2]>> /\ <<sym[1], sym[2]>> \in Cyrillic
    <3>1. sym \in Cyrillic
      BY <2>2, Zenon
    <3> QED BY <3>1 DEF AllLetters
  <2> QED BY <1>3, <2>1, <2>2 DEF Letter
<1> QED BY <1>1, <1>2, <1>3 DEF AllLetters

\* The last letter of a whole string.
LEMMA LastLetter ==
    ASSUME NEW str \in Seq(Written), Whole(str), str # <<>>
    PROVE  \E s \in Seq(Written), sym \in AllLetters :
               Whole(s) /\ str = s \o sym /\ Len(s) < Len(str)
<1> DEFINE N == Len(str)
<1>1. N \in Nat /\ N > 0 /\ DOMAIN str = 1..N /\ N \in 1..N /\ \A i \in 1..N : str[i] \in Written
  <2>1. N \in Nat /\ DOMAIN str = 1..N /\ N # 0
    BY EmptySeq, LenProperties
  <2> QED BY <2>1
<1>2. \A i \in 1..N :
          /\ str[i] \in Lead => i < N /\ <<str[i], str[i + 1]>> \in Cyrillic
          /\ str[i] \in Trail => i > 1 /\ str[i - 1] \in Lead
  BY <1>1 DEF Whole
<1>3. ASSUME NEW k \in {1, 2}, NEW n \in 0..(N - 1), n + k = N, Cut(str, n),
             \A t \in Seq(Written) :
                 Len(t) = k /\ (\A i \in 1..k : t[i] = str[n + i]) => Letter(t)
      PROVE  \E s \in Seq(Written), sym \in AllLetters :
                 Whole(s) /\ str = s \o sym /\ Len(s) < Len(str)
  <2>1. n \in 0..Len(str)
    BY <1>1
  <2> DEFINE s == SubSeq(str, 1, n)
             sym == SubSeq(str, n + 1, Len(str))
  <2>2. /\ s \in Seq(Written) /\ Len(s) = n /\ str = s \o sym
        /\ sym \in Seq(Written) /\ Len(sym) = k /\ \A i \in 1..k : sym[i] = str[n + i]
    <3>1. n + k = N
      BY <1>3, Zenon
    <3>2. N - n = k
      BY <3>1
    <3> QED BY <2>1, <3>2, PartsOf
  <2>3. Whole(s)
    BY <1>3, WholeCut
  <2> HIDE DEF s, sym
  <2>4. Letter(sym)
    BY <1>3, <2>2
  <2>5. Len(s) < Len(str)
    BY <1>1, <2>2
  <2> QED BY <2>2, <2>3, <2>4, <2>5, LetterIs
<1> HIDE DEF N
<1>4. CASE str[N] \in Trail
  <2>1. N > 1 /\ str[N - 1] \in Lead
    BY <1>1, <1>2, <1>4
  <2>2. N - 1 \in 1..N /\ (N - 1) + 1 = N /\ N - 2 \in 0..(N - 1) /\ (N - 2) + 1 = N - 1
        /\ (N - 2) + 2 = N /\ N - 2 \in 0..N
    BY <1>1, <2>1
  <2>3. <<str[N - 1], str[N]>> \in Cyrillic
    <3>1. <<str[N - 1], str[(N - 1) + 1]>> \in Cyrillic
      BY <1>2, <2>1, <2>2
    <3> QED BY <2>2, <3>1
  <2>4. Cut(str, N - 2)
    <3>1. str[N - 1] \notin Trail
      BY <2>1, InputAssumption
    <3> QED BY <2>2, <3>1 DEF Cut, N
  <2>5. ASSUME NEW t \in Seq(Written), Len(t) = 2, t[1] = str[N - 1], t[2] = str[N]
        PROVE  Letter(t)
    <3>1. t = <<t[1], t[2]>>
      BY <2>5
    <3> QED BY <2>3, <2>5, <3>1 DEF Letter
  <2>6. ASSUME NEW t \in Seq(Written), Len(t) = 2, \A i \in 1..2 : t[i] = str[(N - 2) + i]
        PROVE  Letter(t)
    <3>1. t[1] = str[(N - 2) + 1] /\ t[2] = str[(N - 2) + 2]
      BY <2>2, <2>6
    <3> QED BY <2>2, <2>5, <2>6, <3>1
  <2> QED BY <1>3, <2>2, <2>4, <2>6
<1>5. CASE str[N] \notin Trail
  <2>1. str[N] \in Latin
    <3>1. ~(N < N) /\ N \in 1..N
      BY <1>1
    <3>2. str[N] \notin Lead
      BY <1>2, <3>1, Zenon
    <3> QED BY <1>1, <1>5, <3>2 DEF Written
  <2>2. N - 1 \in 0..(N - 1) /\ (N - 1) + 1 = N /\ N - 1 \in 0..N
    BY <1>1
  <2>3. Cut(str, N - 1)
    BY <1>5, <2>2 DEF Cut, N
  <2>4. ASSUME NEW t \in Seq(Written), Len(t) = 1, \A i \in 1..1 : t[i] = str[(N - 1) + i]
        PROVE  Letter(t)
    <3>1. Len(t) = 1 /\ t[1] = str[N]
      BY <2>2, <2>4
    <3>2. t = <<t[1]>>
      BY <3>1
    <3> QED BY <2>1, <3>1, <3>2 DEF Letter
  <2> QED BY <1>3, <2>2, <2>3, <2>4
<1> QED BY <1>4, <1>5

\* What holds of the empty string and goes on with every letter holds of all.
LEMMA ByLetters ==
    ASSUME NEW T, <<>> \in T,
           \A s \in Seq(Written), sym \in AllLetters :
               s \in T /\ Whole(s) => s \o sym \in T,
           NEW str \in Seq(Written), Whole(str)
    PROVE  str \in T
<1> DEFINE N == Len(str)
           U == {k \in 0..N : \A s \in Seq(Written) : Whole(s) /\ Len(s) <= k => s \in T}
<1>1. N \in Nat
  OBVIOUS
<1>2. 0 \in U
  <2>1. ASSUME NEW s \in Seq(Written), Len(s) <= 0
        PROVE  s = <<>>
    BY <2>1, EmptySeq, LenProperties
  <2> QED BY <1>1, <2>1
<1>3. ASSUME NEW k \in 1..N, k - 1 \in U
      PROVE  k \in U
  <2>1. \A s \in Seq(Written) : Whole(s) /\ Len(s) <= k - 1 => s \in T
    BY <1>3
  <2>2. ASSUME NEW s \in Seq(Written), Whole(s), Len(s) <= k
        PROVE  s \in T
    <3>1. CASE s = <<>>
      BY <3>1
    <3>2. CASE s # <<>>
      <4>1. PICK q \in Seq(Written), sym \in AllLetters :
                Whole(q) /\ s = q \o sym /\ Len(q) < Len(s)
        BY <2>2, <3>2, LastLetter
      <4>2. Len(q) <= k - 1
        <5>1. Len(q) \in Nat /\ Len(s) \in Nat
          OBVIOUS
        <5> QED BY <1>1, <2>2, <4>1, <5>1
      <4> QED BY <2>1, <4>1, <4>2
    <3> QED BY <3>1, <3>2
  <2> QED BY <1>1, <2>2
<1>4. \A k \in 0..N : k \in U
  <2> HIDE DEF U, N
  <2> QED BY <1>1, <1>2, <1>3, Upwards
<1>5. N \in U
  BY <1>1, <1>4
<1> QED BY <1>1, <1>5

LEMMA JoinOneMore ==
    ASSUME NEW T, NEW s \in Seq(T), NEW t \in Seq(T), NEW u \in Seq(T)
    PROVE  s \o (t \o u) = (s \o t) \o u
BY ConcatAssociative

LEMMA OneMoreIsWhole ==
    ASSUME NEW s \in Seq(Written), Whole(s), NEW sym \in AllLetters
    PROVE  /\ Letter(sym) /\ sym \in Seq(Written) /\ Whole(sym)
           /\ s \o sym \in Seq(Written) /\ Whole(s \o sym)
           /\ LettersOf(s \o sym) = Append(LettersOf(s), sym)
<1>1. Letter(sym) /\ sym \in Seq(Written) /\ Whole(sym)
  BY LetterIs, OneLetter
<1> QED BY <1>1, WholeJoin, OneMoreLetter

\* There are as many letters as the counters say.
LEMMA LettersAreCounted ==
    ASSUME NEW str \in Seq(Written), Whole(str)
    PROVE  /\ LettersOf(str) \in Seq(AllLetters)
           /\ Len(LettersOf(str)) = AsciiIn(str) + CyrilIn(str)
<1> DEFINE Good(s) == /\ LettersOf(s) \in Seq(AllLetters)
                      /\ Len(LettersOf(s)) = AsciiIn(s) + CyrilIn(s)
           T == {s \in Seq(Written) : Good(s)}
<1>1. <<>> \in T
  <2>1. <<>> \in Seq(Written) /\ AsciiIn(<<>>) = 0 /\ CyrilIn(<<>>) = 0
    BY EmptyFits DEF Fitting
  <2>2. <<>> \in Seq(AllLetters) /\ Len(<<>>) = 0
    OBVIOUS
  <2>3. LettersOf(<<>>) \in Seq(AllLetters) /\ Len(LettersOf(<<>>)) = 0
    BY <2>2, NoLetters, Zenon
  <2>4. AsciiIn(<<>>) + CyrilIn(<<>>) = 0
    BY <2>1
  <2> QED BY <2>1, <2>3, <2>4, Zenon
<1>2. ASSUME NEW s \in Seq(Written), NEW sym \in AllLetters, s \in T, Whole(s)
      PROVE  s \o sym \in T
  <2>1. /\ Letter(sym) /\ sym \in Seq(Written) /\ Whole(sym)
        /\ s \o sym \in Seq(Written)
        /\ LettersOf(s \o sym) = Append(LettersOf(s), sym)
    BY <1>2, OneMoreIsWhole
  <2>2. Good(s)
    BY <1>2
  <2>3. /\ Append(LettersOf(s), sym) \in Seq(AllLetters)
        /\ Len(Append(LettersOf(s), sym)) = Len(LettersOf(s)) + 1
    BY <2>2, AppendProperties
  <2>4. /\ AsciiIn(s \o sym) = AsciiIn(s) + AsciiIn(sym)
        /\ CyrilIn(s \o sym) = CyrilIn(s) + CyrilIn(sym)
    BY <1>2, <2>1, LettersJoin
  <2>5. AsciiIn(s) \in Nat /\ CyrilIn(s) \in Nat
    BY <1>2, LettersMakeBytes
  <2>6. \/ AsciiIn(sym) = 1 /\ CyrilIn(sym) = 0
        \/ AsciiIn(sym) = 0 /\ CyrilIn(sym) = 1
    BY <2>1, OneLetter
  <2>7. AsciiIn(s \o sym) + CyrilIn(s \o sym) = (AsciiIn(s) + CyrilIn(s)) + 1
    BY <2>4, <2>5, <2>6
  <2> QED BY <2>1, <2>2, <2>3, <2>7
<1> HIDE DEF T
<1>3. str \in T
  BY <1>1, <1>2, ByLetters
<1> QED BY <1>3 DEF T

LEMMA LettersOfJoined ==
    ASSUME NEW s \in Seq(Written), Whole(s), NEW t \in Seq(Written), Whole(t)
    PROVE  LettersOf(s \o t) = LettersOf(s) \o LettersOf(t)
<1> DEFINE T == {x \in Seq(Written) : LettersOf(s \o x) = LettersOf(s) \o LettersOf(x)}
<1>1. LettersOf(s) \in Seq(AllLetters)
  BY LettersAreCounted
<1>2. <<>> \in T
  <2>1. s \o <<>> = s /\ LettersOf(s) \o <<>> = LettersOf(s)
    BY <1>1, ConcatEmptySeq
  <2>2. LettersOf(s \o <<>>) = LettersOf(s) \o LettersOf(<<>>)
    BY <2>1, NoLetters, Zenon
  <2>3. <<>> \in Seq(Written)
    OBVIOUS
  <2> QED BY <2>2, <2>3, Zenon
<1>3. ASSUME NEW x \in Seq(Written), NEW sym \in AllLetters, x \in T, Whole(x)
      PROVE  x \o sym \in T
  <2>1. /\ sym \in Seq(Written) /\ x \o sym \in Seq(Written)
        /\ LettersOf(x \o sym) = Append(LettersOf(x), sym)
    BY <1>3, OneMoreIsWhole
  <2>2. s \o (x \o sym) = (s \o x) \o sym
    BY <2>1, JoinOneMore
  <2>3. s \o x \in Seq(Written) /\ Whole(s \o x)
    BY <1>3, WholeJoin
  <2>4. LettersOf((s \o x) \o sym) = Append(LettersOf(s \o x), sym)
    BY <2>3, OneMoreIsWhole
  <2>5. LettersOf(s \o x) = LettersOf(s) \o LettersOf(x)
    BY <1>3
  <2>6. LettersOf(x) \in Seq(AllLetters)
    BY <1>3, LettersAreCounted
  <2>7. Append(LettersOf(s) \o LettersOf(x), sym) = LettersOf(s) \o Append(LettersOf(x), sym)
    <3> DEFINE a == LettersOf(s)
               b == LettersOf(x)
    <3>1. a \in Seq(AllLetters) /\ b \in Seq(AllLetters)
      BY <1>1, <2>6
    <3> HIDE DEF a, b
    <3>2. <<sym>> \in Seq(AllLetters) /\ a \o b \in Seq(AllLetters)
      BY <3>1
    <3>3. /\ Append(a \o b, sym) = (a \o b) \o <<sym>>
          /\ Append(b, sym) = b \o <<sym>>
      BY <3>1, <3>2, AppendIsConcat
    <3>4. (a \o b) \o <<sym>> = a \o (b \o <<sym>>)
      BY <3>1, <3>2, ConcatAssociative
    <3> QED BY <3>3, <3>4 DEF a, b
  <2> QED BY <2>1, <2>2, <2>4, <2>5, <2>7
<1> HIDE DEF T
<1>4. t \in T
  BY <1>2, <1>3, ByLetters
<1> QED BY <1>4 DEF T

\* Spaces are the letters of spaces, other bytes make other letters.
LEMMA BlankLetters ==
    ASSUME NEW str \in Seq(Written), Whole(str)
    PROVE  /\ (\A i \in 1..Len(str) : str[i] = Blank) =>
                  \A i \in 1..Len(LettersOf(str)) : LettersOf(str)[i] = <<Blank>>
           /\ (\A i \in 1..Len(str) : str[i] # Blank) =>
                  \A i \in 1..Len(LettersOf(str)) : LettersOf(str)[i] # <<Blank>>
           /\ str # <<>> =>
                  /\ LettersOf(str) # <<>>
                  /\ (LettersOf(str)[Len(LettersOf(str))] = <<Blank>>) = (str[Len(str)] = Blank)
<1> DEFINE AllBlank(s) == (\A i \in 1..Len(s) : s[i] = Blank) =>
                              \A i \in 1..Len(LettersOf(s)) : LettersOf(s)[i] = <<Blank>>
           NoneBlank(s) == (\A i \in 1..Len(s) : s[i] # Blank) =>
                              \A i \in 1..Len(LettersOf(s)) : LettersOf(s)[i] # <<Blank>>
           LastBlank(s) == s # <<>> =>
                  /\ LettersOf(s) # <<>>
                  /\ (LettersOf(s)[Len(LettersOf(s))] = <<Blank>>) = (s[Len(s)] = Blank)
           T == {s \in Seq(Written) : AllBlank(s) /\ NoneBlank(s) /\ LastBlank(s)}
<1>1. <<>> \in T
  BY NoLetters
<1>2. ASSUME NEW s \in Seq(Written), NEW sym \in AllLetters, s \in T, Whole(s)
      PROVE  s \o sym \in T
  <2> DEFINE u == s \o sym
             n == Len(s)
             k == Len(sym)
             l == LettersOf(s)
             m == Len(l)
             v == LettersOf(u)
  <2>1. Letter(sym) /\ sym \in Seq(Written) /\ u \in Seq(Written) /\ v = Append(l, sym)
    BY <1>2, OneMoreIsWhole
  <2>2. l \in Seq(AllLetters)
    BY <1>2, LettersAreCounted
  <2>3. /\ n \in Nat /\ k \in {1, 2} /\ Len(u) = n + k /\ m \in Nat /\ Len(v) = m + 1
        /\ \A i \in 1..n : u[i] = s[i]
        /\ \A i \in 1..k : u[n + i] = sym[i]
        /\ \A i \in 1..m : v[i] = l[i]
        /\ v[m + 1] = sym
    BY <2>1, <2>2, OneLetter, JoinFacts, AppendProperties, LenProperties
  <2>4. /\ sym[1] = Blank <=> sym = <<Blank>>
        /\ sym[k] = Blank <=> sym = <<Blank>>
    <3>1. CASE sym = <<sym[1]>> /\ sym[1] \in Latin
      <4>1. k = 1
        BY <3>1
      <4> QED BY <3>1, <4>1
    <3>2. CASE sym = <<sym[1], sym[2]>> /\ <<sym[1], sym[2]>> \in Cyrillic
      <4> DEFINE a == sym[1]
                 b == sym[2]
      <4>1. a \in Lead /\ b \in Trail /\ sym = <<a, b>> /\ a # Blank /\ b # Blank
        BY <3>2, InputAssumption
      <4>2. Len(<<a, b>>) = 2 /\ <<a, b>> # <<Blank>>
        OBVIOUS
      <4> QED BY <4>1, <4>2
    <3> QED BY <2>1, <3>1, <3>2 DEF Letter
  <2> HIDE DEF u, n, k, l, m, v
  <2>5. /\ AllBlank(s) = ((\A i \in 1..n : s[i] = Blank) => \A i \in 1..m : l[i] = <<Blank>>)
        /\ NoneBlank(s) = ((\A i \in 1..n : s[i] # Blank) => \A i \in 1..m : l[i] # <<Blank>>)
    BY DEF n, m, l
  <2>6. AllBlank(s) /\ NoneBlank(s)
    BY <1>2
  <2>7. ASSUME \A i \in 1..(n + k) : u[i] = Blank, NEW j \in 1..(m + 1)
        PROVE  v[j] = <<Blank>>
    <3>1. \A i \in 1..n : s[i] = Blank
      BY <2>3, <2>7
    <3>2. sym[1] = Blank
      BY <2>3, <2>7
    <3>3. j = m + 1 \/ j \in 1..m
      BY <2>3
    <3> QED BY <2>3, <2>4, <2>5, <2>6, <3>1, <3>2, <3>3
  <2>8. ASSUME \A i \in 1..(n + k) : u[i] # Blank, NEW j \in 1..(m + 1)
        PROVE  v[j] # <<Blank>>
    <3>1. \A i \in 1..n : s[i] # Blank
      BY <2>3, <2>8
    <3>2. sym[1] # Blank
      BY <2>3, <2>8
    <3>3. j = m + 1 \/ j \in 1..m
      BY <2>3
    <3> QED BY <2>3, <2>4, <2>5, <2>6, <3>1, <3>2, <3>3
  <2>9. v # <<>> /\ (v[m + 1] = <<Blank>>) = (u[n + k] = Blank)
    <3>1. v # <<>>
      BY <2>3
    <3>2. u[n + k] = sym[k]
      BY <2>3
    <3> QED BY <2>3, <2>4, <3>1, <3>2
  <2>10. AllBlank(u) /\ NoneBlank(u) /\ LastBlank(u)
    BY <2>3, <2>7, <2>8, <2>9 DEF v
  <2> QED BY <2>1, <2>10 DEF u
<1> HIDE DEF T
<1>3. str \in T
  BY <1>1, <1>2, ByLetters
<1> QED BY <1>3 DEF T

-----------------------------------------------------------------------------
(* What is typed is the line editor's.                                     *)

Text   == LettersOf(Line)
Ahead  == LettersOf(SubSeq(Line, 1, CursorPos))
Behind == LettersOf(SubSeq(Line, CursorPos + 1, cur_pos))

\* A sequence of two parts.
LEMMA TwoParts ==
    ASSUME NEW T, NEW s \in Seq(T), NEW t \in Seq(T)
    PROVE  /\ s \o t \in Seq(T) /\ Len(s \o t) = Len(s) + Len(t)
           /\ SubSeq(s \o t, 1, Len(s)) = s
           /\ SubSeq(s \o t, Len(s) + 1, Len(s \o t)) = t
OBVIOUS

LEMMA TailOfJoined ==
    ASSUME NEW T, NEW s \in Seq(T), NEW t \in Seq(T), Len(s) = 1
    PROVE  /\ Len(s \o t) = Len(t) + 1 /\ Len(t) \in Nat
           /\ Tail(s \o t) = t
<1>1. \A x, y \in Seq(T) : /\ x \o y \in Seq(T) /\ Len(x \o y) = Len(x) + Len(y)
                           /\ \A i \in 1..Len(y) : (x \o y)[Len(x) + i] = y[i]
  BY JoinFacts
<1>2. PICK u \in Seq(T) :
         /\ u = s \o t /\ Len(u) = Len(s) + Len(t)
         /\ \A i \in 1..Len(t) : u[Len(s) + i] = t[i]
  BY <1>1, Zenon
<1>3. Len(t) \in Nat /\ Len(u) = Len(t) + 1 /\ \A i \in 1..Len(t) : u[1 + i] = t[i]
  BY <1>2, LenProperties
<1>4. u # <<>>
  BY <1>3
<1>5. /\ Tail(u) \in Seq(T) /\ Len(Tail(u)) = Len(u) - 1
      /\ \A i \in 1..Len(Tail(u)) : Tail(u)[i] = u[i + 1]
  BY <1>4, HeadTailProperties
<1>6. Len(Tail(u)) = Len(t) /\ \A i \in 1..Len(t) : Tail(u)[i] = t[i]
  BY <1>3, <1>5
<1>7. Tail(u) = t
  BY <1>5, <1>6, SeqEqual
<1> QED BY <1>2, <1>3, <1>7

LEMMA WhereTheCursorIs ==
    ASSUME IInv
    PROVE  LET before == SubSeq(Line, 1, CursorPos)
               behind == SubSeq(Line, CursorPos + 1, cur_pos)
           IN  /\ before \in Seq(Written) /\ Whole(before) /\ Len(before) = CursorPos
               /\ behind \in Seq(Written) /\ Whole(behind) /\ Len(behind) = cur_pos - CursorPos
               /\ Line = before \o behind
<1>1. Line \in Seq(Written) /\ Whole(Line) /\ Len(Line) = cur_pos /\ Cut(Line, CursorPos)
  BY LineFacts
<1>2. CursorPos \in 0..Len(Line)
  BY <1>1 DEF Cut
<1> QED BY <1>1, <1>2, PartsOf, WholeCut

LEMMA EditorSees ==
    ASSUME IInv
    PROVE  /\ Text = Ahead \o Behind
           /\ Ahead \in Seq(AllLetters) /\ Behind \in Seq(AllLetters) /\ Text \in Seq(AllLetters)
           /\ Len(Text) = Len(Ahead) + Len(Behind) /\ Len(Text) = Total
           /\ Editor!Cursor = Len(Ahead) /\ Editor!Front = Ahead /\ Editor!Back = Behind
<1>1. Text = Ahead \o Behind /\ Ahead \in Seq(AllLetters) /\ Behind \in Seq(AllLetters)
  BY WhereTheCursorIs, LettersOfJoined, LettersAreCounted DEF Text, Ahead, Behind
<1>2. /\ Text \in Seq(AllLetters) /\ Len(Text) = Len(Ahead) + Len(Behind)
      /\ Len(Ahead) \in Nat /\ Len(Behind) \in Nat
      /\ SubSeq(Text, 1, Len(Ahead)) = Ahead
      /\ SubSeq(Text, Len(Ahead) + 1, Len(Text)) = Behind
  BY <1>1, TwoParts, LenProperties
<1>3. Len(Text) = Total
  <2>1. Len(Text) = AsciiIn(Line) + CyrilIn(Line)
    BY LineFacts, LettersAreCounted DEF Text
  <2>2. ascii = AsciiIn(Line) /\ cyril = CyrilIn(Line) /\ ascii \in Nat /\ cyril \in Nat
    BY LineFacts DEF IInv, Edits
  <2> QED BY <2>1, <2>2 DEF Total
<1>4. Editor!Cursor = Len(Ahead)
  <2>1. Editor!Cursor = Len(Text) - Len(Behind)
    BY DEF Editor!Cursor, Text, Behind
  <2> QED BY <1>2, <2>1
<1>5. Editor!Front = Ahead /\ Editor!Back = Behind
  BY <1>2, <1>4 DEF Editor!Front, Editor!Back, Text
<1> QED BY <1>1, <1>2, <1>3, <1>4, <1>5

\* The next line is of two parts, with the cursor between them.
LEMMA NextParts ==
    ASSUME IInv', NEW x \in Seq(Written), Whole(x), NEW y \in Seq(Written), Whole(y),
           Line' = x \o y, CursorPos' = Len(x)
    PROVE  /\ Text' = LettersOf(x) \o LettersOf(y)
           /\ Ahead' = LettersOf(x) /\ Behind' = LettersOf(y)
<1>1. Len(Line') = cur_pos'
  <2>1. cur_pos' \in Nat
    BY DEF IInv, TypeOK
  <2>2. Len(String(current_input', cur_pos')) = cur_pos'
    BY <2>1, StringFacts
  <2> QED BY <2>2 DEF Line
<1>2. SubSeq(Line', 1, CursorPos') = x /\ SubSeq(Line', CursorPos' + 1, cur_pos') = y
  BY <1>1, TwoParts
<1>3. LettersOf(x \o y) = LettersOf(x) \o LettersOf(y)
  BY LettersOfJoined
<1>4. /\ Text' = LettersOf(Line') /\ Ahead' = LettersOf(SubSeq(Line', 1, CursorPos'))
      /\ Behind' = LettersOf(SubSeq(Line', CursorPos' + 1, cur_pos'))
  BY DEF Text, Ahead, Behind
<1> QED BY <1>2, <1>3, <1>4

LEMMA TypeRefines ==
    ASSUME IInv, IInv', NEW sym, Letter(sym), Alphabet(sym)
    PROVE  Editor!Type(sym) /\ sym \in AllLetters
<1> DEFINE before == SubSeq(Line, 1, CursorPos)
           behind == SubSeq(Line, CursorPos + 1, cur_pos)
           first  == before \o sym
<1>1. /\ before \in Seq(Written) /\ Whole(before) /\ Len(before) = CursorPos
      /\ behind \in Seq(Written) /\ Whole(behind)
      /\ Len(Line) = cur_pos
  BY WhereTheCursorIs, LineFacts
<1>2. sym \in Seq(Written) /\ Whole(sym) /\ sym \in AllLetters /\ Len(sym) \in Nat
  BY OneLetter, LetterIs
<1>3. /\ current_input' = Inserted(sym) /\ cur_pos' = cur_pos + Len(sym)
      /\ UNCHANGED left_offset /\ Total < MAX_STR_COUNT
  BY DEF Alphabet
<1>4. Line' = first \o behind
  BY <1>1, <1>3, InsertedLine DEF Line
<1>5. CursorPos' = CursorPos + Len(sym)
  <2>1. cur_pos \in Nat /\ left_offset \in Nat
    BY LineFacts
  <2> QED BY <1>2, <1>3, <2>1 DEF CursorPos
<1> HIDE DEF before, behind
<1>6. /\ first \in Seq(Written) /\ Whole(first) /\ Len(first) = CursorPos + Len(sym)
      /\ LettersOf(first) = Append(LettersOf(before), sym)
  BY <1>1, <1>2, OneMoreIsWhole, JoinFacts
<1> HIDE DEF first
<1>7. Text' = LettersOf(first) \o LettersOf(behind) /\ Behind' = LettersOf(behind)
  BY <1>1, <1>4, <1>5, <1>6, NextParts
<1>8. LettersOf(before) = Ahead /\ LettersOf(behind) = Behind
  BY DEF before, behind, Ahead, Behind
<1>9. Append(Ahead, sym) = Ahead \o <<sym>>
  BY <1>2, EditorSees, AppendIsConcat
<1>10. Text' = (Ahead \o <<sym>>) \o Behind /\ Behind' = Behind
  BY <1>6, <1>7, <1>8, <1>9
<1>11. Len(Text) < MAX_STR_COUNT
  BY <1>3, EditorSees
<1>12. Len(Behind') = Len(Behind)
  BY <1>10
<1> QED BY <1>2, <1>10, <1>11, <1>12, EditorSees DEF Editor!Type, Text, Behind

\* The letter between two cuts of the line that the handlers take for one.
LEMMA OneLetterThere ==
    ASSUME IInv, NEW bytes \in {1, 2}, NEW from \in Nat,
           Cut(Line, from), Cut(Line, from + bytes),
           bytes = 2 => IsCyrillicSymbol(current_input[from], current_input[from + 1])
    PROVE  LET there == SubSeq(Line, from + 1, from + bytes)
           IN  /\ there \in Seq(Written) /\ Whole(there)
               /\ LettersOf(there) \in Seq(AllLetters) /\ Len(LettersOf(there)) = 1
<1> DEFINE to == from + bytes
           there == SubSeq(Line, from + 1, to)
<1>1. /\ Line \in Seq(Written) /\ Whole(Line) /\ Len(Line) = cur_pos /\ cur_pos \in Nat
      /\ \A i \in 0..(cur_pos - 1) : Line[i + 1] = current_input[i]
  BY LineFacts
<1>2. to \in 0..cur_pos /\ from <= to /\ to - from = bytes /\ Cut(Line, to)
  BY <1>1 DEF Cut
<1> HIDE DEF to
<1>3. /\ there \in Seq(Written) /\ Whole(there) /\ Len(there) = to - from
      /\ \A i \in 1..(to - from) : there[i] = Line[from + i]
  <2>1. there \in Seq(Written) /\ Whole(there)
    BY <1>1, <1>2, ThreeParts
  <2>2. Len(there) = to - from
    BY <1>1, <1>2, ThreeParts
  <2>3. \A i \in 1..(to - from) : there[i] = Line[from + i]
    BY <1>1, <1>2, ThreeParts
  <2> QED BY <2>1, <2>2, <2>3
<1> HIDE DEF there
<1>4. Len(there) = bytes /\ \A i \in 1..bytes : there[i] = Line[from + i]
  BY <1>2, <1>3
<1>5. ASSUME bytes = 2
      PROVE  <<there[1], there[2]>> \in Cyrillic
  <2>1. there[1] = Line[from + 1] /\ there[2] = Line[from + 2]
    BY <1>4, <1>5
  <2>2. from \in 0..(cur_pos - 1) /\ from + 1 \in 0..(cur_pos - 1) /\ (from + 1) + 1 = from + 2
    BY <1>1, <1>2, <1>5 DEF to
  <2>3. Line[from + 1] = current_input[from] /\ Line[from + 2] = current_input[from + 1]
    BY <1>1, <2>2
  <2> QED BY <1>5, <2>1, <2>3 DEF IsCyrillicSymbol
<1>6. AsciiIn(there) + CyrilIn(there) = 1
  <2>1. /\ AsciiIn(there) = IF bytes = 2 THEN 0 ELSE 1
        /\ CyrilIn(there) = IF bytes = 2 THEN 1 ELSE 0
    BY <1>3, <1>4, <1>5, PieceOfOne
  <2> QED BY <2>1
<1> QED BY <1>3, <1>6, LettersAreCounted DEF there, to

\* A line cut at two places has the letters of three parts.
LEMMA LettersOfParts ==
    ASSUME IInv, NEW from \in Nat, NEW to \in Nat, Cut(Line, from), Cut(Line, to), from <= to
    PROVE  LET before == SubSeq(Line, 1, from)
               there  == SubSeq(Line, from + 1, to)
               behind == SubSeq(Line, to + 1, cur_pos)
           IN  /\ before \in Seq(Written) /\ Whole(before) /\ Len(before) = from
               /\ there \in Seq(Written) /\ Whole(there) /\ Len(there) = to - from
               /\ behind \in Seq(Written) /\ Whole(behind)
               /\ LettersOf(before) \in Seq(AllLetters) /\ LettersOf(there) \in Seq(AllLetters)
               /\ LettersOf(behind) \in Seq(AllLetters)
               /\ LettersOf(SubSeq(Line, 1, to)) = LettersOf(before) \o LettersOf(there)
               /\ LettersOf(SubSeq(Line, from + 1, cur_pos)) = LettersOf(there) \o LettersOf(behind)
               /\ \A i \in 1..(to - from) : there[i] = Line[from + i]
               /\ \A i \in 1..from : before[i] = Line[i]
<1> DEFINE before == SubSeq(Line, 1, from)
           there  == SubSeq(Line, from + 1, to)
           behind == SubSeq(Line, to + 1, cur_pos)
<1>1. /\ Line \in Seq(Written) /\ Whole(Line) /\ Len(Line) = cur_pos /\ cur_pos \in Nat
  BY LineFacts
<1>2. from \in 0..cur_pos /\ to \in 0..cur_pos
  BY <1>1 DEF Cut
<1>3. /\ before \in Seq(Written) /\ Whole(before) /\ Len(before) = from
      /\ there \in Seq(Written) /\ Whole(there) /\ Len(there) = to - from
      /\ behind \in Seq(Written) /\ Whole(behind)
      /\ \A i \in 1..from : before[i] = Line[i]
      /\ \A i \in 1..(to - from) : there[i] = Line[from + i]
  <2>1. before \in Seq(Written) /\ Whole(before) /\ Len(before) = from
    BY <1>1, ThreeParts
  <2>2. there \in Seq(Written) /\ Whole(there)
    BY <1>1, ThreeParts
  <2>3. Len(there) = to - from
    BY <1>1, ThreeParts
  <2>4. behind \in Seq(Written) /\ Whole(behind)
    BY <1>1, ThreeParts
  <2>5. \A i \in 1..from : before[i] = Line[i]
    BY <1>1, ThreeParts
  <2>6. \A i \in 1..(to - from) : there[i] = Line[from + i]
    BY <1>1, ThreeParts
  <2> QED BY <2>1, <2>2, <2>3, <2>4, <2>5, <2>6
<1>4. /\ SubSeq(Line, 1, to) = before \o there
      /\ SubSeq(Line, from + 1, cur_pos) = there \o behind
  <2>1. 1 \in 1..(Len(Line) + 1) /\ from \in (1 - 1)..Len(Line) /\ to \in from..Len(Line)
    BY <1>1, <1>2
  <2>2. SubSeq(Line, 1, from) \o SubSeq(Line, from + 1, to) = SubSeq(Line, 1, to)
    BY <1>1, <2>1, ConcatAdjacentSubSeq
  <2>3. from + 1 \in 1..(Len(Line) + 1) /\ to \in ((from + 1) - 1)..Len(Line)
        /\ cur_pos \in to..Len(Line)
    BY <1>1, <1>2
  <2>4. SubSeq(Line, from + 1, to) \o SubSeq(Line, to + 1, cur_pos)
        = SubSeq(Line, from + 1, cur_pos)
    BY <1>1, <2>3, ConcatAdjacentSubSeq
  <2> QED BY <2>2, <2>4
<1> HIDE DEF before, there, behind
<1>5. /\ LettersOf(before) \in Seq(AllLetters) /\ LettersOf(there) \in Seq(AllLetters)
      /\ LettersOf(behind) \in Seq(AllLetters)
      /\ LettersOf(before \o there) = LettersOf(before) \o LettersOf(there)
      /\ LettersOf(there \o behind) = LettersOf(there) \o LettersOf(behind)
  BY <1>3, LettersAreCounted, LettersOfJoined
<1> QED BY <1>3, <1>4, <1>5 DEF before, there, behind

\* What is before the cursor and behind from goes.
LEMMA EraseRefines ==
    ASSUME IInv, IInv', NEW from \in Nat, Cut(Line, from), from <= CursorPos,
           NEW cleared \in Nat, CursorPos' = from,
           current_input' = Removed(from, CursorPos, cleared),
           cur_pos' = cur_pos - (CursorPos - from)
    PROVE  LET n == Len(LettersOf(SubSeq(Line, from + 1, CursorPos)))
               before == LettersOf(SubSeq(Line, 1, from))
           IN  /\ Editor!Erase(n) /\ n \in 0..Editor!Cursor
               /\ before \in Seq(AllLetters) /\ Len(before) = Editor!Cursor - n
               /\ Ahead = before \o LettersOf(SubSeq(Line, from + 1, CursorPos))
<1> DEFINE x == SubSeq(Line, 1, from)
           gone == SubSeq(Line, from + 1, CursorPos)
           y == SubSeq(Line, CursorPos + 1, cur_pos)
           n == Len(LettersOf(gone))
<1>1. /\ Len(Line) = cur_pos /\ cur_pos \in Nat /\ Cut(Line, CursorPos)
      /\ CursorPos \in 0..cur_pos /\ CursorPos \in Nat
  BY LineFacts
<1>2. /\ x \in Seq(Written) /\ Whole(x) /\ Len(x) = from /\ y \in Seq(Written) /\ Whole(y)
      /\ LettersOf(x) \in Seq(AllLetters) /\ LettersOf(gone) \in Seq(AllLetters)
      /\ Ahead = LettersOf(x) \o LettersOf(gone) /\ Behind = LettersOf(y)
  BY <1>1, LettersOfParts DEF Ahead, Behind
<1>3. Line' = x \o y
  <2>1. from \in 0..cur_pos
    BY <1>1 DEF Cut
  <2> QED BY <1>1, <2>1, RemovedLine DEF Line
<1> HIDE DEF x, y, gone
<1>4. Text' = LettersOf(x) \o Behind /\ Behind' = Behind
  BY <1>2, <1>3, NextParts
<1> DEFINE a == LettersOf(x)
           b == LettersOf(gone)
<1>5. a \in Seq(AllLetters) /\ b \in Seq(AllLetters) /\ Ahead = a \o b
  BY <1>2
<1>6. Text = (a \o b) \o Behind /\ Behind \in Seq(AllLetters) /\ Editor!Cursor = Len(a \o b)
  BY <1>5, EditorSees
<1> HIDE DEF a, b
<1>7. Len(a \o b) = Len(a) + Len(b) /\ Len(a) \in Nat /\ Len(b) \in Nat
  BY <1>5
<1>8. SubSeq(Text, 1, Editor!Cursor - Len(b)) = a
  <2>1. Editor!Cursor - Len(b) = Len(a)
    BY <1>6, <1>7
  <2>2. Text = a \o (b \o Behind) /\ b \o Behind \in Seq(AllLetters)
    BY <1>5, <1>6, JoinOneMore
  <2>3. SubSeq(a \o (b \o Behind), 1, Len(a)) = a
    BY <1>5, <2>2, TwoParts
  <2> QED BY <2>1, <2>2, <2>3
<1>9. Text' = SubSeq(Text, 1, Editor!Cursor - Len(b)) \o Editor!Back
  BY <1>4, <1>8, EditorSees DEF a
<1>10. Editor!Erase(Len(b))
  <2>1. Len(Behind') = Len(Behind)
    BY <1>4
  <2> QED BY <1>9, <2>1 DEF Editor!Erase, Text, Behind
<1> QED BY <1>5, <1>6, <1>7, <1>10 DEF a, b, x, gone

LEMMA BackspaceRefines ==
    ASSUME IInv, IInv', Backspace
    PROVE  Editor!Backspace
<1>1. PICK bytes \in {1, 2}, from \in Nat, cleared \in Nat :
          /\ from + bytes = CursorPos
          /\ Cut(Line, from) /\ Cut(Line, from + bytes)
          /\ bytes = 2 => IsCyrillicSymbol(current_input[from], current_input[from + 1])
          /\ current_input' = Removed(from, from + bytes, cleared)
          /\ cur_pos' = cur_pos - bytes /\ CursorPos' = from
  BY BackspaceIs
<1> DEFINE n == Len(LettersOf(SubSeq(Line, from + 1, CursorPos)))
<1>2. n = 1
  BY <1>1, OneLetterThere
<1>3. from <= CursorPos /\ CursorPos - from = bytes
  BY <1>1
<1>4. cur_pos' = cur_pos - (CursorPos - from) /\ current_input' = Removed(from, CursorPos, cleared)
  BY <1>1, <1>3
<1>5. Editor!Erase(n) /\ n \in 0..Editor!Cursor
  BY <1>1, <1>3, <1>4, EraseRefines
<1>6. Editor!Cursor > 0
  <2>1. Editor!Cursor \in Nat
    BY EditorSees, LenProperties
  <2> HIDE DEF n
  <2> QED BY <1>2, <1>5, <2>1
<1> QED BY <1>2, <1>5, <1>6 DEF Editor!Backspace

\* A word or spaces: what the bytes say of it, the letters say.
LEMMA CtrlWRefines ==
    ASSUME IInv, IInv', CtrlW
    PROVE  Editor!EraseWord
<1> DEFINE c == CursorPos
           C == Editor!Cursor
           isBlank(i) == current_input[i] = Blank
<1>1. PICK from \in 0..(c - 1) :
         /\ WordBegins(from) /\ Cut(Line, from) /\ from \in Nat
         /\ current_input' = Removed(from, c, c - from)
         /\ cur_pos' = cur_pos - (c - from) /\ CursorPos' = from
         /\ from < c
  BY CtrlWIs
<1>2. /\ \A i \in 0..(cur_pos - 1) : Line[i + 1] = current_input[i]
      /\ c \in 0..cur_pos /\ cur_pos \in Nat /\ Cut(Line, c) /\ c \in Nat
  BY LineFacts
<1>3. c - from \in Nat /\ from <= c /\ from - 1 \in Int /\ c - 1 \in 0..(cur_pos - 1)
      /\ (from > 0 => from - 1 \in 0..(cur_pos - 1) /\ (from - 1) + 1 = from)
  BY <1>1, <1>2
<1>4. /\ \A i \in from..(c - 1) : isBlank(i) = isBlank(c - 1)
      /\ from > 0 => isBlank(from - 1) # isBlank(c - 1)
  BY <1>1 DEF WordBegins
<1> DEFINE x == SubSeq(Line, 1, from)
           gone == SubSeq(Line, from + 1, c)
           a == LettersOf(x)
           b == LettersOf(gone)
           n == Len(b)
<1>5. /\ Editor!Erase(n) /\ n \in 0..C /\ a \in Seq(AllLetters) /\ Len(a) = C - n
      /\ Ahead = a \o b
  BY <1>1, <1>3, EraseRefines
<1> HIDE DEF C
<1>6. /\ x \in Seq(Written) /\ Whole(x) /\ Len(x) = from
      /\ gone \in Seq(Written) /\ Whole(gone) /\ Len(gone) = c - from
      /\ b \in Seq(AllLetters)
      /\ \A i \in 1..(c - from) : gone[i] = Line[from + i]
      /\ \A i \in 1..from : x[i] = Line[i]
  BY <1>1, <1>2, <1>3, LettersOfParts
<1> HIDE DEF x, gone, c
<1>7. Text = (a \o b) \o Behind /\ Behind \in Seq(AllLetters) /\ C = Len(a \o b)
  BY <1>5, EditorSees DEF C
<1>8. \A i \in 1..(c - from) : gone[i] = current_input[from + i - 1]
  <2> SUFFICES ASSUME NEW i \in 1..(c - from)
               PROVE  gone[i] = current_input[from + i - 1]
    OBVIOUS
  <2>1. from + i - 1 \in 0..(cur_pos - 1) /\ (from + i - 1) + 1 = from + i
    BY <1>1, <1>2, <1>3
  <2>2. Line[(from + i - 1) + 1] = current_input[from + i - 1]
    BY <1>2, <2>1
  <2> QED BY <1>6, <2>1, <2>2
<1>9. \A i \in 1..(c - from) : (gone[i] = Blank) = isBlank(c - 1)
  <2> SUFFICES ASSUME NEW i \in 1..(c - from)
               PROVE  (gone[i] = Blank) = isBlank(c - 1)
    OBVIOUS
  <2>1. from + i - 1 \in from..(c - 1)
    BY <1>1, <1>2, <1>3
  <2> QED BY <1>4, <1>8, <2>1
<1>10. \A i \in 1..n : (b[i] = <<Blank>>) = isBlank(c - 1)
  <2>1. CASE isBlank(c - 1)
    <3>1. \A i \in 1..Len(gone) : gone[i] = Blank
      BY <1>6, <1>9, <2>1
    <3> QED BY <1>6, <2>1, <3>1, BlankLetters
  <2>2. CASE ~isBlank(c - 1)
    <3>1. \A i \in 1..Len(gone) : gone[i] # Blank
      BY <1>6, <1>9, <2>2
    <3> QED BY <1>6, <2>2, <3>1, BlankLetters
  <2> QED BY <2>1, <2>2
<1>11. n \in Nat /\ n > 0 /\ b # <<>>
  <2>1. gone # <<>>
    <3>1. c - from > 0
      BY <1>1, <1>2
    <3> QED BY <1>6, <3>1
  <2>2. b # <<>>
    BY <1>6, <2>1, BlankLetters
  <2> QED BY <1>6, <2>2, EmptySeq, LenProperties
<1>12. from > 0 => a # <<>> /\ (a[Len(a)] = <<Blank>>) = isBlank(from - 1)
  <2> SUFFICES ASSUME from > 0
               PROVE  a # <<>> /\ (a[Len(a)] = <<Blank>>) = isBlank(from - 1)
    OBVIOUS
  <2>1. x # <<>>
    BY <1>6
  <2>2. x[from] = Line[from] /\ Line[from] = current_input[from - 1]
    <3>1. from \in 1..from
      BY <1>1
    <3>2. Line[(from - 1) + 1] = current_input[from - 1]
      BY <1>2, <1>3
    <3> QED BY <1>3, <1>6, <3>1, <3>2
  <2> QED BY <1>6, <2>1, <2>2, BlankLetters
<1>13. from = 0 => a = <<>>
  <2>1. from = 0 => x = <<>>
    BY <1>6, EmptySeq
  <2> QED BY <2>1, NoLetters
<1> HIDE DEF a, b
<1>14. /\ Len(a) \in Nat /\ C = Len(a) + n /\ C - n = Len(a)
       /\ \A i \in 1..Len(a) : Text[i] = a[i]
       /\ \A i \in 1..n : Text[Len(a) + i] = b[i]
  <2>1. Len(a) \in Nat /\ C = Len(a) + n
    BY <1>5, <1>6, <1>7, <1>11
  <2>2. /\ \A i \in 1..Len(a) : (a \o b)[i] = a[i] /\ i \in 1..Len(a \o b)
        /\ \A i \in 1..n : (a \o b)[Len(a) + i] = b[i] /\ Len(a) + i \in 1..Len(a \o b)
    BY <1>5, <1>6, JoinFacts
  <2>3. a \o b \in Seq(AllLetters)
    BY <1>5, <1>6
  <2>4. \A i \in 1..Len(a \o b) : Text[i] = (a \o b)[i]
    BY <1>7, <2>3, JoinFacts
  <2>5. C - n = Len(a)
    <3> HIDE DEF n
    <3> QED BY <1>11, <2>1
  <2>6. \A i \in 1..Len(a) : Text[i] = a[i]
    BY <2>2, <2>4
  <2>7. \A i \in 1..n : Text[Len(a) + i] = b[i]
    BY <2>2, <2>4
  <2> QED BY <2>1, <2>5, <2>6, <2>7
<1> DEFINE blank(i) == Text[i] = <<Blank>>
<1>15. n \in 1..C
  BY <1>11, <1>14
<1>16. \A i \in (C - n + 1)..C : blank(i) = isBlank(c - 1)
  <2> SUFFICES ASSUME NEW i \in (C - n + 1)..C
               PROVE  blank(i) = isBlank(c - 1)
    OBVIOUS
  <2>1. i - Len(a) \in 1..n /\ Len(a) + (i - Len(a)) = i
    BY <1>11, <1>14
  <2>2. Text[i] = b[i - Len(a)]
    BY <1>14, <2>1
  <2> QED BY <1>10, <2>1, <2>2
<1>17. blank(C) = isBlank(c - 1)
  <2>1. C \in (C - n + 1)..C
    BY <1>11, <1>14
  <2> QED BY <1>16, <2>1
<1>18. ASSUME n < C
       PROVE  blank(C - n) # blank(C)
  <2>1. Len(a) > 0 /\ Len(a) \in 1..Len(a)
    BY <1>14, <1>18, <1>11
  <2>2. from > 0
    <3>1. from # 0
      BY <1>13, <2>1
    <3> QED BY <1>1, <3>1
  <2>3. blank(C - n) = isBlank(from - 1)
    BY <1>12, <1>14, <2>1, <2>2
  <2> QED BY <1>4, <1>17, <2>2, <2>3
<1> HIDE DEF n, isBlank
<1>19. \A i \in (C - n + 1)..C : blank(i) = blank(C)
  BY <1>16, <1>17
<1> QED BY <1>5, <1>15, <1>18, <1>19 DEF Editor!EraseWord, Text, C

LEMMA DelRefines ==
    ASSUME IInv, IInv', Del
    PROVE  Editor!Delete
<1> DEFINE c == CursorPos
<1>1. PICK bytes \in {1, 2} :
          /\ Cut(Line, c) /\ Cut(Line, c + bytes)
          /\ bytes = 2 => IsCyrillicSymbol(current_input[c], current_input[c + 1])
          /\ current_input' = Removed(c, c + bytes, 1)
          /\ cur_pos' = cur_pos - bytes /\ CursorPos' = c
  BY DelIs
<1>2. Len(Line) = cur_pos /\ cur_pos \in Nat /\ c \in 0..cur_pos /\ c \in Nat
  BY LineFacts
<1> DEFINE to == c + bytes
           x == SubSeq(Line, 1, c)
           there == SubSeq(Line, c + 1, to)
           y == SubSeq(Line, to + 1, cur_pos)
<1>3. to \in Nat /\ c <= to /\ to - c = bytes /\ to \in 0..cur_pos
  BY <1>1, <1>2 DEF Cut
<1>4. LettersOf(there) \in Seq(AllLetters) /\ Len(LettersOf(there)) = 1
  BY <1>1, <1>2, OneLetterThere
<1> HIDE DEF to
<1>5. /\ x \in Seq(Written) /\ Whole(x) /\ Len(x) = c /\ y \in Seq(Written) /\ Whole(y)
      /\ LettersOf(y) \in Seq(AllLetters)
      /\ LettersOf(SubSeq(Line, c + 1, cur_pos)) = LettersOf(there) \o LettersOf(y)
  BY <1>1, <1>2, <1>3, LettersOfParts DEF to
<1>6. LettersOf(x) = Ahead /\ Behind = LettersOf(there) \o LettersOf(y)
  BY <1>5 DEF Ahead, Behind
<1>7. Line' = x \o y
  <2>1. cur_pos' = cur_pos - (to - c) /\ current_input' = Removed(c, to, 1) /\ 1 \in Nat
    BY <1>1, <1>3 DEF to
  <2> HIDE DEF c
  <2> QED BY <1>2, <1>3, <2>1, RemovedLine DEF Line
<1> HIDE DEF x, y, there
<1>8. Text' = Ahead \o LettersOf(y) /\ Behind' = LettersOf(y)
  BY <1>1, <1>5, <1>6, <1>7, NextParts
<1> DEFINE a == LettersOf(there)
           b == LettersOf(y)
<1>9. a \in Seq(AllLetters) /\ b \in Seq(AllLetters) /\ Len(a) = 1 /\ Behind = a \o b
  BY <1>4, <1>5, <1>6
<1> HIDE DEF a, b
<1>10. /\ Len(Behind) = Len(b) + 1 /\ Len(b) \in Nat
       /\ Tail(Behind) = b
  BY <1>9, TailOfJoined
<1>11. Text' = Ahead \o b /\ Behind' = b
  BY <1>8 DEF b
<1>12. Text' = Ahead \o Tail(Behind)
  BY <1>10, <1>11, Zenon
<1>13. Len(Behind') = Len(Behind) - 1 /\ Len(Behind) > 0
  BY <1>10, <1>11
<1> QED BY <1>12, <1>13, EditorSees DEF Editor!Delete, Text, Behind

\* The cursor goes over one letter.
LEMMA MoveRefines ==
    ASSUME Moved, defined, NEW by \in {1, -1}, Len(Behind') = Len(Behind) + by,
           Len(Behind) + by \in 0..Len(Text)
    PROVE  Editor!Move(by)
<1>1. UNCHANGED Line
  BY DEF Moved, Line, String
<1>2. Text' = Text
  BY <1>1 DEF Text
<1>3. Len(Behind') \in 0..Len(Text')
  BY <1>2
<1>4. UNCHANGED <<input_history, ih_iter, save_buf, save_buf_read, result, defined>>
  BY DEF Moved, browsing
<1> QED BY <1>2, <1>3, <1>4 DEF Editor!Move, Text, Behind

LEMMA ArrowLeftRefines ==
    ASSUME IInv, ArrowLeft, defined
    PROVE  Editor!Move(1)
<1>1. PICK bytes \in {1, 2}, from \in Nat :
          /\ from + bytes = CursorPos /\ Cut(Line, from)
          /\ bytes = 2 => IsCyrillicSymbol(current_input[from], current_input[from + 1])
          /\ left_offset' \in 0..cur_pos /\ cur_pos - left_offset' = from
          /\ Moved
  BY ArrowLeftIs
<1>2. Cut(Line, CursorPos) /\ CursorPos \in Nat /\ from <= CursorPos
  BY <1>1, LineFacts
<1> DEFINE there == SubSeq(Line, from + 1, CursorPos)
<1>3. LettersOf(there) \in Seq(AllLetters) /\ Len(LettersOf(there)) = 1
  BY <1>1, <1>2, OneLetterThere
<1>4. /\ LettersOf(SubSeq(Line, from + 1, cur_pos)) = LettersOf(there) \o Behind
      /\ Behind \in Seq(AllLetters)
  BY <1>1, <1>2, LettersOfParts DEF Behind
<1>5. Behind' = LettersOf(SubSeq(Line, from + 1, cur_pos))
  <2>1. UNCHANGED cur_pos /\ UNCHANGED Line /\ CursorPos' = from
    BY <1>1 DEF Moved, Line, String, CursorPos
  <2> QED BY <2>1 DEF Behind
<1>6. Len(Behind') = Len(Behind) + 1 /\ Len(Behind) \in Nat
  BY <1>3, <1>4, <1>5, TailOfJoined
<1>7. Ahead = LettersOf(SubSeq(Line, 1, from)) \o LettersOf(there)
  BY <1>1, <1>2, LettersOfParts DEF Ahead
<1>8. LettersOf(SubSeq(Line, 1, from)) \in Seq(AllLetters)
  BY <1>1, <1>2, LettersOfParts
<1>9. Len(Behind) + 1 \in 0..Len(Text)
  <2> DEFINE a == LettersOf(SubSeq(Line, 1, from))
             b == LettersOf(there)
  <2>1. a \in Seq(AllLetters) /\ b \in Seq(AllLetters) /\ Len(b) = 1 /\ Ahead = a \o b
    BY <1>3, <1>7, <1>8
  <2> HIDE DEF a, b
  <2>2. Len(a \o b) = Len(a) + Len(b) /\ Len(a) \in Nat
    <3>1. a \in Seq(AllLetters) /\ b \in Seq(AllLetters)
      BY <2>1
    <3> QED BY <3>1
  <2>3. Len(Ahead) = Len(a \o b)
    BY <2>1, Zenon
  <2>4. Len(Text) = Len(Ahead) + Len(Behind)
    BY EditorSees
  <2> QED BY <1>6, <2>1, <2>2, <2>3, <2>4
<1> QED BY <1>1, <1>6, <1>9, MoveRefines

LEMMA ArrowRightRefines ==
    ASSUME IInv, ArrowRight, defined
    PROVE  Editor!Move(-1)
<1> DEFINE c == CursorPos
<1>1. PICK bytes \in {1, 2} :
          /\ Cut(Line, c + bytes)
          /\ bytes = 2 => IsCyrillicSymbol(current_input[c], current_input[c + 1])
          /\ left_offset' \in 0..cur_pos /\ cur_pos - left_offset' = c + bytes
          /\ Moved
  BY ArrowRightIs
<1>2. Cut(Line, c) /\ c \in Nat /\ c <= c + bytes /\ c + bytes \in Nat
  BY LineFacts
<1> DEFINE there == SubSeq(Line, c + 1, c + bytes)
           y == SubSeq(Line, (c + bytes) + 1, cur_pos)
<1>3. LettersOf(there) \in Seq(AllLetters) /\ Len(LettersOf(there)) = 1
  BY <1>1, <1>2, OneLetterThere
<1>4. Behind = LettersOf(there) \o LettersOf(y) /\ LettersOf(y) \in Seq(AllLetters)
  <2> DEFINE to == c + bytes
  <2>1. to \in Nat /\ Cut(Line, to) /\ c <= to
    BY <1>1, <1>2
  <2> HIDE DEF to
  <2>2. /\ LettersOf(SubSeq(Line, c + 1, cur_pos))
           = LettersOf(SubSeq(Line, c + 1, to)) \o LettersOf(SubSeq(Line, to + 1, cur_pos))
        /\ LettersOf(SubSeq(Line, to + 1, cur_pos)) \in Seq(AllLetters)
    BY <1>2, <2>1, LettersOfParts
  <2> QED BY <2>2 DEF Behind, to
<1>5. Behind' = LettersOf(y)
  <2>1. UNCHANGED cur_pos /\ UNCHANGED Line /\ CursorPos' = c + bytes
    BY <1>1 DEF Moved, Line, String, CursorPos
  <2> QED BY <2>1 DEF Behind
<1> DEFINE a == LettersOf(there)
           b == LettersOf(y)
<1>6. Len(a \o b) = Len(a) + Len(b) /\ Len(a) = 1 /\ Len(b) \in Nat
  BY <1>3, <1>4
<1> HIDE DEF a, b
<1>7. Len(b) = Len(a \o b) + (-1)
  BY <1>6
<1>8. Len(Behind') = Len(Behind) + (-1)
  BY <1>4, <1>5, <1>7 DEF a, b
<1>9. Len(Behind) + (-1) \in 0..Len(Text)
  <2>1. Len(Behind) = Len(a \o b) /\ Len(a \o b) = Len(b) + 1
    <3>1. Behind = a \o b
      BY <1>4 DEF a, b
    <3> QED BY <1>6, <3>1
  <2>2. Len(Text) = Len(Ahead) + Len(Behind) /\ Len(Ahead) \in Nat
    BY EditorSees, LenProperties
  <2> QED BY <1>6, <2>1, <2>2
<1> QED BY <1>1, <1>8, <1>9, MoveRefines

\* A line without letters has no bytes of an old one where a handler looks for some.
Emptied == cur_pos = 0 => current_input[0] = NUL

LEMMA RemovedEmpties ==
    ASSUME IInv, NEW from \in Nat, NEW to \in 0..cur_pos, from <= to,
           NEW cleared \in Nat, cleared > 0,
           current_input' = Removed(from, to, cleared), cur_pos' = cur_pos - (to - from)
    PROVE  Emptied'
<1> SUFFICES ASSUME cur_pos' = 0
             PROVE  current_input'[0] = NUL
  BY DEF Emptied
<1>1. cur_pos \in Nat /\ MAX_STR_COUNT \in Nat
  BY LineFacts
<1>2. from = 0 /\ cur_pos - (to - from) = 0
  BY <1>1
<1>3. 0 \in Positions
  BY <1>1 DEF Positions, MAX_BUFFER_SIZE
<1>4. ~(0 < from) /\ ~(0 < cur_pos - (to - from)) /\ 0 < (cur_pos - (to - from)) + cleared
  BY <1>1, <1>2
<1>5. Removed(from, to, cleared)[0] = NUL
  BY <1>3, <1>4 DEF Removed
<1> QED BY <1>5

LEMMA ShownEmpties ==
    ASSUME IInv, NEW str, Fitting(str), Shown(str)
    PROVE  Emptied'
<1>1. 0 \in Positions
  <2>1. MAX_STR_COUNT \in Nat
    BY LineFacts
  <2> QED BY <2>1 DEF Positions, MAX_BUFFER_SIZE
<1>2. Len(str) \in Nat
  BY FittingShort
<1>3. current_input'[0] = IF 0 < Len(str) THEN str[0 + 1] ELSE NUL
  BY <1>1 DEF Shown
<1> QED BY <1>2, <1>3 DEF Shown, Emptied

LEMMA EmptiedNext == IInv /\ Emptied /\ [Next]_vars => Emptied'
<1> SUFFICES ASSUME IInv, Emptied, [Next]_vars
             PROVE  Emptied'
  OBVIOUS
<1>1. cur_pos \in Nat /\ CursorPos \in 0..cur_pos
  BY LineFacts
<1>2. ASSUME NEW sym \in Reads, Alphabet(sym)
      PROVE  Emptied'
  <2>1. Len(sym) \in Nat /\ Len(sym) > 0 /\ cur_pos' = cur_pos + Len(sym)
    <3>1. Len(sym) \in 1..6
      BY InputAssumption, Zenon
    <3> QED BY <1>2, <3>1 DEF Alphabet
  <2> QED BY <1>1, <2>1 DEF Emptied
<1>3. ASSUME Backspace
      PROVE  Emptied'
  <2>1. PICK bytes \in {1, 2}, from \in Nat, cleared \in Nat :
            /\ from + bytes = CursorPos /\ cleared > 0
            /\ current_input' = Removed(from, from + bytes, cleared)
            /\ cur_pos' = cur_pos - bytes
    BY <1>3, BackspaceIs
  <2> DEFINE to == from + bytes
  <2>2. to \in 0..cur_pos /\ from <= to /\ to - from = bytes
    BY <1>1, <2>1
  <2>3. current_input' = Removed(from, to, cleared) /\ cur_pos' = cur_pos - (to - from)
    BY <2>1, <2>2
  <2> HIDE DEF to
  <2> QED BY <2>1, <2>2, <2>3, RemovedEmpties
<1>4. ASSUME Del
      PROVE  Emptied'
  <2> DEFINE c == CursorPos
  <2>1. PICK bytes \in {1, 2} :
            /\ Cut(Line, c + bytes)
            /\ current_input' = Removed(c, c + bytes, 1)
            /\ cur_pos' = cur_pos - bytes
    BY <1>4, DelIs
  <2> DEFINE to == c + bytes
  <2>2. Len(Line) = cur_pos
    BY LineFacts
  <2>3. to \in 0..cur_pos /\ c <= to /\ to - c = bytes /\ c \in Nat /\ 1 \in Nat
    BY <1>1, <2>1, <2>2 DEF Cut
  <2>4. current_input' = Removed(c, to, 1) /\ cur_pos' = cur_pos - (to - c)
    BY <2>1, <2>3
  <2> HIDE DEF to, c
  <2> QED BY <2>3, <2>4, RemovedEmpties
<1>5. ASSUME CtrlW
      PROVE  Emptied'
  <2> DEFINE c == CursorPos
  <2>1. PICK from \in 0..(c - 1) :
            /\ from \in Nat /\ from < c /\ c \in 0..cur_pos
            /\ current_input' = Removed(from, c, c - from)
            /\ cur_pos' = cur_pos - (c - from)
    BY <1>5, CtrlWIs
  <2> HIDE DEF c
  <2>2. from <= c /\ c - from \in Nat /\ c - from > 0
    BY <1>1, <2>1
  <2> QED BY <2>1, <2>2, RemovedEmpties
<1>6. CASE UNCHANGED <<current_input, cur_pos>>
  BY <1>6 DEF Emptied
<1>7. ASSUME ArrowUp \/ ArrowDown
      PROVE  Emptied'
  <2>1. ih_iter \in 1..(Len(input_history) + 1) /\ Len(input_history) \in Nat
    BY DEF IInv, TypeOK
  <2>2. UNCHANGED line \/ \E str : Fitting(str) /\ Shown(str)
    <3>1. CASE ArrowUp
      <4>1. CASE ih_iter # 1
        <5>1. ih_iter - 1 \in DOMAIN input_history /\ Shown(input_history[ih_iter - 1])
          BY <2>1, <3>1, <4>1 DEF ArrowUp, IInv, TypeOK
        <5> QED BY <5>1 DEF IInv, Kept
      <4>2. CASE ih_iter = 1
        BY <3>1, <4>2 DEF ArrowUp
      <4> QED BY <4>1, <4>2
    <3>2. CASE ArrowDown
      <4>1. ih_iter' \in 1..(Len(input_history) + 1)
        BY <2>1, <3>2 DEF ArrowDown
      <4>2. CASE ih_iter' # Len(input_history) + 1
        <5>1. ih_iter' \in DOMAIN input_history /\ Shown(input_history[ih_iter'])
          BY <2>1, <3>2, <4>1, <4>2 DEF ArrowDown, IInv, TypeOK
        <5> QED BY <5>1 DEF IInv, Kept
      <4>3. CASE ih_iter' = Len(input_history) + 1
        <5>1. (Shown(save_buf) /\ save_buf # Unwritten) \/ UNCHANGED line
          BY <3>2, <4>3 DEF ArrowDown
        <5> QED BY <5>1 DEF IInv, Kept
      <4> QED BY <4>2, <4>3
    <3> QED BY <1>7, <3>1, <3>2
  <2> QED BY <1>6, <2>2, ShownEmpties DEF line
<1>8. ASSUME NewLine
      PROVE  Emptied'
  <2>1. 0 \in Positions
    <3>1. MAX_STR_COUNT \in Nat
      BY LineFacts
    <3> QED BY <3>1 DEF Positions, MAX_BUFFER_SIZE
  <2> QED BY <1>8, <2>1 DEF NewLine, Clear, Emptied
<1>9. CASE ArrowLeft \/ ArrowRight \/ UNCHANGED vars
  BY <1>6, <1>9 DEF ArrowLeft, ArrowRight, Moved, vars
<1> QED BY <1>2, <1>3, <1>4, <1>5, <1>7, <1>8, <1>9
        DEF Next, Readline, OneByte, TwoBytes, ThreeBytes, FourBytes

\* The lines that are kept, as letters.
LettersOfAll(h) == [i \in DOMAIN h |-> LettersOf(h[i])]

LEMMA LettersOfLines ==
    ASSUME NEW S, NEW h \in Seq(S)
    PROVE  /\ LettersOfAll(h) \in Seq({LettersOf(x) : x \in S})
           /\ Len(LettersOfAll(h)) = Len(h) /\ DOMAIN LettersOfAll(h) = 1..Len(h)
           /\ \A i \in 1..Len(h) : LettersOfAll(h)[i] = LettersOf(h[i])
           /\ LettersOfAll(h) # <<>> <=> h # <<>>
<1> DEFINE m == LettersOfAll(h)
           T == {LettersOf(x) : x \in S}
<1>1. Len(h) \in Nat /\ DOMAIN h = 1..Len(h) /\ \A i \in 1..Len(h) : h[i] \in S
  OBVIOUS
<1>2. m = [i \in 1..Len(h) |-> LettersOf(h[i])]
  BY <1>1 DEF LettersOfAll
<1>3. \A i \in 1..Len(h) : LettersOf(h[i]) \in T
  BY <1>1
<1> HIDE DEF m, T
<1>4. m \in Seq(T) /\ Len(m) = Len(h) /\ DOMAIN m = 1..Len(h)
  BY <1>1, <1>2, <1>3
<1>5. \A i \in 1..Len(h) : m[i] = LettersOf(h[i])
  BY <1>2
<1>6. m # <<>> <=> h # <<>>
  BY <1>4
<1> QED BY <1>4, <1>5, <1>6 DEF m, T

LEMMA LettersOfMoreLines ==
    ASSUME NEW S, NEW h \in Seq(S), NEW x \in S
    PROVE  LettersOfAll(Append(h, x)) = Append(LettersOfAll(h), LettersOf(x))
<1> DEFINE T == {LettersOf(y) : y \in S}
           m == LettersOfAll(h)
           a == LettersOfAll(Append(h, x))
           b == Append(m, LettersOf(x))
<1>1. Append(h, x) \in Seq(S) /\ LettersOf(x) \in T
  OBVIOUS
<1>2. /\ Len(h) \in Nat /\ Len(Append(h, x)) = Len(h) + 1
      /\ \A i \in 1..Len(h) : Append(h, x)[i] = h[i]
      /\ Append(h, x)[Len(h) + 1] = x
  BY AppendProperties, LenProperties
<1>3. /\ a \in Seq(T) /\ Len(a) = Len(h) + 1
      /\ \A i \in 1..(Len(h) + 1) : a[i] = LettersOf(Append(h, x)[i])
  BY <1>1, <1>2, LettersOfLines
<1>4. m \in Seq(T) /\ Len(m) = Len(h) /\ \A i \in 1..Len(h) : m[i] = LettersOf(h[i])
  BY LettersOfLines
<1> HIDE DEF T, m, a
<1>5. /\ b \in Seq(T) /\ Len(b) = Len(h) + 1
      /\ \A i \in 1..Len(h) : b[i] = m[i]
      /\ b[Len(h) + 1] = LettersOf(x)
  BY <1>1, <1>4, AppendProperties
<1> HIDE DEF b
<1>6. ASSUME NEW i \in 1..(Len(h) + 1)
      PROVE  a[i] = b[i]
  <2>1. CASE i = Len(h) + 1
    BY <1>2, <1>3, <1>5, <2>1
  <2>2. CASE i # Len(h) + 1
    <3>1. i \in 1..Len(h)
      BY <1>2, <2>2
    <3> QED BY <1>2, <1>3, <1>4, <1>5, <3>1
  <2> QED BY <2>1, <2>2
<1>7. a = b
  BY <1>3, <1>5, <1>6, SeqEqual
<1> QED BY <1>7 DEF a, b, m

LEMMA LettersOfFewerLines ==
    ASSUME NEW S, NEW h \in Seq(S), h # <<>>
    PROVE  LettersOfAll(Tail(h)) = Tail(LettersOfAll(h))
<1> DEFINE T == {LettersOf(y) : y \in S}
           m == LettersOfAll(h)
           a == LettersOfAll(Tail(h))
           b == Tail(m)
<1>1. /\ Tail(h) \in Seq(S) /\ Len(h) \in Nat /\ Len(Tail(h)) = Len(h) - 1
      /\ \A i \in 1..Len(Tail(h)) : Tail(h)[i] = h[i + 1]
  BY HeadTailProperties, LenProperties
<1>2. /\ a \in Seq(T) /\ Len(a) = Len(h) - 1
      /\ \A i \in 1..Len(Tail(h)) : a[i] = LettersOf(Tail(h)[i])
  BY <1>1, LettersOfLines
<1>3. /\ m \in Seq(T) /\ Len(m) = Len(h) /\ m # <<>>
      /\ \A i \in 1..Len(h) : m[i] = LettersOf(h[i])
  BY LettersOfLines
<1> HIDE DEF T, m, a
<1>4. /\ b \in Seq(T) /\ Len(b) = Len(m) - 1
      /\ \A i \in 1..Len(b) : b[i] = m[i + 1]
  BY <1>3, HeadTailProperties
<1> HIDE DEF b
<1>5. ASSUME NEW i \in 1..Len(a)
      PROVE  a[i] = b[i]
  <2>1. i \in 1..Len(Tail(h)) /\ i + 1 \in 1..Len(h) /\ i \in 1..Len(b)
    BY <1>1, <1>2, <1>3, <1>4
  <2> QED BY <1>1, <1>2, <1>3, <1>4, <2>1
<1>6. Len(a) = Len(b)
  BY <1>2, <1>3, <1>4
<1>7. a = b
  BY <1>2, <1>4, <1>5, <1>6, SeqEqual
<1> QED BY <1>7 DEF a, b, m

\* What was never written is no draft.
LEMMA DraftIs ==
    ASSUME IInv
    PROVE  (save_buf # Unwritten) = (LettersOf(save_buf) # LettersOf(Unwritten))
<1> SUFFICES ASSUME save_buf # Unwritten, LettersOf(save_buf) = LettersOf(Unwritten)
             PROVE  FALSE
  OBVIOUS
<1> DEFINE b == "unwritten"
<1>1. <<>> \in Seq({b}) /\ b \in {b} /\ b \notin Trail
  BY InputAssumption DEF Written
<1>2. LettersOf(<<>> \o <<b>>) = Append(LettersOf(<<>>), <<b>>)
  BY <1>1, OneMoreByte
<1>3. LettersOf(<<>> \o <<b>>) = Append(<<>>, <<b>>)
  BY <1>2, NoLetters, Zenon
<1>4. <<>> \o <<b>> = <<b>> /\ Append(<<>>, <<b>>) = <<<<b>>>>
  OBVIOUS
<1>5. LettersOf(Unwritten) = <<<<b>>>>
  BY <1>3, <1>4 DEF Unwritten
<1>6. LettersOf(save_buf) \in Seq(AllLetters)
  BY LettersAreCounted DEF IInv, Kept, Fitting
<1>7. <<<<b>>>> \in Seq(AllLetters)
  BY <1>5, <1>6
<1>8. <<b>> \in AllLetters
  <2> DEFINE s == <<<<b>>>>
  <2>1. Len(s) = 1 /\ s[1] = <<b>>
    OBVIOUS
  <2>2. s \in Seq(AllLetters)
    BY <1>7
  <2> HIDE DEF s
  <2>3. s[1] \in AllLetters
    BY <2>1, <2>2
  <2> QED BY <2>1, <2>3
<1>9. Letter(<<b>>)
  BY <1>8, LetterIs
<1>10. b \in Latin
  <2>1. (<<b>>)[1] = b /\ Len(<<b>>) = 1
    OBVIOUS
  <2>2. <<b>> # <<(<<b>>)[1], (<<b>>)[2]>>
    OBVIOUS
  <2> QED BY <1>9, <2>1, <2>2 DEF Letter
<1> QED BY <1>10, InputAssumption DEF Written

\* A line is shown as the line editor shows it.
LEMMA ShownRefines ==
    ASSUME IInv', NEW str, Fitting(str), Shown(str)
    PROVE  Editor!Show(LettersOf(str))
<1>1. str \in Seq(Written) /\ Whole(str) /\ Len(str) \in Nat
  BY FittingShort DEF Fitting
<1>2. Line' = str /\ cur_pos' = Len(str) /\ left_offset' = 0
  BY ShownLine DEF Shown
<1>3. <<>> \in Seq(Written) /\ Whole(<<>>) /\ str \o <<>> = str
  BY <1>1 DEF Whole
<1>4. CursorPos' = Len(str)
  BY <1>1, <1>2 DEF CursorPos
<1>5. Line' = str \o <<>>
  BY <1>2, <1>3
<1>6. Text' = LettersOf(str) \o LettersOf(<<>>) /\ Behind' = LettersOf(<<>>)
  BY <1>1, <1>3, <1>4, <1>5, NextParts
<1>7. LettersOf(str) \in Seq(AllLetters)
  BY <1>1, LettersAreCounted
<1>8. LettersOf(str) \o <<>> = LettersOf(str) /\ Len(<<>>) = 0
  BY <1>7
<1>9. Text' = LettersOf(str) /\ Len(Behind') = 0
  BY <1>6, <1>8, NoLetters, Zenon
<1> QED BY <1>9 DEF Editor!Show, Text, Behind

LEMMA HistoryIs ==
    ASSUME IInv
    PROVE  /\ Len(LettersOfAll(input_history)) = Len(input_history)
           /\ Len(input_history) \in Nat /\ ih_iter \in 1..(Len(input_history) + 1)
           /\ LettersOfAll(input_history) # <<>> <=> input_history # <<>>
           /\ \A i \in 1..Len(input_history) :
                  /\ Fitting(input_history[i])
                  /\ LettersOfAll(input_history)[i] = LettersOf(input_history[i])
<1>1. input_history \in Seq(Seq(Written)) /\ ih_iter \in 1..(Len(input_history) + 1)
  BY DEF IInv, TypeOK
<1>2. Len(input_history) \in Nat /\ DOMAIN input_history = 1..Len(input_history)
  BY <1>1
<1>3. \A i \in 1..Len(input_history) : Fitting(input_history[i])
  BY <1>2 DEF IInv, Kept
<1> QED BY <1>1, <1>2, <1>3, LettersOfLines

LEMMA UpRefines ==
    ASSUME IInv, IInv', ArrowUp, defined
    PROVE  Editor!Up
<1> DEFINE h == input_history
           m == LettersOfAll(h)
<1>1. h # <<>> /\ m # <<>>
  BY HistoryIs DEF ArrowUp
<1>2. LettersOf(save_buf') = IF save_buf_read THEN LettersOf(save_buf) ELSE LettersOf(Line)
  BY DEF ArrowUp, Line
<1>3. save_buf_read' = TRUE /\ UNCHANGED <<input_history, result, defined>>
  BY DEF ArrowUp
<1>4. IF ih_iter > 1 THEN ih_iter' = ih_iter - 1 /\ Editor!Show(m[ih_iter - 1])
                     ELSE UNCHANGED <<ih_iter, Text, Len(Behind)>>
  <2>1. CASE ih_iter > 1
    <3>1. ih_iter' = ih_iter - 1 /\ Shown(h[ih_iter - 1])
      BY <2>1, HistoryIs DEF ArrowUp
    <3>2. ih_iter - 1 \in 1..Len(h)
      BY <2>1, HistoryIs
    <3>3. Fitting(h[ih_iter - 1]) /\ m[ih_iter - 1] = LettersOf(h[ih_iter - 1])
      BY <3>2, HistoryIs
    <3>4. Editor!Show(LettersOf(h[ih_iter - 1]))
      BY <3>1, <3>3, ShownRefines
    <3>5. Editor!Show(m[ih_iter - 1])
      BY <3>3, <3>4
    <3> QED BY <2>1, <3>1, <3>5
  <2>2. CASE ~(ih_iter > 1)
    <3>1. ih_iter = 1
      BY <2>2, HistoryIs
    <3>2. UNCHANGED ih_iter /\ UNCHANGED <<current_input, cur_pos, left_offset>>
      BY <3>1 DEF ArrowUp, line
    <3>3. UNCHANGED Line /\ UNCHANGED CursorPos
      BY <3>2 DEF Line, String, CursorPos
    <3>4. UNCHANGED Text /\ UNCHANGED Behind
      BY <3>2, <3>3 DEF Text, Behind
    <3> QED BY <2>2, <3>2, <3>4
  <2> QED BY <2>1, <2>2
<1>5. UNCHANGED LettersOfAll(input_history)
  BY <1>3 DEF LettersOfAll
<1> HIDE DEF h, m
<1> QED BY <1>1, <1>2, <1>3, <1>4, <1>5 DEF Editor!Up, h, m, LettersOfAll, Text, Behind

LEMMA DownRefines ==
    ASSUME IInv, IInv', ArrowDown, defined
    PROVE  Editor!Down
<1> DEFINE h == input_history
           m == LettersOfAll(h)
<1>1. h # <<>> /\ m # <<>> /\ Len(m) = Len(h)
  BY HistoryIs DEF ArrowDown
<1>2. /\ ih_iter' = IF ih_iter # Len(h) + 1 THEN ih_iter + 1 ELSE ih_iter
      /\ UNCHANGED <<input_history, save_buf, save_buf_read, result>>
  BY DEF ArrowDown
<1>3. ih_iter' = (IF ih_iter > Len(h) THEN ih_iter ELSE ih_iter + 1)
  BY <1>2, HistoryIs
<1>4. ih_iter' \in 1..(Len(h) + 1) /\ (ih_iter' <= Len(h) <=> ih_iter' # Len(h) + 1)
  BY <1>2, HistoryIs
<1>5. CASE ih_iter' <= Len(h)
  <2>1. ih_iter' \in 1..Len(h)
    BY <1>4, <1>5
  <2>2. Shown(h[ih_iter']) /\ UNCHANGED defined
    BY <1>4, <1>5 DEF ArrowDown
  <2>3. Fitting(h[ih_iter']) /\ m[ih_iter'] = LettersOf(h[ih_iter'])
    BY <2>1, HistoryIs
  <2>4. Editor!Show(LettersOf(h[ih_iter']))
    BY <2>2, <2>3, ShownRefines
  <2>5. Editor!Show(m[ih_iter'])
    BY <2>3, <2>4
  <2> HIDE DEF h, m
  <2> QED BY <1>1, <1>2, <1>3, <1>5, <2>2, <2>5
          DEF Editor!Down, h, m, LettersOfAll
<1>6. CASE ~(ih_iter' <= Len(h)) /\ save_buf # Unwritten
  <2>1. Shown(save_buf) /\ UNCHANGED defined
    BY <1>4, <1>6 DEF ArrowDown
  <2>2. Fitting(save_buf)
    BY <1>6 DEF IInv, Kept
  <2>3. Editor!Show(LettersOf(save_buf))
    BY <2>1, <2>2, ShownRefines
  <2>4. LettersOf(save_buf) # LettersOf(Unwritten)
    BY <1>6, DraftIs
  <2> HIDE DEF h, m
  <2> QED BY <1>1, <1>2, <1>3, <1>6, <2>1, <2>3, <2>4
          DEF Editor!Down, h, m, LettersOfAll
<1>7. CASE ~(ih_iter' <= Len(h)) /\ save_buf = Unwritten
  <2>1. defined' = FALSE /\ UNCHANGED <<current_input, cur_pos, left_offset>>
    BY <1>4, <1>7 DEF ArrowDown, line
  <2>2. UNCHANGED Line /\ UNCHANGED CursorPos
    BY <2>1 DEF Line, String, CursorPos
  <2>3. UNCHANGED Text /\ UNCHANGED Behind
    BY <2>1, <2>2 DEF Text, Behind
  <2>4. LettersOf(save_buf) = LettersOf(Unwritten)
    BY <1>7
  <2> HIDE DEF h, m
  <2> QED BY <1>1, <1>2, <1>3, <1>7, <2>1, <2>3, <2>4
          DEF Editor!Down, h, m, LettersOfAll, Text, Behind
<1> QED BY <1>5, <1>6, <1>7

LEMMA EnterRefines ==
    ASSUME IInv, IInv', Emptied, NewLine, defined
    PROVE  Editor!Enter
<1> DEFINE h == input_history
           older == IF Len(h) >= MAX_HISTORY_SIZE THEN Tail(h) ELSE h
           fewer == LettersOfAll(older)
<1>1. /\ result' = Append(Line, "LF") /\ input_history' = Append(older, Line)
      /\ ih_iter' = Len(input_history') + 1
      /\ cur_pos' = 0 /\ left_offset' = 0 /\ save_buf_read' = FALSE
      /\ UNCHANGED <<save_buf, defined>> /\ current_input[0] # NUL
  BY DEF NewLine, Line
<1>2. Line \in Seq(Written) /\ Whole(Line) /\ Len(Line) = cur_pos /\ cur_pos \in Nat
  BY LineFacts
<1>3. cur_pos > 0 /\ Line # <<>>
  BY <1>1, <1>2 DEF Emptied
<1>4. Text # <<>>
  BY <1>2, <1>3, BlankLetters DEF Text
<1>5. h \in Seq(Seq(Written))
  BY DEF IInv, TypeOK
<1>6. /\ older \in Seq(Seq(Written))
      /\ fewer = IF Len(h) >= MAX_HISTORY_SIZE THEN Tail(LettersOfAll(h)) ELSE LettersOfAll(h)
  <2>1. CASE Len(h) >= MAX_HISTORY_SIZE
    <3>1. h # <<>>
      BY <1>5, <2>1, InputAssumption
    <3>2. Tail(h) \in Seq(Seq(Written))
      BY <1>5, <3>1, HeadTailProperties
    <3>3. LettersOfAll(Tail(h)) = Tail(LettersOfAll(h))
      BY <1>5, <3>1, LettersOfFewerLines
    <3> QED BY <2>1, <3>2, <3>3
  <2>2. CASE ~(Len(h) >= MAX_HISTORY_SIZE)
    BY <1>5, <2>2
  <2> QED BY <2>1, <2>2
<1> HIDE DEF older
<1>7. LettersOfAll(input_history') = Append(fewer, Text)
  <2>1. LettersOfAll(Append(older, Line)) = Append(LettersOfAll(older), LettersOf(Line))
    BY <1>2, <1>6, LettersOfMoreLines
  <2> QED BY <1>1, <2>1 DEF Text
<1>8. Len(LettersOfAll(h)) = Len(h)
  BY HistoryIs
<1>9. Len(LettersOfAll(input_history')) = Len(input_history')
  <2>1. input_history' \in Seq(Seq(Written))
    BY DEF IInv, TypeOK
  <2> QED BY <2>1, LettersOfLines
<1>10. LettersOf(SubSeq(result', 1, Len(result') - 1)) = Text
  <2> DEFINE l == Line
             S == Written \cup {"LF"}
  <2>1. l \in Seq(S)
    BY <1>2
  <2> HIDE DEF l, S
  <2>2. Append(l, "LF") = l \o <<"LF">> /\ Len(l \o <<"LF">>) - 1 = Len(l)
    BY <2>1
  <2>3. SubSeq(l \o <<"LF">>, 1, Len(l)) = l
    <3>1. "LF" \in S
      BY DEF S
    <3> QED BY <2>1, <3>1
  <2>4. SubSeq(result', 1, Len(result') - 1) = l
    BY <1>1, <2>2, <2>3 DEF l
  <2> QED BY <2>4 DEF l, Text
<1>11. Text' = <<>> /\ Len(Behind') = 0
  <2>1. Line' = <<>> /\ SubSeq(Line', CursorPos' + 1, cur_pos') = <<>>
    BY <1>1 DEF Line, String, CursorPos
  <2>2. Text' = LettersOf(<<>>) /\ Behind' = LettersOf(<<>>)
    BY <2>1 DEF Text, Behind
  <2>3. Len(<<>>) = 0
    OBVIOUS
  <2> QED BY <2>2, <2>3, NoLetters, Zenon
<1>12. Editor!Show(<<>>)
  BY <1>11 DEF Editor!Show, Text, Behind
<1>13. /\ LettersOfAll(input_history')
              = Append(IF Len(LettersOfAll(h)) >= MAX_HISTORY_SIZE THEN Tail(LettersOfAll(h))
                       ELSE LettersOfAll(h), Text)
       /\ ih_iter' = Len(LettersOfAll(input_history')) + 1
  BY <1>1, <1>6, <1>7, <1>8, <1>9
<1> HIDE DEF h, fewer
<1> QED BY <1>1, <1>4, <1>10, <1>12, <1>13 DEF Editor!Enter, LettersOfAll, h, Text

\* An edit leaves the lines that are kept, the draft and what was handed over alone.
LEMMA EditRefines ==
    ASSUME defined, Edited,
           (\E l \in AllLetters : Editor!Type(l)) \/ Editor!Backspace
           \/ Editor!EraseWord \/ Editor!Delete
    PROVE  Editor!Edit
<1>1. save_buf_read' = FALSE /\ UNCHANGED <<input_history, ih_iter, save_buf, result, defined>>
  BY DEF Edited
<1>2. UNCHANGED <<LettersOfAll(input_history), LettersOf(save_buf),
                  LettersOf(SubSeq(result, 1, Len(result) - 1))>>
  BY <1>1 DEF LettersOfAll
<1> QED BY <1>1, <1>2 DEF Editor!Edit, AllLetters, LettersOfAll

LEMMA NextRefines ==
    ASSUME IInv, IInv', Emptied, [Next]_vars
    PROVE  [Editor!Next]_(Editor!editor)
<1>1. ASSUME NEW sym, Letter(sym), Alphabet(sym), defined
      PROVE  Editor!Edit
  BY <1>1, TypeRefines, EditRefines DEF Alphabet
<1>2. ASSUME NEW sym \in Reads, OneByte(sym), defined
      PROVE  Editor!Next
  <2>1. ASSUME sym[1] \in Latin, Alphabet(sym)
        PROVE  Editor!Next
    <3>1. Len(sym) = 1 /\ sym = [i \in 1..Len(sym) |-> sym[i]]
      BY <1>2, InputAssumption DEF OneByte
    <3>2. sym = [i \in 1..1 |-> sym[i]]
      BY <3>1
    <3>3. sym = <<sym[1]>>
      BY <3>2
    <3>4. Letter(sym)
      BY <2>1, <3>3 DEF Letter
    <3> QED BY <1>1, <1>2, <2>1, <3>4 DEF Editor!Next
  <2>2. ASSUME Backspace
        PROVE  Editor!Next
    <3>1. Edited /\ Editor!Backspace
      BY <2>2, BackspaceRefines DEF Backspace
    <3> QED BY <1>2, <3>1, EditRefines DEF Editor!Next
  <2>3. ASSUME CtrlW
        PROVE  Editor!Next
    <3>1. Edited /\ Editor!EraseWord
      BY <2>3, CtrlWRefines DEF CtrlW
    <3> QED BY <1>2, <3>1, EditRefines DEF Editor!Next
  <2>4. ASSUME NewLine
        PROVE  Editor!Next
    BY <1>2, <2>4, EnterRefines DEF Editor!Next
  <2> QED BY <1>2, <2>1, <2>2, <2>3, <2>4 DEF OneByte
<1>3. ASSUME NEW sym \in Reads, TwoBytes(sym), defined
      PROVE  Editor!Next
  <2>1. Len(sym) = 2 /\ sym = [i \in 1..Len(sym) |-> sym[i]]
    BY <1>3, InputAssumption DEF TwoBytes
  <2>2. sym = [i \in 1..2 |-> sym[i]]
    BY <2>1
  <2>3. sym = <<sym[1], sym[2]>>
    BY <2>2
  <2>4. <<sym[1], sym[2]>> \in Cyrillic /\ Alphabet(sym)
    BY <1>3 DEF TwoBytes, IsCyrillicSymbol
  <2>5. Letter(sym)
    BY <2>3, <2>4 DEF Letter
  <2> QED BY <1>1, <1>3, <2>4, <2>5 DEF Editor!Next
<1>4. ASSUME NEW sym \in Reads, ThreeBytes(sym), defined
      PROVE  Editor!Next
  BY <1>4, ArrowLeftRefines, ArrowRightRefines, UpRefines, DownRefines
     DEF ThreeBytes, Editor!Next
<1>5. ASSUME NEW sym \in Reads, FourBytes(sym), defined
      PROVE  Editor!Next
  <2>1. Edited /\ Editor!Delete
    BY <1>5, DelRefines DEF FourBytes, Del
  <2> QED BY <1>5, <2>1, EditRefines DEF Editor!Next
<1>6. ASSUME UNCHANGED vars
      PROVE  UNCHANGED Editor!editor
  <2>1. UNCHANGED <<current_input, cur_pos, left_offset, input_history, ih_iter,
                    save_buf, save_buf_read, result, defined>>
    BY <1>6 DEF vars
  <2>2. UNCHANGED Line /\ UNCHANGED CursorPos
    BY <2>1 DEF Line, String, CursorPos
  <2>3. UNCHANGED Text /\ UNCHANGED Behind
    BY <2>1, <2>2 DEF Text, Behind
  <2>4. UNCHANGED <<LettersOfAll(input_history), LettersOf(save_buf),
                    LettersOf(SubSeq(result, 1, Len(result) - 1))>>
    BY <2>1 DEF LettersOfAll
  <2> QED BY <2>1, <2>3, <2>4 DEF Editor!editor, Text, Behind, LettersOfAll
<1> QED BY <1>2, <1>3, <1>4, <1>5, <1>6 DEF Next, Readline

LEMMA InitRefines == Init => Editor!Init /\ Emptied
<1> SUFFICES ASSUME Init
             PROVE  Editor!Init /\ Emptied
  OBVIOUS
<1>1. Line = <<>> /\ SubSeq(Line, CursorPos + 1, cur_pos) = <<>>
  BY DEF Init, Line, String, CursorPos
<1>2. Len(<<>>) = 0
  OBVIOUS
<1>3. Text = <<>> /\ Len(Behind) = 0
  BY <1>1, <1>2, NoLetters, Zenon DEF Text, Behind
<1>4. LettersOfAll(input_history) = <<>>
  BY DEF Init, LettersOfAll
<1>5. LettersOf(SubSeq(result, 1, Len(result) - 1)) = <<>>
  <2>1. SubSeq(result, 1, Len(result) - 1) = <<>>
    BY DEF Init
  <2> QED BY <2>1, NoLetters, Zenon
<1>6. Editor!Init
  BY <1>3, <1>4, <1>5 DEF Init, Editor!Init, Text, Behind, LettersOfAll
<1>7. Emptied
  <2>1. MAX_STR_COUNT \in Nat
    BY InputAssumption
  <2>2. 0 \in Positions
    BY <2>1 DEF Positions, MAX_BUFFER_SIZE
  <2> QED BY <2>2 DEF Init, Clear, Emptied
<1> QED BY <1>6, <1>7

\* Whatever is typed, in whichever alphabet and however long the line: the bytes, the
\* offsets and the counters do to them what the key does to a line of letters, to the
\* cursor between two of them and to the lines entered before, or they do nothing.
THEOREM InputImplementsEditor == Spec => ImplementsEditor
BY InvInit, InvNext, EmptiedNext, InitRefines, NextRefines, PTL
   DEF Spec, ImplementsEditor, Editor!Spec
=============================================================================
